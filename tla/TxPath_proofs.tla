---------------------------- MODULE TxPath_proofs ----------------------------
(***************************************************************************)
(* The transmit path: the bridge, the buffer in front of the MAC and the   *)
(* merge, each proved on its own for all packets, depths and bounds, and   *)
(* then together.                                                          *)
(*                                                                         *)
(* The bridge's queue neither overflows nor underflows: nobody counts the  *)
(* words of fifo_80x8 exactly, the ready flag is two clocks late, and the  *)
(* invariant says how far the queue may have grown by then.  Its beats     *)
(* leave in order, each once (it implements the abstract FIFO), and        *)
(* towards the MAC each byte leaves in its place as long as the code's     *)
(* shift is complete.  The buffer's invariant says how far its delayed     *)
(* flags and its delayed counter may be behind; the merge's says which     *)
(* frame the selection belongs to and which beats are still inside.        *)
(***************************************************************************)
EXTENDS MCTxPath, L8Stream_proofs

-----------------------------------------------------------------------------
(* The bridge.                                                             *)

QueueTypeOK ==
    /\ queue \in Seq(Beats)
    /\ usedw_1d_r \in Nat
    /\ in_ready_r \in BOOLEAN

\* The fill count is one clock old, so the queue may be one word longer; the
\* ready flag is one clock older than that.
Late ==
    /\ Len(queue) <= usedw_1d_r + 1
    /\ in_ready_r => usedw_1d_r <= Threshold
    /\ Len(queue) <= Threshold + 2

QInv == QueueTypeOK /\ Late /\ NeverUnderflows

\* What the queue holds after a clock.
LEMMA QueueNext ==
    ASSUME NEW q \in Seq(Beats), NEW w \in Slot, NEW pop \in BOOLEAN,
           NEW q2, q2 = (IF pop /\ q # <<>> THEN Tail(q) ELSE q) \o w
    PROVE  /\ q2 \in Seq(Beats)
           /\ Len(q2) <= Len(q) + Len(w)
           /\ q # <<>> /\ (Len(q) > 1 \/ ~pop) => q2 # <<>>
<1>1. q \in Seq(Beats) /\ w \in Seq(Beats) /\ Len(w) \in Nat /\ Len(q) \in Nat
  BY DEF Slot
<1>2. CASE pop /\ q # <<>>
  <2>1. Tail(q) \in Seq(Beats) /\ Len(Tail(q)) = Len(q) - 1
    BY <1>1, <1>2
  <2>2. q2 = Tail(q) \o w
    BY <1>2
  <2>3. q2 \in Seq(Beats) /\ Len(q2) = (Len(q) - 1) + Len(w)
    BY <1>1, <2>1, <2>2
  <2>4. Len(q) > 1 => Len(q2) # 0
    BY <1>1, <2>3
  <2>5. q2 = <<>> => Len(q2) = 0
    OBVIOUS
  <2> QED BY <1>1, <1>2, <2>3, <2>4, <2>5
<1>3. CASE ~(pop /\ q # <<>>)
  <2>1. q2 \in Seq(Beats) /\ Len(q2) = Len(q) + Len(w)
    BY <1>1, <1>3
  <2>2. q # <<>> => Len(q) # 0
    BY <1>1
  <2>3. q2 = <<>> => Len(q2) = 0
    OBVIOUS
  <2> QED BY <1>1, <1>3, <2>1, <2>2, <2>3
<1> QED BY <1>2, <1>3

\* The arithmetic of one clock: q words in the queue, u the late count, r the
\* ready flag, w words written, q2 words after the clock.
LEMMA LateStep ==
    ASSUME NEW q \in Nat, NEW u \in Nat, NEW q2 \in Nat, NEW w \in Nat, NEW r \in BOOLEAN,
           w <= 1, ~r => w = 0, q2 <= q + w,
           q <= u + 1, r => u <= Threshold, q <= Threshold + 2
    PROVE  q2 <= q + 1 /\ (u < Threshold => q <= Threshold) /\ q2 <= Threshold + 2
BY DEF Threshold

\* A clock preserves the invariant.
LEMMA ClockQInv ==
    ASSUME QInv, sent \in Seq(Beats),
           NEW offered \in Offers, NEW out_ready \in BOOLEAN, Clock(offered, out_ready)
    PROVE  QInv' /\ sent' \in Seq(Beats)
<1> DEFINE pop == Pop(out_ready)
           written == IF in_ready_r THEN offered ELSE <<>>
<1>1. offered \in Slot /\ Len(offered) <= 1 /\ Len(offered) \in Nat
  <2>1. CASE offered = <<>>
    BY <2>1 DEF Slot
  <2>2. CASE offered # <<>>
    <3>1. PICK b \in Incoming : offered = <<b>>
      BY <2>2 DEF Offers
    <3>2. b \in Beats
      BY <3>1, NextBeatsAreBeats DEF Incoming
    <3> QED BY <3>1, <3>2 DEF Slot
  <2> QED BY <2>1, <2>2
<1>2. /\ written \in Slot
      /\ Len(written) \in Nat /\ Len(written) <= 1
      /\ ~in_ready_r => Len(written) = 0
  <2>1. CASE in_ready_r
    <3>1. written = offered
      BY <2>1
    <3> QED BY <1>1, <2>1, <3>1
  <2>2. CASE ~in_ready_r
    <3>1. written = <<>>
      BY <2>2
    <3>2. <<>> \in Slot /\ Len(<<>>) = 0
      BY DEF Slot
    <3> HIDE DEF written
    <3> QED BY <3>1, <3>2
  <2> QED BY <2>1, <2>2
<1>3. queue' = (IF pop /\ queue # <<>> THEN Tail(queue) ELSE queue) \o written
  BY DEF Clock
<1>4. pop \in BOOLEAN /\ queue \in Seq(Beats) /\ Len(queue) \in Nat
  BY DEF QInv, QueueTypeOK, Pop, Slot
<1> HIDE DEF pop, written
<1>5. /\ queue' \in Seq(Beats)
      /\ Len(queue') <= Len(queue) + Len(written)
      /\ queue # <<>> /\ (Len(queue) > 1 \/ ~pop) => queue' # <<>>
  BY <1>2, <1>3, <1>4, QueueNext
<1>6. /\ usedw_1d_r' = Len(queue)
      /\ in_ready_r' = (usedw_1d_r < Threshold)
  BY DEF Clock
<1>7. QueueTypeOK'
  BY <1>4, <1>5, <1>6 DEF QueueTypeOK
<1>8. Late'
  <2>1. Len(queue') \in Nat /\ usedw_1d_r \in Nat /\ in_ready_r \in BOOLEAN
    BY <1>5 DEF QInv, QueueTypeOK
  <2>2. /\ Len(queue) <= usedw_1d_r + 1
        /\ in_ready_r => usedw_1d_r <= Threshold
        /\ Len(queue) <= Threshold + 2
    BY DEF QInv, Late
  <2>3. /\ Len(queue') <= Len(queue) + 1
        /\ usedw_1d_r < Threshold => Len(queue) <= Threshold
        /\ Len(queue') <= Threshold + 2
    BY <1>2, <1>4, <1>5, <2>1, <2>2, LateStep
  <2> QED BY <1>6, <2>3 DEF Late
<1>9. NeverUnderflows'
  <2>1. queue_data_exist_r' = (queue # <<>> /\ (Len(queue) > 1 \/ ~pop))
    BY DEF Clock, next_queue_data_exist, pop
  <2> QED BY <1>5, <2>1 DEF NeverUnderflows
<1>10. sent' \in Seq(Beats)
  BY <1>2 DEF Clock, Slot, written
<1> QED BY <1>7, <1>8, <1>9, <1>10 DEF QInv

\* The invariant holds in every reachable state.
LEMMA QInvInvariant == Spec => [](QInv /\ sent \in Seq(Beats))
<1>1. Init => QInv /\ sent \in Seq(Beats)
  <2> SUFFICES ASSUME Init PROVE QInv /\ sent \in Seq(Beats)
    OBVIOUS
  <2>1. queue = <<>> /\ Len(queue) = 0 /\ usedw_1d_r = 0 /\ ~in_ready_r /\ ~queue_data_exist_r
    BY DEF Init
  <2>2. queue \in Seq(Beats) /\ sent \in Seq(Beats)
    BY DEF Init
  <2>3. in_ready_r \in BOOLEAN
    BY Zenon DEF Init
  <2>4. Late
    BY <2>1 DEF Late, Threshold
  <2> QED BY <2>1, <2>2, <2>3, <2>4 DEF QInv, QueueTypeOK, NeverUnderflows
<1>2. QInv /\ sent \in Seq(Beats) /\ [Next]_vars => (QInv /\ sent \in Seq(Beats))'
  <2> SUFFICES ASSUME QInv, sent \in Seq(Beats), [Next]_vars
               PROVE  (QInv /\ sent \in Seq(Beats))'
    OBVIOUS
  <2>1. CASE Next
    BY <2>1, ClockQInv DEF Next
  <2>2. CASE UNCHANGED vars
    BY <2>2 DEF vars, QInv, QueueTypeOK, Late, NeverUnderflows
  <2> QED BY <2>1, <2>2
<1> QED BY <1>1, <1>2, PTL DEF Spec

\* fifo_80x8 is never asked to take a ninth word, for which it has no place;
\* the threshold leaves room for the words that come in while the ready flag
\* is on its way.
THEOREM QueueNeverOverflows == Spec => []NeverOverflows
<1>1. QInv => NeverOverflows
  BY DEF QInv, QueueTypeOK, Late, NeverOverflows, FifoDepth, Threshold
<1> QED BY <1>1, QInvInvariant, PTL

\* fifo_80x8 is never asked for a word it does not have, although the flag
\* that announces one was computed a clock before.
THEOREM QueueNeverUnderflows == Spec => []NeverUnderflows
<1>1. QInv => NeverUnderflows
  BY DEF QInv
<1> QED BY <1>1, QInvInvariant, PTL

-----------------------------------------------------------------------------
(* Type correctness, on top of the queue's invariant.                      *)

\* The two shifts move bytes: the data of the last beat stay eight bytes.
LEMMA RemainderTyped ==
    ASSUME NEW b \in Beats
    PROVE  [pkt |-> b.pkt, n |-> b.n, data |-> Remainder(b)] \in Item
<1>1. b.pkt \in Packets /\ b.n \in Nat \ {0}
  BY BeatFacts
<1>2. b.pkt.empty \in 0..7
  BY <1>1, TailAssumption
<1>3. \A k \in 0..7 : UpperEnd(k) \in [1..8 -> Bytes] /\ LowerEnd(k) \in [1..8 -> Bytes]
  BY DEF UpperEnd, LowerEnd, Bytes
<1>4. DataOf(b) \in [1..8 -> Bytes]
  BY <1>2, <1>3 DEF DataOf
<1>5. ASSUME NEW k \in 0..7, NEW d \in [1..8 -> Bytes]
      PROVE  ShiftDown(k, d) \in [1..8 -> Bytes] /\ KeepLower(k, d) \in [1..8 -> Bytes]
  <2>1. \A j \in 1..8 : j > k => j - k \in 1..8
    OBVIOUS
  <2>2. \A j \in 1..8 : 8 - j \in k..2 * k - 1 => j + k \in 1..8
    OBVIOUS
  <2>3. 0 \in Bytes
    BY DEF Bytes
  <2>4. ShiftDown(k, d) \in [1..8 -> Bytes]
    BY <2>1, <2>3 DEF ShiftDown
  <2>5. KeepLower(k, d) \in [1..8 -> Bytes]
    BY <2>2, <2>3 DEF KeepLower
  <2> QED BY <2>4, <2>5
<1>6. Remainder(b) \in [1..8 -> Bytes]
  BY <1>2, <1>4, <1>5 DEF Remainder
<1> QED BY <1>1, <1>6 DEF Item

\* A clock keeps the types.
LEMMA ClockTypeOK ==
    ASSUME TypeOK, QInv, QInv',
           NEW offered \in Offers, NEW out_ready \in BOOLEAN, Clock(offered, out_ready)
    PROVE  TypeOK'
<1>1. queue' \in Seq(Beats) /\ sent' \in Seq(Beats)
  BY ClockQInv DEF QInv, QueueTypeOK, TypeOK
<1>2. usedw_1d_r' \in 0..FifoDepth
  <2>1. Len(queue) \in Nat /\ Len(queue) <= 7
    BY DEF QInv, QueueTypeOK, Late, Threshold
  <2>2. usedw_1d_r' = Len(queue)
    BY DEF Clock
  <2>3. \A k \in Nat : k <= 7 => k \in 0..8
    OBVIOUS
  <2> QED BY <2>1, <2>2, <2>3 DEF FifoDepth
<1>3. in_ready_r' \in BOOLEAN /\ queue_data_exist_r' \in BOOLEAN
  BY DEF Clock, next_queue_data_exist
<1>4. stage0' \in Seq(Item) /\ Len(stage0') <= 1
  <2>1. CASE Pop(out_ready) /\ queue # <<>>
    <3>1. queue[1] \in Beats
      BY <2>1 DEF TypeOK
    <3>2. PICK o \in Item : stage0' = <<o>>
      BY <2>1, <3>1, RemainderTyped DEF Clock
    <3>3. stage0' \in Seq(Item)
      BY <3>2
    <3>4. Len(stage0') = 1
      BY <3>2
    <3>5. \A k \in Int : k = 1 => k <= 1
      OBVIOUS
    <3>6. Len(stage0') <= 1
      BY <3>4, <3>5
    <3> QED BY <3>3, <3>6
  <2>2. CASE ~(Pop(out_ready) /\ queue # <<>>)
    <3>1. stage0' = <<>> \/ stage0' = stage0
      BY <2>2 DEF Clock
    <3>2. stage0 \in Seq(Item) /\ Len(stage0) <= 1
      BY DEF TypeOK
    <3>3. <<>> \in Seq(Item) /\ Len(<<>>) <= 1
      OBVIOUS
    <3> QED BY <3>1, <3>2, <3>3
  <2> QED BY <2>1, <2>2
<1>5. out' \in Seq(Item)
  BY DEF Clock, TypeOK
<1>6. Direction' \in {"to_ulong2", "to_l8"}
  BY DEF Clock, TypeOK
<1> QED BY <1>1, <1>2, <1>3, <1>4, <1>5, <1>6 DEF TypeOK

\* Every register keeps its type; the fill count stays within the FIFO, and no
\* shift reads beyond the eight bytes of a beat.
THEOREM TypeCorrect == Spec => []TypeOK
<1>1. Init => TypeOK
  <2> SUFFICES ASSUME Init PROVE TypeOK
    OBVIOUS
  <2>1. /\ <<>> \in Seq(Beats) /\ <<>> \in Seq(Item) /\ Len(<<>>) = 0
        /\ 0 \in 0..FifoDepth
    BY DEF FifoDepth
  <2>2. in_ready_r \in BOOLEAN /\ queue_data_exist_r \in BOOLEAN
    BY Zenon DEF Init
  <2>3. /\ Direction \in {"to_ulong2", "to_l8"}
        /\ queue \in Seq(Beats) /\ usedw_1d_r \in 0..FifoDepth
        /\ stage0 \in Seq(Item) /\ Len(stage0) <= 1
        /\ sent \in Seq(Beats) /\ out \in Seq(Item)
    BY <2>1 DEF Init
  <2> QED BY <2>2, <2>3 DEF TypeOK
<1>2. TypeOK /\ QInv /\ QInv' /\ [Next]_vars => TypeOK'
  <2> SUFFICES ASSUME TypeOK, QInv, QInv', [Next]_vars PROVE TypeOK'
    OBVIOUS
  <2>1. CASE Next
    BY <2>1, ClockTypeOK DEF Next
  <2>2. CASE UNCHANGED vars
    BY <2>2 DEF vars, TypeOK
  <2> QED BY <2>1, <2>2
<1> QED BY <1>1, <1>2, QInvInvariant, PTL DEF Spec

-----------------------------------------------------------------------------
(* The refinement of the abstract FIFO: what has left, what is in the      *)
(* register and what is in the queue are together what was accepted.       *)

Plain == [pkt : Packets, n : Nat \ {0}]
PlainOf(o) == [pkt |-> o.pkt, n |-> o.n]
Shown(s) == [i \in 1..Len(s) |-> [pkt |-> s[i].pkt, n |-> s[i].n]]

InOrder == sent = Whole(Shown(out), Shown(stage0), queue)

\* Beats without their data.
LEMMA BeatsArePlain ==
    /\ \A b \in Beats : b \in Plain /\ PlainOf(b) = b
    /\ \A s \in Seq(Beats) : s \in Seq(Plain)
<1>1. ASSUME NEW b \in Beats PROVE b \in Plain /\ PlainOf(b) = b
  <2>1. PICK p \in Packets : b \in [pkt : {p}, n : 1..p.beats]
    BY DEF Beats
  <2>2. p.beats \in Nat
    BY PacketsAssumption
  <2> QED BY <2>1, <2>2 DEF Plain, PlainOf
<1> QED BY <1>1

\* What Shown does to sequences of items.
LEMMA ShownFacts ==
    /\ Shown(<<>>) = <<>>
    /\ \A s \in Seq(Item) : Shown(s) \in Seq(Plain)
    /\ \A e \in Item : Shown(<<e>>) = <<PlainOf(e)>> /\ PlainOf(e) \in Plain
    /\ \A s, t \in Seq(Item) : Shown(s \o t) = Shown(s) \o Shown(t)
<1>1. Shown(<<>>) = <<>>
  BY DEF Shown
<1>2. ASSUME NEW s \in Seq(Item) PROVE Shown(s) \in Seq(Plain) /\ Len(Shown(s)) = Len(s)
  <2>1. Len(s) \in Nat /\ \A i \in 1..Len(s) : s[i] \in Item
    OBVIOUS
  <2>2. \A e \in Item : [pkt |-> e.pkt, n |-> e.n] \in Plain
    BY DEF Item, Plain
  <2>3. Shown(s) \in [1..Len(s) -> Plain]
    BY <2>1, <2>2 DEF Shown
  <2>4. DOMAIN Shown(s) = 1..Len(s)
    BY DEF Shown
  <2> QED BY <2>1, <2>3, <2>4
<1>3. ASSUME NEW e \in Item PROVE Shown(<<e>>) = <<PlainOf(e)>> /\ PlainOf(e) \in Plain
  BY DEF Shown, PlainOf, Item, Plain
<1>4. ASSUME NEW s \in Seq(Item), NEW t \in Seq(Item) PROVE Shown(s \o t) = Shown(s) \o Shown(t)
  <2>1. /\ Len(s) \in Nat /\ Len(t) \in Nat /\ Len(s \o t) = Len(s) + Len(t) /\ s \o t \in Seq(Item)
        /\ \A i \in 1..Len(s) + Len(t) : (s \o t)[i] = IF i <= Len(s) THEN s[i] ELSE t[i - Len(s)]
    OBVIOUS
  <2> DEFINE u == Shown(s)
             v == Shown(t)
             w == Shown(s \o t)
  <2>2. /\ u \in Seq(Plain) /\ v \in Seq(Plain) /\ w \in Seq(Plain)
        /\ Len(u) = Len(s) /\ Len(v) = Len(t) /\ Len(w) = Len(s) + Len(t)
    BY <1>2, <2>1
  <2>3. \A i \in 1..Len(s) + Len(t) : w[i] = PlainOf((s \o t)[i])
    BY <2>1 DEF Shown, PlainOf
  <2>4. /\ \A i \in 1..Len(s) : u[i] = PlainOf(s[i])
        /\ \A i \in 1..Len(t) : v[i] = PlainOf(t[i])
    BY DEF Shown, PlainOf
  <2> HIDE DEF u, v, w
  <2>5. u \o v \in Seq(Plain) /\ Len(u \o v) = Len(w)
    <3>1. u \in Seq(Plain) /\ v \in Seq(Plain)
      BY <2>2
    <3>2. u \o v \in Seq(Plain)
      BY <3>1
    <3>3. Len(u \o v) = Len(u) + Len(v)
      BY <3>1
    <3> QED BY <2>2, <3>2, <3>3
  <2>6. ASSUME NEW i \in 1..Len(w) PROVE w[i] = (u \o v)[i]
    <3>1. CASE i <= Len(s)
      BY <2>1, <2>2, <2>3, <2>4, <3>1
    <3>2. CASE ~(i <= Len(s))
      <4>1. i - Len(s) \in 1..Len(t)
        BY <2>1, <2>2, <3>2
      <4>2. (u \o v)[i] = v[i - Len(s)]
        BY <2>1, <2>2, <3>2
      <4> QED BY <2>1, <2>2, <2>3, <2>4, <3>2, <4>1, <4>2
    <3> QED BY <3>1, <3>2
  <2>7. w = u \o v
    BY <2>2, <2>5, <2>6, SeqEqual
  <2> QED BY <2>7 DEF u, v, w
<1> QED BY <1>1, <1>2, <1>3, <1>4

\* A clock in terms of the queue's operators.
LEMMA ClockMoves ==
    ASSUME TypeOK, QInv, NEW offered \in Offers, NEW out_ready \in BOOLEAN,
           Clock(offered, out_ready)
    PROVE  \E w \in Seq(Beats) :
             /\ w = <<>> \/ \E b \in Incoming : w = <<b>>
             /\ queue' = Left(queue, Pop(out_ready)) \o w
             /\ sent' = sent \o w
             /\ Shown(stage0)' = Moved(Shown(stage0), queue, Pop(out_ready), out_ready)
             /\ Shown(out)' = Taken(Shown(out), Shown(stage0), out_ready)
             /\ stage0' = (IF Pop(out_ready) /\ queue # <<>>
                           THEN <<[pkt |-> queue[1].pkt, n |-> queue[1].n,
                                   data |-> Remainder(queue[1])]>>
                           ELSE IF out_ready THEN <<>> ELSE stage0)
             /\ out' = IF out_ready THEN out \o stage0 ELSE out
<1> DEFINE w == IF in_ready_r THEN offered ELSE <<>>
<1>1. w = <<>> \/ \E b \in Incoming : w = <<b>>
  BY DEF Offers
<1>2. w \in Seq(Beats)
  <2>1. \A b \in Incoming : b \in Beats
    BY NextBeatsAreBeats DEF Incoming, TypeOK
  <2>2. ASSUME w = <<>> PROVE w \in Seq(Beats)
    <3> HIDE DEF w
    <3> QED BY <2>2
  <2>3. ASSUME NEW b \in Incoming, w = <<b>> PROVE w \in Seq(Beats)
    <3>1. b \in Beats /\ <<b>> \in Seq(Beats)
      BY <2>1
    <3> QED BY <2>3, <3>1
  <2> QED BY <1>1, <2>2, <2>3
<1>3. /\ queue' = Left(queue, Pop(out_ready)) \o w /\ sent' = sent \o w
      /\ stage0' = (IF Pop(out_ready) /\ queue # <<>>
                    THEN <<[pkt |-> queue[1].pkt, n |-> queue[1].n,
                            data |-> Remainder(queue[1])]>>
                    ELSE IF out_ready THEN <<>> ELSE stage0)
      /\ out' = IF out_ready THEN out \o stage0 ELSE out
  BY DEF Clock, Left
<1>4. Shown(out)' = Taken(Shown(out), Shown(stage0), out_ready)
  BY <1>3, ShownFacts DEF Taken, TypeOK
<1>5. Shown(stage0)' = Moved(Shown(stage0), queue, Pop(out_ready), out_ready)
  <2>1. CASE Pop(out_ready) /\ queue # <<>>
    <3>1. queue[1] \in Beats
      BY <2>1 DEF TypeOK
    <3> DEFINE e == [pkt |-> queue[1].pkt, n |-> queue[1].n, data |-> Remainder(queue[1])]
    <3>2. e \in Item /\ PlainOf(e) = queue[1]
      BY <3>1, RemainderTyped, BeatsArePlain DEF PlainOf
    <3>3. stage0' = <<e>>
      BY <1>3, <2>1
    <3> HIDE DEF e
    <3> QED BY <2>1, <3>2, <3>3, ShownFacts DEF Moved
  <2>2. CASE ~(Pop(out_ready) /\ queue # <<>>)
    BY <1>3, <2>2, ShownFacts DEF Moved
  <2> QED BY <2>1, <2>2
<1> HIDE DEF w
<1> QED BY <1>1, <1>2, <1>3, <1>4, <1>5

\* A clock of the bridge is a step of the FIFO, or none of its business.
LEMMA ClockInOrder ==
    ASSUME TypeOK, QInv, InOrder, NEW offered \in Offers, NEW out_ready \in BOOLEAN,
           Clock(offered, out_ready)
    PROVE  InOrder' /\ [AbstractFifo!Next]_(AbstractFifo!vars)
<1> DEFINE o == Shown(out)
           s == Shown(stage0)
           pop == Pop(out_ready)
           o2 == Taken(o, s, out_ready)
           s2 == Moved(s, queue, pop, out_ready)
           q2 == Left(queue, pop)
<1>1. PICK w \in Seq(Beats) :
        /\ w = <<>> \/ \E b \in Incoming : w = <<b>>
        /\ queue' = q2 \o w
        /\ sent' = sent \o w
        /\ s' = s2
        /\ o' = o2
  BY ClockMoves
<1>2. /\ o \in Seq(Plain) /\ s \in Seq(Plain) /\ queue \in Seq(Plain) /\ w \in Seq(Plain)
      /\ sent \in Seq(Plain) /\ stage0 \in Seq(Item) /\ out \in Seq(Item)
      /\ sent = Whole(o, s, queue)
  BY ShownFacts, BeatsArePlain DEF TypeOK, InOrder
<1>3. pop \in BOOLEAN /\ (pop => s = <<>> \/ out_ready)
  <2>1. pop \in BOOLEAN
    BY DEF Pop, TypeOK
  <2> QED BY <2>1, ShownFacts DEF Pop
<1>4. o2 \in Seq(Plain) /\ s2 \in Seq(Plain) /\ q2 \in Seq(Plain) /\ Whole(o2, s2, q2) = sent
  <2> HIDE DEF o, s, pop
  <2>1. o \in Seq(Plain) /\ s \in Seq(Plain) /\ queue \in Seq(Plain)
    BY <1>2
  <2>2. /\ Taken(o, s, out_ready) \in Seq(Plain)
        /\ Moved(s, queue, pop, out_ready) \in Seq(Plain)
        /\ Left(queue, pop) \in Seq(Plain)
        /\ Whole(Taken(o, s, out_ready), Moved(s, queue, pop, out_ready), Left(queue, pop))
             = Whole(o, s, queue)
    BY <1>3, <2>1, Forwards
  <2> QED BY <1>2, <2>2
<1>5. InOrder'
  <2>1. Whole(o2, s2, Written(q2, w)) = Written(sent, w)
    <3> HIDE DEF o2, s2, q2
    <3>1. o2 \in Seq(Plain) /\ s2 \in Seq(Plain) /\ q2 \in Seq(Plain)
      BY <1>4
    <3>2. w \in Seq(Plain)
      BY <1>2
    <3>3. Whole(o2, s2, Written(q2, w)) = Written(Whole(o2, s2, q2), w)
      BY <3>1, <3>2, ForwardsWritten
    <3> QED BY <1>4, <3>3
  <2> QED BY <1>1, <2>1 DEF InOrder, Written
<1>6. AbstractFifo!Put \/ UNCHANGED sent
  <2>1. CASE w = <<>>
    BY <1>1, <1>2, <2>1
  <2>2. CASE w # <<>>
    <3>1. PICK b : w = <<b>>
      BY <1>1, <2>2
    <3>2. b \in Plain
      BY <1>2, <3>1
    <3>3. sent \o <<b>> = Append(sent, b)
      BY <1>2, <3>2
    <3>4. /\ sent \o <<b>> # <<>> /\ Len(sent \o <<b>>) = Len(sent) + 1
          /\ (sent \o <<b>>)[Len(sent) + 1] = b
      BY <1>2, <3>2, AppendOne
    <3> QED BY <1>1, <3>1, <3>3, <3>4 DEF AbstractFifo!Put, AbstractFifo!Last
  <2> QED BY <2>1, <2>2
<1>7. CASE out_ready /\ s # <<>>
  <2>1. PICK e \in Plain : s = <<e>>
    <3>1. Len(s) <= 1
      BY <1>2 DEF TypeOK, Shown
    <3> HIDE DEF s
    <3> QED BY <1>2, <1>7, <3>1, OneElement
  <2> HIDE DEF o, s
  <2>2. Len(o) < Len(sent) /\ sent[Len(o) + 1] = e
    <3>1. o \in Seq(Plain) /\ queue \in Seq(Plain) /\ Whole(o, <<e>>, queue) = sent
      BY <1>2, <2>1
    <3>2. Len(o) < Len(Whole(o, <<e>>, queue)) /\ Whole(o, <<e>>, queue)[Len(o) + 1] = e
      BY <3>1, TakenIsNext
    <3> QED BY <3>1, <3>2
  <2>3. o' = Append(o, e)
    BY <1>1, <1>2, <1>7, <2>1 DEF Taken
  <2>4. AbstractFifo!Get
    BY <2>2, <2>3 DEF AbstractFifo!Get, o, Shown
  <2> QED BY <1>5, <1>6, <2>4 DEF AbstractFifo!Next
<1>8. CASE ~(out_ready /\ s # <<>>)
  <2>1. o' = o
    BY <1>1, <1>2, <1>8 DEF Taken
  <2> QED BY <1>5, <1>6, <2>1 DEF AbstractFifo!Next, AbstractFifo!vars, Shown
<1> QED BY <1>7, <1>8

\* The bridges implement the abstract FIFO: beats leave in the order they were
\* accepted, each once, whatever the two delayed flags say in between.
THEOREM BridgeImplementsFifo == Spec => ImplementsFifo
<1>1. Init => InOrder /\ AbstractFifo!Init
  BY ShownFacts DEF Init, InOrder, Whole, AbstractFifo!Init
<1>2. TypeOK /\ QInv /\ InOrder /\ [Next]_vars => InOrder' /\ [AbstractFifo!Next]_(AbstractFifo!vars)
  <2> SUFFICES ASSUME TypeOK, QInv, InOrder, [Next]_vars
               PROVE  InOrder' /\ [AbstractFifo!Next]_(AbstractFifo!vars)
    OBVIOUS
  <2>1. CASE Next
    BY <2>1, ClockInOrder DEF Next
  <2>2. CASE UNCHANGED vars
    BY <2>2 DEF vars, InOrder, Shown, AbstractFifo!vars
  <2> QED BY <2>1, <2>2
<1> QED BY <1>1, <1>2, TypeCorrect, QInvInvariant, PTL DEF Spec, ImplementsFifo, AbstractFifo!Spec

-----------------------------------------------------------------------------
(* The bytes of the last beat.                                             *)

\* Frames towards the MAC whose last beat has at least four unused bytes or
\* none: the others are displaced by the code's shift.
ShiftComplete == \A p \in Packets : p.bridge = "to_l8" => p.empty \in {0} \cup 4..7

\* The bytes of a beat as the other side expects them.
Expected(b) ==
    CASE ~Eop(b) -> UpperEnd(0)
      [] Eop(b) /\ Direction = "to_ulong2" -> LowerEnd(b.pkt.empty)
      [] OTHER -> UpperEnd(b.pkt.empty)

\* The queue holds frames of this bridge's direction, and the register's beat
\* and those that have left are as expected.
Aligned ==
    /\ \A i \in 1..Len(queue) : queue[i].pkt.bridge = Direction
    /\ \A i \in 1..Len(stage0) : stage0[i].data = Expected(stage0[i])
    /\ TailAligned

\* The shifts put the bytes where they are expected.
LEMMA RemainderExpected ==
    ASSUME ShiftComplete, Direction \in {"to_ulong2", "to_l8"},
           NEW b \in Beats, b.pkt.bridge = Direction
    PROVE  Remainder(b) = Expected(b)
<1>1. b.pkt \in Packets /\ b.pkt.empty \in 0..7
  BY BeatFacts, TailAssumption
<1>2. CASE ~Eop(b)
  BY <1>2 DEF Remainder, Expected, DataOf
<1>3. CASE Eop(b) /\ Direction = "to_ulong2"
  <2>1. \A k \in 0..7 : ShiftDown(k, UpperEnd(k)) = LowerEnd(k)
    <3>1. \A k \in 0..7, j \in 1..8 : j > k => j - k \in 1..8 /\ j - k <= 8 - k
      OBVIOUS
    <3> QED BY <3>1 DEF ShiftDown, UpperEnd, LowerEnd
  <2> QED BY <1>1, <1>3, <2>1 DEF Remainder, Expected, DataOf
<1>4. CASE Eop(b) /\ Direction = "to_l8"
  <2>1. b.pkt.empty \in {0} \cup 4..7
    BY <1>1, <1>4 DEF ShiftComplete
  <2>2. \A k \in 4..7 : KeepLower(k, LowerEnd(k)) = UpperEnd(k)
    <3> SUFFICES ASSUME NEW k \in 4..7 PROVE KeepLower(k, LowerEnd(k)) = UpperEnd(k)
      OBVIOUS
    <3>1. \A j \in 1..8 : 8 - j \in k..2 * k - 1 <=> j <= 8 - k
      OBVIOUS
    <3>2. \A j \in 1..8 : j <= 8 - k => j + k \in 1..8 /\ j + k > k /\ (j + k) - k = j
      OBVIOUS
    <3> QED BY <3>1, <3>2 DEF KeepLower, LowerEnd, UpperEnd
  <2>3. KeepLower(0, LowerEnd(0)) = UpperEnd(0)
    BY DEF KeepLower, LowerEnd, UpperEnd
  <2>4. Remainder(b) = KeepLower(b.pkt.empty, LowerEnd(b.pkt.empty))
    BY <1>4 DEF Remainder, DataOf
  <2>5. Expected(b) = UpperEnd(b.pkt.empty)
    BY <1>4 DEF Expected
  <2> QED BY <2>1, <2>2, <2>3, <2>4, <2>5
<1> QED BY <1>2, <1>3, <1>4

\* A clock keeps the bytes in their places.
LEMMA ClockAligned ==
    ASSUME ShiftComplete, TypeOK, QInv, Aligned,
           NEW offered \in Offers, NEW out_ready \in BOOLEAN, Clock(offered, out_ready)
    PROVE  Aligned'
<1>1. PICK w \in Seq(Beats) :
        /\ w = <<>> \/ \E b \in Incoming : w = <<b>>
        /\ queue' = Left(queue, Pop(out_ready)) \o w
        /\ stage0' = (IF Pop(out_ready) /\ queue # <<>>
                      THEN <<[pkt |-> queue[1].pkt, n |-> queue[1].n,
                              data |-> Remainder(queue[1])]>>
                      ELSE IF out_ready THEN <<>> ELSE stage0)
        /\ out' = IF out_ready THEN out \o stage0 ELSE out
  BY ClockMoves
<1>2. /\ Direction \in {"to_ulong2", "to_l8"} /\ Direction' = Direction
      /\ queue \in Seq(Beats) /\ stage0 \in Seq(Item) /\ out \in Seq(Item)
  BY DEF TypeOK, Clock
<1>3. \A i \in 1..Len(w) : w[i].pkt.bridge = Direction
  BY <1>1 DEF Incoming
<1>4. /\ Left(queue, Pop(out_ready)) \in Seq(Beats)
      /\ \A i \in 1..Len(Left(queue, Pop(out_ready))) :
           Left(queue, Pop(out_ready))[i].pkt.bridge = Direction
  <2>1. CASE Pop(out_ready) /\ queue # <<>>
    <3>1. /\ Len(queue) \in Nat /\ Tail(queue) \in Seq(Beats) /\ Len(Tail(queue)) = Len(queue) - 1
          /\ \A i \in 1..Len(Tail(queue)) : Tail(queue)[i] = queue[i + 1]
      BY <1>2, <2>1
    <3>2. \A i \in 1..Len(Tail(queue)) : i + 1 \in 1..Len(queue)
      BY <3>1
    <3> QED BY <2>1, <3>1, <3>2 DEF Left, Aligned
  <2>2. CASE ~(Pop(out_ready) /\ queue # <<>>)
    BY <1>2, <2>2 DEF Left, Aligned
  <2> QED BY <2>1, <2>2
<1>5. \A i \in 1..Len(queue') : queue'[i].pkt.bridge = Direction'
  <2> DEFINE q == Left(queue, Pop(out_ready))
  <2>1. q \in Seq(Beats) /\ \A i \in 1..Len(q) : q[i].pkt.bridge = Direction
    BY <1>4
  <2>2. queue' = q \o w
    BY <1>1
  <2> HIDE DEF q
  <2> SUFFICES ASSUME NEW i \in 1..Len(q \o w) PROVE (q \o w)[i].pkt.bridge = Direction
    BY <1>2, <2>2
  <2>3. CASE i <= Len(q)
    BY <2>1, <2>3
  <2>4. CASE ~(i <= Len(q))
    <3>1. i > Len(q)
      BY <2>1, <2>4
    <3>2. i - Len(q) \in 1..Len(w) /\ (q \o w)[i] = w[i - Len(q)]
      BY <2>1, <3>1, ConcatBeyond
    <3> QED BY <1>3, <3>2
  <2> QED BY <2>3, <2>4
<1>6. \A o : Expected(o)' = Expected(o)
  BY <1>2 DEF Expected
<1>7. \A i \in 1..Len(stage0') : stage0'[i].data = Expected(stage0'[i])
  <2>1. CASE Pop(out_ready) /\ queue # <<>>
    <3>1. queue[1] \in Beats /\ queue[1].pkt.bridge = Direction
      BY <1>2, <2>1 DEF Aligned
    <3> DEFINE e == [pkt |-> queue[1].pkt, n |-> queue[1].n, data |-> Remainder(queue[1])]
    <3>2. Expected(e) = Expected(queue[1])
      BY DEF Expected, Eop
    <3>3. e.data = Expected(e)
      BY <1>2, <3>1, <3>2, RemainderExpected
    <3>4. stage0' = <<e>>
      BY <1>1, <2>1
    <3> HIDE DEF e
    <3> QED BY <3>3, <3>4
  <2>2. CASE ~(Pop(out_ready) /\ queue # <<>>)
    BY <1>1, <2>2 DEF Aligned
  <2> QED BY <2>1, <2>2
<1>8. \A i \in 1..Len(out') : out'[i].data = Expected(out'[i])
  <2>1. \A i \in 1..Len(out) : out[i].data = Expected(out[i])
    BY DEF Aligned, TailAligned, Expected
  <2>2. \A i \in 1..Len(stage0) : stage0[i].data = Expected(stage0[i])
    BY DEF Aligned
  <2>3. ASSUME NEW i \in 1..Len(out \o stage0) PROVE (out \o stage0)[i].data = Expected((out \o stage0)[i])
    <3>1. CASE i <= Len(out)
      <4>1. (out \o stage0)[i] = out[i] /\ i \in 1..Len(out)
        BY <1>2, <3>1
      <4> QED BY <2>1, <4>1
    <3>2. CASE ~(i <= Len(out))
      <4>1. i > Len(out)
        BY <1>2, <3>2
      <4>2. i - Len(out) \in 1..Len(stage0) /\ (out \o stage0)[i] = stage0[i - Len(out)]
        BY <1>2, <4>1, ConcatBeyond
      <4> QED BY <2>2, <4>2
    <3> QED BY <3>1, <3>2
  <2> QED BY <1>1, <2>1, <2>3
<1>9. TailAligned'
  BY <1>2, <1>8 DEF TailAligned, Expected
<1> QED BY <1>5, <1>6, <1>7, <1>9 DEF Aligned, Expected

\* The bytes of every frame arrive where the other side expects them: always
\* towards the HLS components, and towards the MAC if no frame's last beat has
\* one to three unused bytes.  Those are the replies that the code's shift
\* displaces.
THEOREM BytesAligned ==
    ASSUME ShiftComplete PROVE Spec => []TailAligned
<1>1. Init => Aligned
  BY DEF Init, Aligned, TailAligned
<1>2. TypeOK /\ QInv /\ Aligned /\ [Next]_vars => Aligned'
  <2> SUFFICES ASSUME TypeOK, QInv, Aligned, [Next]_vars PROVE Aligned'
    OBVIOUS
  <2>1. CASE Next
    BY <2>1, ClockAligned DEF Next
  <2>2. CASE UNCHANGED vars
    BY <2>2 DEF vars, Aligned, TailAligned, Expected
  <2> QED BY <2>1, <2>2
<1>3. Aligned => TailAligned
  BY DEF Aligned
<1> QED BY <1>1, <1>2, <1>3, TypeCorrect, QInvInvariant, PTL DEF Spec

-----------------------------------------------------------------------------
(* The facts about streams, for the beats of the buffer and of the merge.  *)
BufferStream == INSTANCE L8Stream_proofs WITH
    Packets <- BufferPackets, MaxSent <- MaxBufferSent

\* What the merge may offer are beats.
LEMMA BufferNextBeats ==
    ASSUME NEW s \in Seq(Buffer!Beats), NEW b \in Buffer!NextBeats(s)
    PROVE  b \in Buffer!Beats
<1>1. Buffer!Beats = BufferStream!Beats
  BY DEF Buffer!Beats, BufferStream!Beats
<1>2. Buffer!NextBeats(s) = BufferStream!NextBeats(s)
  BY DEF Buffer!NextBeats, BufferStream!NextBeats, Buffer!AtBoundary, BufferStream!AtBoundary,
         Buffer!Eop, BufferStream!Eop, Buffer!Last, BufferStream!Last
<1> QED BY <1>1, <1>2, BufferStream!NextBeatsAreBeats, BufferAssumption, DepthAssumption

-----------------------------------------------------------------------------
(* The buffer.                                                             *)

\* The last beats of frames.
Ends == {b \in Buffer!Beats : Buffer!Eop(b)}

\* The registers the invariant speaks of.
BufferTypeOK ==
    /\ b_fifo \in Seq(Buffer!Beats)
    /\ b_shown \in BOOLEAN /\ b_ready \in BOOLEAN /\ b_exist \in BOOLEAN
    /\ b_in_1d \in BOOLEAN /\ b_in_2d \in BOOLEAN
    /\ b_count \in Nat
    /\ b_stage0 \in Buffer!Slot
    /\ b_sent \in Seq(Buffer!Beats)

\* The ready flag is one clock old: when it is set, there is room for two more
\* words than the FIFO held then.
Room ==
    /\ Len(b_fifo) <= Depth - 2
    /\ b_ready => Len(b_fifo) <= Depth - 3
    /\ b_full = FALSE

\* The counter and its two delay registers.
Counted ==
    b_count + (IF b_in_1d THEN 1 ELSE 0) + (IF b_in_2d THEN 1 ELSE 0) = Count(b_fifo, Ends)

\* A word that is announced is there, and so is a whole frame.
Announced ==
    /\ b_shown => b_fifo # <<>>
    /\ b_exist => b_shown /\ b_count # 0

\* In the middle of a frame the next word is announced.
MiddleAnnounced == b_stage0 # <<>> /\ ~Buffer!Eop(b_stage0[1]) => b_exist

BufferInv == BufferTypeOK /\ Room /\ Counted /\ Announced /\ MiddleAnnounced

\* A register of the buffer is empty or holds one beat.
LEMMA BufferSlotFacts ==
    ASSUME NEW s \in Buffer!Slot
    PROVE  /\ s \in Seq(Buffer!Beats)
           /\ Len(s) \in Nat /\ Len(s) <= 1
           /\ s # <<>> => \E e \in Buffer!Beats : s = <<e>>
<1>1. s \in Seq(Buffer!Beats) /\ Len(s) \in Nat /\ Len(s) <= 1
  BY DEF Buffer!Slot
<1>2. \A n \in Nat : n <= 1 => n = 0 \/ n = 1
  OBVIOUS
<1>3. CASE Len(s) = 0
  BY <1>1, <1>3
<1>4. CASE Len(s) = 1
  <2>1. s[1] \in Buffer!Beats /\ s = <<s[1]>>
    BY <1>1, <1>4
  <2> QED BY <1>1, <2>1
<1> QED BY <1>1, <1>2, <1>3, <1>4

\* The ends of frames in a queue can be counted.
LEMMA EndsCounted ==
    ASSUME NEW s \in Seq(Buffer!Beats)
    PROVE  /\ Count(s, Ends) \in Nat /\ Count(s, Ends) \in Int
           /\ Count(s, Ends) <= Len(s)
           /\ Count(s, Ends) # 0 => \E i \in 1..Len(s) : s[i] \in Ends
BY PlacesFinite

\* What a clock leaves of a queue.
LEMMA QueueLeft ==
    ASSUME NEW q \in Seq(Buffer!Beats), NEW pop \in BOOLEAN
    PROVE  /\ Left(q, pop) \in Seq(Buffer!Beats)
           /\ Len(Left(q, pop)) = Len(q) - (IF pop /\ q # <<>> THEN 1 ELSE 0)
           /\ Count(Left(q, pop), Ends)
                = Count(q, Ends) - (IF pop /\ q # <<>> /\ Buffer!Eop(q[1]) THEN 1 ELSE 0)
<1>1. CASE pop /\ q # <<>>
  <2>1. Left(q, pop) = Tail(q)
    BY <1>1 DEF Left
  <2>2. Tail(q) \in Seq(Buffer!Beats) /\ Len(Tail(q)) = Len(q) - 1 /\ q[1] \in Buffer!Beats
    BY <1>1
  <2>3. q[1] \in Ends <=> Buffer!Eop(q[1])
    BY <2>2 DEF Ends
  <2>4. Count(q, Ends) \in Int /\ Count(Tail(q), Ends) \in Int
    BY <2>2, EndsCounted
  <2>5. Count(q, Ends) = IF q[1] \in Ends THEN Count(Tail(q), Ends) + 1 ELSE Count(Tail(q), Ends)
    BY <1>1, CountTail
  <2>6. Count(Tail(q), Ends) = Count(q, Ends) - (IF Buffer!Eop(q[1]) THEN 1 ELSE 0)
    BY <2>3, <2>4, <2>5
  <2> HIDE DEF Ends
  <2> QED BY <1>1, <2>1, <2>2, <2>6
<1>2. CASE ~(pop /\ q # <<>>)
  <2>1. Left(q, pop) = q
    BY <1>2 DEF Left
  <2>2. Count(q, Ends) \in Int /\ Len(q) \in Int
    BY EndsCounted
  <2> QED BY <1>2, <2>1, <2>2
<1> QED BY <1>1, <1>2

\* What it adds to one.
LEMMA QueueWritten ==
    ASSUME NEW q \in Seq(Buffer!Beats), NEW w \in Buffer!Slot
    PROVE  /\ q \o w \in Seq(Buffer!Beats)
           /\ Len(q \o w) = Len(q) + Len(w)
           /\ q # <<>> \/ w # <<>> => q \o w # <<>>
           /\ Count(q \o w, Ends)
                = Count(q, Ends) + (IF w # <<>> /\ Buffer!Eop(w[1]) THEN 1 ELSE 0)
<1>1. CASE w = <<>>
  <2>1. q \o w = q /\ Len(w) = 0 /\ Len(q) \in Nat
    BY <1>1
  <2>2. Count(q, Ends) \in Int
    BY EndsCounted
  <2> QED BY <1>1, <2>1, <2>2
<1>2. CASE w # <<>>
  <2>1. PICK e \in Buffer!Beats : w = <<e>>
    BY <1>2, BufferSlotFacts
  <2>2. w[1] = e /\ Len(w) = 1
    BY <2>1
  <2>3. q \o <<e>> \in Seq(Buffer!Beats) /\ Len(q \o <<e>>) = Len(q) + 1 /\ q \o <<e>> # <<>>
    BY AppendOne
  <2>4. Count(q \o <<e>>, Ends) = IF e \in Ends THEN Count(q, Ends) + 1 ELSE Count(q, Ends)
    <3> HIDE DEF Ends
    <3> QED BY CountAppend
  <2>5. e \in Ends <=> Buffer!Eop(e)
    BY DEF Ends
  <2>6. Count(q, Ends) \in Int
    BY EndsCounted
  <2> QED BY <1>2, <2>1, <2>2, <2>3, <2>4, <2>5, <2>6
<1> QED BY <1>1, <1>2

\* In a FIFO that holds the end of a frame but has another beat at its head,
\* there are two words.
LEMMA EndBehindHead ==
    ASSUME NEW q \in Seq(Buffer!Beats), q # <<>>, ~Buffer!Eop(q[1]), Count(q, Ends) # 0
    PROVE  ~(Len(q) < 2)
<1>1. PICK i \in 1..Len(q) : q[i] \in Ends
  BY EndsCounted
<1>2. i # 1
  BY <1>1 DEF Ends
<1> QED BY <1>1, <1>2

\* The wires of a clock.
LEMMA BufferWires ==
    ASSUME BufferInv, NEW offered \in Buffer!Offers, NEW ready \in BOOLEAN
    PROVE  /\ offered \in Buffer!Slot
           /\ (IF b_ready /\ Len(b_fifo) < Depth THEN offered ELSE <<>>) \in Buffer!Slot
           /\ Buffer!Pop(ready) \in BOOLEAN
           /\ Len(b_fifo) \in Nat /\ Len(b_fifo) < Depth
           /\ Buffer!queue_usedw = Len(b_fifo)
           /\ Buffer!pkt_in(offered) \in BOOLEAN /\ Buffer!pkt_out(ready) \in BOOLEAN
<1>1. offered \in Buffer!Slot /\ <<>> \in Buffer!Slot
  <2>1. <<>> \in Buffer!Slot
    BY DEF Buffer!Slot
  <2>2. CASE offered # <<>>
    <3>1. PICK b \in Buffer!NextBeats(b_sent) : offered = <<b>>
      BY <2>2 DEF Buffer!Offers
    <3>2. b \in Buffer!Beats
      BY BufferNextBeats DEF BufferInv, BufferTypeOK
    <3> QED BY <2>1, <3>1, <3>2 DEF Buffer!Slot
  <2> QED BY <2>1, <2>2
<1>2. Len(b_fifo) \in Nat /\ Len(b_fifo) < Depth
  <2>1. Len(b_fifo) \in Nat /\ Len(b_fifo) <= Depth - 2 /\ Depth \in Nat
    BY BufferAssumption DEF BufferInv, BufferTypeOK, Room
  <2> QED BY <2>1
<1>3. Buffer!queue_usedw = Len(b_fifo)
  <2>1. Len(b_fifo) % Depth = Len(b_fifo) /\ Depth \in Nat
    BY <1>2, BufferAssumption
  <2>2. b_full = FALSE
    BY DEF BufferInv, Room
  <2> QED BY <1>2, <2>1, <2>2 DEF Buffer!queue_usedw
<1>4. Buffer!Pop(ready) \in BOOLEAN /\ Buffer!pkt_in(offered) \in BOOLEAN /\ Buffer!pkt_out(ready) \in BOOLEAN
  BY DEF Buffer!Pop, Buffer!pkt_in, Buffer!pkt_out
<1> QED BY <1>1, <1>2, <1>3, <1>4

\* A clock in terms of the wires.
LEMMA BufferClock ==
    ASSUME BufferInv, NEW offered \in Buffer!Offers, NEW ready \in BOOLEAN,
           Buffer!Clock(offered, ready)
    PROVE  LET pop == Buffer!Pop(ready)
               written == IF b_ready THEN offered ELSE <<>>
           IN  /\ written \in Buffer!Slot
               /\ b_fifo' = Left(b_fifo, pop) \o written
               /\ b_shown' \in IF Left(b_fifo, pop) # <<>> THEN {TRUE}
                               ELSE IF written = <<>> THEN {FALSE} ELSE BOOLEAN
               /\ b_full' = FALSE
               /\ b_ready' => Len(b_fifo) < Depth - 3
               /\ Buffer!pkt_in(offered) <=> written # <<>> /\ Buffer!Eop(written[1])
               /\ Buffer!pkt_out(ready) <=> pop /\ b_fifo # <<>> /\ Buffer!Eop(b_fifo[1])
<1> DEFINE pop == Buffer!Pop(ready)
           written == IF b_ready THEN offered ELSE <<>>
<1>1. /\ written \in Buffer!Slot
      /\ written = IF b_ready /\ Len(b_fifo) < Depth THEN offered ELSE <<>>
  BY BufferWires DEF BufferInv, BufferTypeOK
<1>2. /\ b_fifo' = Left(b_fifo, pop) \o written
      /\ b_shown' \in IF Left(b_fifo, pop) # <<>> THEN {TRUE}
                      ELSE IF written = <<>> THEN {FALSE} ELSE BOOLEAN
      /\ b_full' = (Len(b_fifo) = Depth)
  <2>1. Buffer!ClockFifo(offered, Buffer!Pop(ready))
    BY DEF Buffer!Clock
  <2> QED BY <1>1, <2>1, Zenon DEF Buffer!ClockFifo, Left
<1>3. b_full' = FALSE
  <2>1. Len(b_fifo) # Depth
    BY BufferWires, BufferAssumption
  <2> QED BY <1>2, <2>1, Zenon
<1>4. b_ready' => Len(b_fifo) < Depth - 3
  BY BufferWires DEF Buffer!Clock, Buffer!Threshold
<1>5. Buffer!pkt_in(offered) <=> written # <<>> /\ Buffer!Eop(written[1])
  BY DEF Buffer!pkt_in
<1>6. Buffer!pkt_out(ready) <=> pop /\ b_fifo # <<>> /\ Buffer!Eop(b_fifo[1])
  BY DEF Buffer!pkt_out
<1> HIDE DEF pop, written
<1> QED BY <1>1, <1>2, <1>3, <1>4, <1>5, <1>6 DEF pop, written

\* A clock preserves the invariant, and a frame on the output goes on.
LEMMA BufferStep ==
    ASSUME BufferInv, NEW offered \in Buffer!Offers, NEW ready \in BOOLEAN,
           Buffer!Clock(offered, ready)
    PROVE  BufferInv' /\ (b_stage0 # <<>> /\ ~Buffer!Eop(b_stage0[1]) => b_stage0' # <<>>)
<1> DEFINE pop == Buffer!Pop(ready)
           written == IF b_ready THEN offered ELSE <<>>
           left == Left(b_fifo, pop)
           in == Buffer!pkt_in(offered)
           end == Buffer!pkt_out(ready)
<1>1. /\ b_fifo \in Seq(Buffer!Beats) /\ Len(b_fifo) \in Nat /\ Depth \in Nat
      /\ b_ready \in BOOLEAN /\ b_in_1d \in BOOLEAN /\ b_in_2d \in BOOLEAN
      /\ b_count \in Nat /\ b_stage0 \in Buffer!Slot /\ b_sent \in Seq(Buffer!Beats)
      /\ Len(b_fifo) <= Depth - 2 /\ (b_ready => Len(b_fifo) <= Depth - 3)
      /\ b_count + (IF b_in_1d THEN 1 ELSE 0) + (IF b_in_2d THEN 1 ELSE 0) = Count(b_fifo, Ends)
      /\ (b_shown => b_fifo # <<>>) /\ (b_exist => b_shown /\ b_count # 0)
  BY BufferAssumption DEF BufferInv, BufferTypeOK, Room, Counted, Announced
<1>2. /\ pop \in BOOLEAN /\ in \in BOOLEAN /\ end \in BOOLEAN /\ offered \in Buffer!Slot
  BY BufferWires
<1>3. /\ written \in Buffer!Slot
      /\ b_fifo' = left \o written
      /\ b_shown' \in IF left # <<>> THEN {TRUE} ELSE IF written = <<>> THEN {FALSE} ELSE BOOLEAN
      /\ b_full' = FALSE
      /\ b_ready' => Len(b_fifo) < Depth - 3
      /\ in <=> written # <<>> /\ Buffer!Eop(written[1])
      /\ end <=> pop /\ b_fifo # <<>> /\ Buffer!Eop(b_fifo[1])
  BY BufferClock
<1>4. pop => b_exist /\ b_fifo # <<>>
  BY <1>1 DEF Buffer!Pop
<1>5. /\ left \in Seq(Buffer!Beats)
      /\ Len(left) = Len(b_fifo) - (IF pop THEN 1 ELSE 0)
      /\ Count(left, Ends) = Count(b_fifo, Ends) - (IF end THEN 1 ELSE 0)
  <2> HIDE DEF pop, end
  <2> QED BY <1>1, <1>2, <1>3, <1>4, QueueLeft
<1>6. ~b_ready => written = <<>>
  OBVIOUS
<1>7. /\ b_in_1d' = in /\ b_in_2d' = b_in_1d
      /\ b_count' = b_count + (IF b_in_2d THEN 1 ELSE 0) - (IF end THEN 1 ELSE 0)
  BY <1>1, <1>2 DEF Buffer!Clock, Buffer!next_queue_pkt_count
<1>8. b_exist' <=> b_shown /\ (~(Len(b_fifo) < 2) \/ ~pop) /\ b_count' # 0
  BY DEF Buffer!Clock, Buffer!next_queue_data_exist, Buffer!queue_aempty
<1>9. b_stage0' = IF pop THEN Buffer!FirstOf(b_fifo) ELSE IF ready THEN <<>> ELSE b_stage0
  BY DEF Buffer!Clock
<1>10. /\ b_sent' \in Seq(Buffer!Beats)
       /\ b_ready' \in BOOLEAN /\ b_shown' \in BOOLEAN /\ b_exist' \in BOOLEAN
  <2>1. b_sent' \in Seq(Buffer!Beats)
    BY <1>1, <1>2, BufferSlotFacts DEF Buffer!Clock
  <2>2. b_ready' \in BOOLEAN /\ b_exist' \in BOOLEAN
    BY Zenon DEF Buffer!Clock, Buffer!next_queue_data_exist
  <2>3. b_shown' \in BOOLEAN
    BY <1>3
  <2> QED BY <2>1, <2>2, <2>3
<1> HIDE DEF pop, written, left, in, end
<1>11. /\ b_fifo' \in Seq(Buffer!Beats)
       /\ Len(b_fifo') = Len(left) + Len(written)
       /\ left # <<>> \/ written # <<>> => b_fifo' # <<>>
       /\ Count(b_fifo', Ends) = Count(left, Ends) + (IF in THEN 1 ELSE 0)
  BY <1>3, <1>5, QueueWritten
<1>12. /\ Len(written) \in Nat /\ Len(written) <= 1
       /\ ~b_ready => Len(written) = 0
  BY <1>3, <1>6, BufferSlotFacts
<1>13. Room'
  <2>1. Len(left) \in Nat /\ Len(left) <= Len(b_fifo)
    BY <1>1, <1>5
  <2>2. Len(b_fifo') <= Depth - 2 /\ (b_ready' => Len(b_fifo') <= Depth - 3)
    BY <1>1, <1>3, <1>11, <1>12, <2>1
  <2> QED BY <1>3, <2>2 DEF Room
<1>14. b_count' \in Nat
  BY <1>1, <1>2, <1>3, <1>4, <1>7
<1>15. Counted'
  <2>1. Count(b_fifo, Ends) \in Int /\ Count(left, Ends) \in Int /\ Count(b_fifo', Ends) \in Int
    BY <1>1, <1>5, <1>11, EndsCounted
  <2>2. Count(b_fifo', Ends) = Count(b_fifo, Ends) - (IF end THEN 1 ELSE 0) + (IF in THEN 1 ELSE 0)
    BY <1>5, <1>11, <2>1
  <2>3. /\ b_in_1d' = in /\ b_in_2d' = b_in_1d
        /\ b_count' = b_count + (IF b_in_2d THEN 1 ELSE 0) - (IF end THEN 1 ELSE 0)
        /\ b_count \in Int
    BY <1>1, <1>7
  <2>4. b_count + (IF b_in_1d THEN 1 ELSE 0) + (IF b_in_2d THEN 1 ELSE 0) = Count(b_fifo, Ends)
    BY <1>1
  <2>5. b_count' + (IF b_in_1d' THEN 1 ELSE 0) + (IF b_in_2d' THEN 1 ELSE 0)
          = Count(b_fifo, Ends) - (IF end THEN 1 ELSE 0) + (IF in THEN 1 ELSE 0)
    BY <1>1, <2>1, <2>3, <2>4
  <2> QED BY <2>2, <2>5 DEF Counted
<1>16. Announced'
  <2>1. b_shown' => left # <<>> \/ written # <<>>
    BY <1>3
  <2>2. ASSUME b_exist' PROVE b_shown'
    <3>1. Len(left) # 0
      BY <1>1, <1>5, <1>8, <2>2
    <3>2. left # <<>>
      BY <3>1
    <3> QED BY <1>3, <3>2
  <2> QED BY <1>8, <1>11, <2>1, <2>2 DEF Announced
<1>17. b_stage0' \in Buffer!Slot
  <2>1. <<>> \in Buffer!Slot /\ \A e \in Buffer!Beats : <<e>> \in Buffer!Slot
    BY DEF Buffer!Slot
  <2>2. pop => b_fifo[1] \in Buffer!Beats
    BY <1>1, <1>4
  <2> QED BY <1>1, <1>9, <2>1, <2>2 DEF Buffer!FirstOf
<1>18. MiddleAnnounced'
  <2> SUFFICES ASSUME b_stage0' # <<>>, ~Buffer!Eop(b_stage0'[1]) PROVE b_exist'
    BY DEF MiddleAnnounced, Buffer!Eop
  <2>1. CASE pop
    <3>1. b_stage0' = <<b_fifo[1]>> /\ b_fifo # <<>> /\ ~Buffer!Eop(b_fifo[1])
      BY <1>4, <1>9, <2>1 DEF Buffer!FirstOf
    <3>2. ~end
      BY <1>3, <3>1
    <3>3. b_count # 0 /\ b_shown
      BY <1>1, <1>4, <2>1
    <3>4. b_count' # 0
      BY <1>1, <1>7, <3>2, <3>3
    <3>5. Count(b_fifo, Ends) # 0
      BY <1>1, <3>3
    <3>6. ~(Len(b_fifo) < 2)
      BY <1>1, <3>1, <3>5, EndBehindHead
    <3> QED BY <1>8, <3>3, <3>4, <3>6
  <2>2. CASE ~pop
    <3>1. b_stage0' = b_stage0
      BY <1>9, <2>2
    <3>2. b_exist
      BY <3>1 DEF BufferInv, MiddleAnnounced
    <3>3. ~end
      BY <1>3, <2>2
    <3>4. b_count' # 0
      BY <1>1, <1>7, <3>2, <3>3
    <3> QED BY <1>1, <1>8, <2>2, <3>2, <3>4
  <2> QED BY <2>1, <2>2
<1>19. ASSUME b_stage0 # <<>>, ~Buffer!Eop(b_stage0[1]) PROVE b_stage0' # <<>>
  <2>1. b_exist
    BY <1>19 DEF BufferInv, MiddleAnnounced
  <2>2. pop \/ ~ready
    BY <2>1 DEF pop, Buffer!Pop, Buffer!Acceptable
  <2>3. CASE pop
    BY <1>4, <1>9, <2>3 DEF Buffer!FirstOf
  <2> QED BY <1>9, <1>19, <2>2, <2>3
<1>20. BufferTypeOK'
  BY <1>2, <1>1, <1>7, <1>10, <1>11, <1>14, <1>17 DEF BufferTypeOK
<1> QED BY <1>13, <1>15, <1>16, <1>18, <1>19, <1>20 DEF BufferInv

\* The invariant holds in every reachable state of the buffer.
LEMMA BufferInvInvariant == Buffer!Spec => []BufferInv
<1>1. Buffer!Init => BufferInv
  <2> SUFFICES ASSUME Buffer!Init PROVE BufferInv
    OBVIOUS
  <2>1. /\ b_fifo = <<>> /\ b_shown = FALSE /\ b_full = FALSE /\ b_ready = FALSE
        /\ b_in_1d = FALSE /\ b_in_2d = FALSE /\ b_count = 0 /\ b_exist = FALSE
        /\ b_stage0 = <<>> /\ b_sent = <<>>
    BY DEF Buffer!Init
  <2>2. <<>> \in Buffer!Slot /\ <<>> \in Seq(Buffer!Beats)
    BY DEF Buffer!Slot
  <2>3. BufferTypeOK
    BY <2>1, <2>2 DEF BufferTypeOK
  <2>4. Room
    BY <2>1, BufferAssumption DEF Room
  <2>5. Count(b_fifo, Ends) = 0
    <3>1. b_fifo \in Seq(Buffer!Beats) /\ Len(b_fifo) = 0
      BY <2>1, <2>2
    <3>2. Count(b_fifo, Ends) \in Nat /\ Count(b_fifo, Ends) <= Len(b_fifo)
      BY <3>1, EndsCounted
    <3> QED BY <3>1, <3>2
  <2>6. Counted
    BY <2>1, <2>5 DEF Counted
  <2>7. Announced /\ MiddleAnnounced
    BY <2>1 DEF Announced, MiddleAnnounced
  <2> QED BY <2>3, <2>4, <2>6, <2>7 DEF BufferInv
<1>2. BufferInv /\ [Buffer!Next]_(Buffer!vars) => BufferInv'
  <2> SUFFICES ASSUME BufferInv, [Buffer!Next]_(Buffer!vars) PROVE BufferInv'
    OBVIOUS
  <2>1. CASE Buffer!Next
    BY <2>1, BufferStep DEF Buffer!Next
  <2>2. CASE UNCHANGED Buffer!vars
    BY <2>2 DEF Buffer!vars, Buffer!fifoVars, BufferInv, BufferTypeOK, Room, Counted, Announced,
                MiddleAnnounced
  <2> QED BY <2>1, <2>2
<1> QED BY <1>1, <1>2, PTL DEF Buffer!Spec

\* The FIFO of the buffer is never full, so that the word count's glitch at
\* that point is never seen and no beat of an accepted frame is dropped.
THEOREM BufferNeverFull == Buffer!Spec => []NeverFull
<1>1. BufferInv => NeverFull
  BY BufferAssumption DEF BufferInv, BufferTypeOK, Room, NeverFull, Buffer!NeverFull
<1> QED BY <1>1, BufferInvInvariant, PTL

\* The counter that lets frames out is exact in every clock.
THEOREM BufferCountExact == Buffer!Spec => []CountExact
<1>1. BufferInv => CountExact
  <2> SUFFICES ASSUME BufferInv PROVE CountExact
    OBVIOUS
  <2>1. b_fifo \in Seq(Buffer!Beats)
    BY DEF BufferInv, BufferTypeOK
  <2>2. Places(b_fifo, Ends) = {i \in 1..Len(b_fifo) : Buffer!Eop(b_fifo[i])}
    BY <2>1 DEF Places, Ends
  <2>3. \A S : Buffer!Cardinality(S) = Cardinality(S)
    BY DEF Buffer!Cardinality, Cardinality
  <2>4. Count(b_fifo, Ends) = Buffer!Cardinality({i \in 1..Len(b_fifo) : Buffer!Eop(b_fifo[i])})
    BY <2>2, <2>3 DEF Count
  <2> QED BY <2>4 DEF BufferInv, Counted, CountExact, Buffer!CountExact
<1> QED BY <1>1, BufferInvInvariant, PTL

\* Once a frame has begun to leave, no clock takes its next beat away from the
\* MAC.
THEOREM BufferNoUnderrun == Buffer!Spec => NoUnderrun
<1> DEFINE Goes == (b_stage0 # <<>> /\ ~Buffer!Eop(b_stage0[1])) => b_stage0' # <<>>
<1>1. BufferInv /\ [Buffer!Next]_(Buffer!vars) => [Goes]_(Buffer!vars)
  <2> SUFFICES ASSUME BufferInv, Buffer!Next PROVE Goes
    OBVIOUS
  <2> QED BY BufferStep DEF Buffer!Next
<1>2. NoUnderrun <=> [][Goes]_(Buffer!vars)
  BY DEF NoUnderrun, Buffer!NoUnderrun
<1> QED BY <1>1, <1>2, BufferInvInvariant, PTL DEF Buffer!Spec, NoUnderrun, Buffer!NoUnderrun

\* A clock of the buffer is a step of the FIFO, or none of its business.
LEMMA BufferInOrder ==
    ASSUME BufferInv, b_out \in Seq(Buffer!Beats), b_sent = Whole(b_out, b_stage0, b_fifo),
           NEW offered \in Buffer!Offers, NEW ready \in BOOLEAN, Buffer!Clock(offered, ready)
    PROVE  /\ b_out' \in Seq(Buffer!Beats) /\ b_sent' = Whole(b_out', b_stage0', b_fifo')
           /\ [Buffer!AbstractFifo!Next]_(Buffer!AbstractFifo!vars)
<1> DEFINE pop == Buffer!Pop(ready)
           w == IF b_ready THEN offered ELSE <<>>
           o2 == Taken(b_out, b_stage0, ready)
           s2 == Moved(b_stage0, b_fifo, pop, ready)
           q2 == Left(b_fifo, pop)
<1>1. /\ b_fifo \in Seq(Buffer!Beats) /\ b_stage0 \in Seq(Buffer!Beats)
      /\ b_sent \in Seq(Buffer!Beats) /\ Len(b_stage0) <= 1
  BY BufferSlotFacts DEF BufferInv, BufferTypeOK
<1>2. /\ w \in Seq(Buffer!Beats) /\ Len(w) <= 1
      /\ b_fifo' = Written(q2, w)
  BY BufferClock, BufferSlotFacts DEF Written
<1>3. pop => b_fifo # <<>> /\ (b_stage0 = <<>> \/ ready)
  BY DEF BufferInv, Announced, Buffer!Pop, Buffer!Acceptable
<1>4. b_stage0' = s2 /\ b_out' = o2
  <2>1. /\ b_stage0' = IF pop THEN Buffer!FirstOf(b_fifo) ELSE IF ready THEN <<>> ELSE b_stage0
        /\ b_out' = IF ready THEN b_out \o b_stage0 ELSE b_out
    BY DEF Buffer!Clock
  <2> HIDE DEF pop
  <2> QED BY <1>3, <2>1 DEF Moved, Taken, Buffer!FirstOf
<1>5. b_sent' = Written(b_sent, w)
  <2>1. b_sent' = IF b_ready THEN b_sent \o offered ELSE b_sent
    BY DEF Buffer!Clock
  <2>2. b_sent \o <<>> = b_sent
    BY <1>1
  <2> QED BY <2>1, <2>2 DEF Written
<1> HIDE DEF pop, w
<1>6. /\ o2 \in Seq(Buffer!Beats) /\ s2 \in Seq(Buffer!Beats) /\ q2 \in Seq(Buffer!Beats)
      /\ Whole(o2, s2, q2) = b_sent
  <2>1. pop => b_stage0 = <<>> \/ ready
    BY <1>3
  <2>2. /\ Taken(b_out, b_stage0, ready) \in Seq(Buffer!Beats)
        /\ Moved(b_stage0, b_fifo, pop, ready) \in Seq(Buffer!Beats)
        /\ Left(b_fifo, pop) \in Seq(Buffer!Beats)
        /\ Whole(Taken(b_out, b_stage0, ready), Moved(b_stage0, b_fifo, pop, ready),
                 Left(b_fifo, pop)) = Whole(b_out, b_stage0, b_fifo)
    BY <1>1, <2>1, Forwards
  <2> QED BY <2>2
<1> HIDE DEF o2, s2, q2
<1>7. b_sent' = Whole(b_out', b_stage0', b_fifo')
  <2>1. Whole(o2, s2, Written(q2, w)) = Written(Whole(o2, s2, q2), w)
    <3>1. o2 \in Seq(Buffer!Beats) /\ s2 \in Seq(Buffer!Beats) /\ q2 \in Seq(Buffer!Beats)
      BY <1>6
    <3>2. w \in Seq(Buffer!Beats)
      BY <1>2
    <3> QED BY <3>1, <3>2, ForwardsWritten
  <2> QED BY <1>2, <1>4, <1>5, <1>6, <2>1
<1>8. Buffer!AbstractFifo!Put \/ UNCHANGED b_sent
  <2>1. CASE w = <<>>
    BY <1>1, <1>5, <2>1 DEF Written
  <2>2. CASE w # <<>>
    <3>1. PICK b \in Buffer!Beats : w = <<b>>
      BY <1>2, <2>2, OneElement
    <3>2. b_sent \o <<b>> = Append(b_sent, b)
      BY <1>1, <3>1
    <3>3. /\ b_sent \o <<b>> # <<>> /\ Len(b_sent \o <<b>>) = Len(b_sent) + 1
          /\ (b_sent \o <<b>>)[Len(b_sent) + 1] = b
      BY <1>1, AppendOne
    <3> QED BY <1>5, <3>1, <3>2, <3>3
          DEF Written, Buffer!AbstractFifo!Put, Buffer!AbstractFifo!Last
  <2> QED BY <2>1, <2>2
<1>9. [Buffer!AbstractFifo!Next]_(Buffer!AbstractFifo!vars)
  <2>1. CASE ready /\ b_stage0 # <<>>
    <3>1. PICK e \in Buffer!Beats : b_stage0 = <<e>>
      BY <1>1, <2>1, OneElement
    <3>2. Len(b_out) < Len(b_sent) /\ b_sent[Len(b_out) + 1] = e
      BY <1>1, <3>1, TakenIsNext, SMTT(30)
    <3>3. b_out' = Append(b_out, e)
      BY <1>4, <2>1, <3>1 DEF o2, Taken
    <3>4. Buffer!AbstractFifo!Get
      BY <3>2, <3>3 DEF Buffer!AbstractFifo!Get
    <3> QED BY <1>8, <3>4 DEF Buffer!AbstractFifo!Next
  <2>2. CASE ~(ready /\ b_stage0 # <<>>)
    <3>1. b_out' = b_out
      BY <1>4, <2>2 DEF o2, Taken
    <3> QED BY <1>8, <3>1 DEF Buffer!AbstractFifo!Next, Buffer!AbstractFifo!vars
  <2> QED BY <2>1, <2>2
<1> QED BY <1>4, <1>6, <1>7, <1>9

\* The buffer implements the abstract FIFO: what the MAC takes are the beats
\* that were accepted, in order, each once.
LEMMA BufferImplementsFifo == Buffer!Spec => Buffer!ImplementsFifo
<1> DEFINE Order == b_out \in Seq(Buffer!Beats) /\ b_sent = Whole(b_out, b_stage0, b_fifo)
<1>1. Buffer!Init => Order /\ Buffer!AbstractFifo!Init
  BY DEF Buffer!Init, Whole, Buffer!AbstractFifo!Init
<1>2. BufferInv /\ Order /\ [Buffer!Next]_(Buffer!vars)
        => Order' /\ [Buffer!AbstractFifo!Next]_(Buffer!AbstractFifo!vars)
  <2> SUFFICES ASSUME BufferInv, Order, [Buffer!Next]_(Buffer!vars)
               PROVE  Order' /\ [Buffer!AbstractFifo!Next]_(Buffer!AbstractFifo!vars)
    OBVIOUS
  <2>1. CASE Buffer!Next
    BY <2>1, BufferInOrder DEF Buffer!Next
  <2>2. CASE UNCHANGED Buffer!vars
    BY <2>2 DEF Buffer!vars, Buffer!fifoVars, Buffer!AbstractFifo!vars
  <2> QED BY <2>1, <2>2
<1> QED BY <1>1, <1>2, BufferInvInvariant, PTL
      DEF Buffer!Spec, Buffer!ImplementsFifo, Buffer!AbstractFifo!Spec

-----------------------------------------------------------------------------
(* The merge.                                                              *)

MergeStream == INSTANCE L8Stream_proofs WITH
    Packets <- MergePackets, BufDepth <- MergeDepth, MaxSent <- MaxMergeSent

Lanes == Merge!Lanes
\* What has passed the merge's choice, what is still before it, and how much of
\* a lane has passed.
Passed == m_out \o m_stage1
Inside(l) == m_stage0[l] \o m_in[l]
Gone(l) == Merge!OfLane(Passed, l, Len(Passed))

\* The registers of the merge.
MergeTypeOK ==
    /\ m_in \in [Lanes -> Seq(Merge!Beats)]
    /\ m_stage0 \in [Lanes -> Merge!Slot]
    /\ m_stage1 \in Merge!Slot
    /\ port_select \in Lanes \cup {Merge!IDLE}
    /\ m_sent \in [Lanes -> Seq(Merge!Beats)]
    /\ m_out \in Seq(Merge!Beats)

\* Each lane brings whole frames, and only its own.
LanesFramed ==
    \A l \in Lanes :
        /\ Merge!Framed(m_sent[l])
        /\ \A i \in 1..Len(m_sent[l]) : m_sent[l][i].pkt.lane = l

\* The beats inside are those written after the ones that have passed.
InsideRest ==
    \A l \in Lanes :
        /\ Len(m_sent[l]) = Gone(l) + Len(Inside(l))
        /\ \A i \in 1..Len(Inside(l)) : Inside(l)[i] = m_sent[l][Gone(l) + i]

\* Each beat that has passed is the next one of its lane.
PassedOfLane ==
    \A i \in 1..Len(Passed) : \E l \in Lanes :
        /\ Passed[i].pkt.lane = l
        /\ Merge!OfLane(Passed, l, i) <= Len(m_sent[l])
        /\ Passed[i] = m_sent[l][Merge!OfLane(Passed, l, i)]

\* A lane is in the middle of a frame exactly while it is selected.
SelectedMiddle ==
    /\ Merge!Framed(Passed)
    /\ port_select = Merge!IDLE => Merge!AtBoundary(Passed)
    /\ \A l \in Lanes :
         IF port_select = l
         THEN /\ Passed # <<>> /\ ~Merge!Eop(Merge!Last(Passed))
              /\ Gone(l) # 0 /\ m_sent[l][Gone(l)] = Merge!Last(Passed)
         ELSE Gone(l) # 0 => Merge!Eop(m_sent[l][Gone(l)])

MergeInv == MergeTypeOK /\ LanesFramed /\ InsideRest /\ PassedOfLane /\ SelectedMiddle

\* The instances of the stream's operators are the same.
LEMMA MergeStreams ==
    /\ Merge!Beats = MergeStream!Beats
    /\ \A s : Merge!Framed(s) <=> MergeStream!Framed(s)
    /\ \A s : Merge!NextBeats(s) = MergeStream!NextBeats(s)
    /\ \A s : Merge!Last(s) = MergeStream!Last(s)
    /\ \A b, c : Merge!Follows(b, c) <=> MergeStream!Follows(b, c)
    /\ \A b : Merge!Sop(b) <=> MergeStream!Sop(b)
<1>1. /\ \A b : Merge!Sop(b) <=> MergeStream!Sop(b)
      /\ \A b : Merge!Eop(b) <=> MergeStream!Eop(b)
      /\ \A s : Merge!Last(s) = MergeStream!Last(s)
  BY DEF Merge!Sop, MergeStream!Sop, Merge!Eop, MergeStream!Eop, Merge!Last, MergeStream!Last
<1>2. \A b, c : Merge!Follows(b, c) <=> MergeStream!Follows(b, c)
  BY <1>1 DEF Merge!Follows, MergeStream!Follows
<1>3. \A s : Merge!Framed(s) <=> MergeStream!Framed(s)
  BY <1>1, <1>2 DEF Merge!Framed, MergeStream!Framed, Merge!Contiguous, MergeStream!Contiguous
<1>4. \A s : Merge!AtBoundary(s) <=> MergeStream!AtBoundary(s)
  BY <1>1 DEF Merge!AtBoundary, MergeStream!AtBoundary
<1>5. \A s : Merge!NextBeats(s) = MergeStream!NextBeats(s)
  BY <1>1, <1>4, Zenon DEF Merge!NextBeats, MergeStream!NextBeats
<1>6. Merge!Beats = MergeStream!Beats
  BY DEF Merge!Beats, MergeStream!Beats
<1> QED BY <1>1, <1>2, <1>3, <1>5, <1>6

\* A lane brings beats that keep it framed.
LEMMA MergeNextBeats ==
    ASSUME NEW s \in Seq(Merge!Beats), Merge!Framed(s), NEW b \in Merge!NextBeats(s)
    PROVE  b \in Merge!Beats /\ Merge!Framed(Append(s, b))
BY MergeStreams, MergeStream!NextBeatsAreBeats, MergeStream!AppendFramed, MergeAssumption

\* A beat that fits keeps a stream framed.
LEMMA MergeFramedAppend ==
    ASSUME NEW s \in Seq(Merge!Beats), Merge!Framed(s), NEW b \in Merge!Beats,
           s = <<>> => Merge!Sop(b), s # <<>> => Merge!Follows(Merge!Last(s), b)
    PROVE  Merge!Framed(s \o <<b>>)
BY MergeStreams, MergeStream!FramedAppend, MergeAssumption

\* A register of the merge is empty or holds one beat.
LEMMA MergeSlots ==
    /\ <<>> \in Merge!Slot
    /\ \A b \in Merge!Beats : <<b>> \in Merge!Slot
    /\ \A s \in Merge!Slot : s \in Seq(Merge!Beats)
    /\ \A s \in Merge!Slot : s # <<>> => s[1] \in Merge!Beats /\ s = <<s[1]>> /\ Tail(s) = <<>>
<1>1. <<>> \in Merge!Slot /\ (\A b \in Merge!Beats : <<b>> \in Merge!Slot)
  BY DEF Merge!Slot
<1>2. ASSUME NEW s \in Merge!Slot, s # <<>>
      PROVE  s[1] \in Merge!Beats /\ s = <<s[1]>> /\ Tail(s) = <<>>
  <2>1. s \in Seq(Merge!Beats) /\ Len(s) \in Nat /\ Len(s) <= 1 /\ Len(s) # 0
    BY <1>2 DEF Merge!Slot
  <2>2. \A n \in Nat : n <= 1 /\ n # 0 => n = 1
    OBVIOUS
  <2>3. Len(s) = 1
    BY <2>1, <2>2
  <2>4. s[1] \in Merge!Beats
    BY <2>1, <2>3
  <2>5. s = <<s[1]>>
    BY <2>1, <2>3
  <2>6. Tail(<<s[1]>>) = <<>>
    BY <2>4
  <2> QED BY <2>4, <2>5, <2>6
<1> QED BY <1>1, <1>2 DEF Merge!Slot

\* The instance counts as the library does.
LEMMA MergeCardinality == \A S : Merge!Cardinality(S) = Cardinality(S)
BY DEF Merge!Cardinality, Cardinality

\* Counting the beats of a lane.
LEMMA OfLaneFacts ==
    ASSUME NEW S, NEW s \in Seq(S), NEW l, NEW i \in 0..Len(s)
    PROVE  /\ IsFiniteSet({j \in 1..i : s[j].pkt.lane = l})
           /\ Merge!OfLane(s, l, i) \in Nat
<1>1. i \in Int
  OBVIOUS
<1>2. IsFiniteSet(1..i)
  BY <1>1, FS_Interval
<1>3. {j \in 1..i : s[j].pkt.lane = l} \in SUBSET (1..i)
  OBVIOUS
<1>4. IsFiniteSet({j \in 1..i : s[j].pkt.lane = l})
  BY <1>2, <1>3, FS_Subset
<1>5. Merge!OfLane(s, l, i) \in Nat
  BY <1>4, FS_CardinalityType, MergeCardinality DEF Merge!OfLane
<1> QED BY <1>4, <1>5

\* A beat of a lane is at least its first.
LEMMA OfLanePositive ==
    ASSUME NEW S, NEW s \in Seq(S), NEW i \in 1..Len(s)
    PROVE  Merge!OfLane(s, s[i].pkt.lane, i) \in Nat \ {0}
<1> DEFINE P == {j \in 1..i : s[j].pkt.lane = s[i].pkt.lane}
<1>1. i \in 0..Len(s) /\ i \in P
  OBVIOUS
<1>2. IsFiniteSet(P) /\ Merge!OfLane(s, s[i].pkt.lane, i) \in Nat
  BY <1>1, OfLaneFacts
<1>3. Merge!OfLane(s, s[i].pkt.lane, i) = Cardinality(P)
  BY MergeCardinality DEF Merge!OfLane
<1> HIDE DEF P
<1>4. Cardinality(P) # 0
  BY <1>1, <1>2, FS_EmptySet
<1> QED BY <1>2, <1>3, <1>4

\* Nothing of a lane is in an empty sequence.
LEMMA OfLaneEmpty == \A l : Merge!OfLane(<<>>, l, 0) = 0
<1> SUFFICES ASSUME NEW l PROVE Merge!OfLane(<<>>, l, 0) = 0
  OBVIOUS
<1>1. {j \in 1..0 : <<>>[j].pkt.lane = l} = {}
  OBVIOUS
<1> QED BY <1>1, FS_EmptySet, MergeCardinality DEF Merge!OfLane

\* A beat that is appended counts for its own lane.
LEMMA OfLaneAppend ==
    ASSUME NEW S, NEW s \in Seq(S), NEW b \in S, NEW l
    PROVE  /\ \A i \in 0..Len(s) : Merge!OfLane(s \o <<b>>, l, i) = Merge!OfLane(s, l, i)
           /\ Merge!OfLane(s \o <<b>>, l, Len(s) + 1)
                = Merge!OfLane(s, l, Len(s)) + (IF b.pkt.lane = l THEN 1 ELSE 0)
<1> DEFINE t == s \o <<b>>
           P(i) == {j \in 1..i : s[j].pkt.lane = l}
           Q(i) == {j \in 1..i : t[j].pkt.lane = l}
<1>1. /\ t \in Seq(S) /\ Len(t) = Len(s) + 1 /\ Len(s) \in Nat
      /\ t[Len(s) + 1] = b /\ \A i \in 1..Len(s) : t[i] = s[i]
  BY AppendOne
<1> HIDE DEF t
<1>2. \A i \in 0..Len(s) : Q(i) = P(i)
  BY <1>1
<1>3. Q(Len(s) + 1) = IF b.pkt.lane = l THEN P(Len(s)) \cup {Len(s) + 1} ELSE P(Len(s))
  <2>1. 1..(Len(s) + 1) = (1..Len(s)) \cup {Len(s) + 1}
    BY <1>1
  <2> QED BY <1>1, <2>1
<1>4. IsFiniteSet(P(Len(s))) /\ Merge!OfLane(s, l, Len(s)) \in Nat
  <2>1. Len(s) \in 0..Len(s)
    BY <1>1
  <2> QED BY <2>1, OfLaneFacts
<1>5. Len(s) + 1 \notin P(Len(s))
  BY <1>1
<1>6. \A i : Merge!OfLane(t, l, i) = Cardinality(Q(i)) /\ Merge!OfLane(s, l, i) = Cardinality(P(i))
  BY MergeCardinality DEF Merge!OfLane
<1> HIDE DEF P, Q
<1>7. Cardinality(P(Len(s)) \cup {Len(s) + 1}) = Cardinality(P(Len(s))) + 1
  BY <1>4, <1>5, FS_AddElement
<1>8. \A i \in 0..Len(s) : Merge!OfLane(t, l, i) = Merge!OfLane(s, l, i)
  BY <1>2, <1>6
<1>9. Merge!OfLane(t, l, Len(s) + 1) = Merge!OfLane(s, l, Len(s)) + (IF b.pkt.lane = l THEN 1 ELSE 0)
  BY <1>3, <1>4, <1>6, <1>7
<1> QED BY <1>8, <1>9 DEF t

\* A beat of lane l passes.
Passes(l, b) ==
    /\ port_select \in {Merge!IDLE, l}
    /\ Passed' = Passed \o <<b>>
    /\ Inside(l) = <<b>> \o Inside(l)'
    /\ \A j \in Lanes \ {l} : Inside(j)' = Inside(j)
    /\ port_select' = IF Merge!Eop(b) THEN Merge!IDLE ELSE l

\* None does.
NonePasses ==
    /\ Passed' = Passed /\ port_select' = port_select
    /\ \A j \in Lanes : Inside(j)' = Inside(j)

\* A clock of the merge: one beat passes, or none does.
LEMMA MergeInvokes ==
    ASSUME MergeTypeOK, NEW accepting \in BOOLEAN, Merge!Invoke(accepting)
    PROVE  /\ MergeTypeOK' /\ m_sent' = m_sent
           /\ NonePasses \/ \E l \in Lanes : \E b \in Merge!Beats : Passes(l, b)
<1> DEFINE free == m_stage1 = <<>> \/ accepting
           taken(l) == free /\ Merge!Pick(l)
           read(l) == m_in[l] # <<>> /\ (m_stage0[l] = <<>> \/ taken(l))
<1>1. /\ m_in \in [Lanes -> Seq(Merge!Beats)] /\ m_stage0 \in [Lanes -> Merge!Slot]
      /\ m_stage1 \in Merge!Slot /\ m_stage1 \in Seq(Merge!Beats) /\ m_out \in Seq(Merge!Beats)
  BY MergeSlots DEF MergeTypeOK
<1>2. /\ m_out' = IF accepting THEN m_out \o m_stage1 ELSE m_out
      /\ \/ \E l \in Lanes :
              /\ taken(l)
              /\ m_stage1' = m_stage0[l]
              /\ port_select' = Merge!NextSelect(l)
         \/ /\ \A l \in Lanes : ~taken(l)
            /\ m_stage1' = IF accepting THEN <<>> ELSE m_stage1
            /\ port_select' = port_select
      /\ m_stage0' = [l \in Lanes |->
                        Merge!Latch(read(l), Merge!FirstOf(m_in[l]), taken(l), m_stage0[l])]
      /\ m_in' = [l \in Lanes |-> IF read(l) THEN Tail(m_in[l]) ELSE m_in[l]]
      /\ m_sent' = m_sent
  BY DEF Merge!Invoke, Lanes
<1>3. ASSUME NEW l \in Lanes
      PROVE  taken(l) \in BOOLEAN /\ (taken(l) => m_stage0[l] # <<>> /\ port_select \in {Merge!IDLE, l})
  BY DEF Merge!Pick, Merge!Offers
<1>4. ASSUME NEW l \in Lanes, NEW j \in Lanes, taken(l), taken(j) PROVE l = j
  BY <1>4 DEF Merge!Pick, Lanes, Merge!Lanes
<1> HIDE DEF taken
<1>5. ASSUME NEW l \in Lanes
      PROVE  /\ m_stage0'[l] \in Merge!Slot /\ m_in'[l] \in Seq(Merge!Beats)
             /\ ~taken(l) => Inside(l)' = Inside(l)
             /\ taken(l) => Inside(l) = <<m_stage0[l][1]>> \o Inside(l)'
  <2>1. m_stage0[l] \in Merge!Slot /\ m_in[l] \in Seq(Merge!Beats)
    BY <1>1
  <2>2. read(l) <=> m_in[l] # <<>> /\ (m_stage0[l] = <<>> \/ taken(l))
    OBVIOUS
  <2>3. /\ m_stage0'[l] = Merge!Latch(read(l), Merge!FirstOf(m_in[l]), taken(l), m_stage0[l])
        /\ m_in'[l] = IF read(l) THEN Tail(m_in[l]) ELSE m_in[l]
    BY <1>2
  <2> HIDE DEF read
  <2>4. /\ <<>> \in Merge!Slot /\ m_stage0[l] \in Seq(Merge!Beats)
        /\ m_stage0[l] # <<>> =>
             m_stage0[l][1] \in Merge!Beats /\ m_stage0[l] = <<m_stage0[l][1]>>
    BY <2>1, MergeSlots
  <2>5. CASE read(l)
    <3>1. m_in[l] # <<>> /\ (m_stage0[l] = <<>> \/ taken(l))
      BY <2>2, <2>5
    <3>2. /\ m_in[l][1] \in Merge!Beats /\ Tail(m_in[l]) \in Seq(Merge!Beats)
          /\ <<m_in[l][1]>> \o Tail(m_in[l]) = m_in[l]
      BY <2>1, <3>1
    <3>3. m_stage0'[l] = <<m_in[l][1]>> /\ m_in'[l] = Tail(m_in[l])
      BY <2>3, <2>5, <3>1 DEF Merge!Latch, Merge!FirstOf
    <3>4. m_stage0'[l] \in Merge!Slot /\ Inside(l)' = m_in[l]
      BY <3>2, <3>3, MergeSlots DEF Inside
    <3>5. ~taken(l) => Inside(l) = m_in[l]
      <4>1. <<>> \o m_in[l] = m_in[l]
        BY <2>1
      <4> QED BY <3>1, <4>1 DEF Inside
    <3>6. taken(l) => Inside(l) = <<m_stage0[l][1]>> \o m_in[l]
      BY <1>3, <2>4 DEF Inside
    <3> QED BY <3>2, <3>3, <3>4, <3>5, <3>6
  <2>6. CASE ~read(l)
    <3>1. m_stage0'[l] = (IF taken(l) THEN <<>> ELSE m_stage0[l]) /\ m_in'[l] = m_in[l]
      BY <2>3, <2>6 DEF Merge!Latch
    <3>2. ~taken(l) => Inside(l)' = Inside(l)
      BY <3>1 DEF Inside
    <3>3. ASSUME taken(l) PROVE Inside(l) = <<m_stage0[l][1]>> \o Inside(l)'
      <4>1. m_in[l] = <<>> /\ m_stage0'[l] = <<>> /\ m_stage0[l] # <<>>
        BY <1>3, <2>2, <2>6, <3>1, <3>3
      <4>2. Inside(l)' = <<>>
        BY <3>1, <4>1 DEF Inside
      <4> QED BY <2>4, <4>1, <4>2 DEF Inside
    <3> QED BY <2>1, <2>4, <3>1, <3>2, <3>3
  <2> QED BY <2>5, <2>6
<1>6. /\ m_stage0' \in [Lanes -> Merge!Slot] /\ m_in' \in [Lanes -> Seq(Merge!Beats)]
  <2>1. m_stage0' = [l \in Lanes |-> m_stage0'[l]] /\ m_in' = [l \in Lanes |-> m_in'[l]]
    BY <1>2
  <2> QED BY <1>5, <2>1
<1>7. m_out' \in Seq(Merge!Beats)
  BY <1>1, <1>2
<1>8. CASE \E l \in Lanes : taken(l)
  <2>1. PICK l \in Lanes :
          /\ taken(l) /\ m_stage1' = m_stage0[l] /\ port_select' = Merge!NextSelect(l)
    BY <1>2, <1>8
  <2> DEFINE b == m_stage0[l][1]
  <2>2. m_stage0[l] = <<b>> /\ b \in Merge!Beats
    BY <1>1, <1>3, <2>1, MergeSlots
  <2>3. Passed' = Passed \o <<b>>
    <3>1. CASE accepting
      BY <1>1, <1>2, <2>1, <2>2, <3>1 DEF Passed
    <3>2. CASE ~accepting
      <4>1. m_stage1 = <<>>
        BY <2>1, <3>2 DEF taken
      <4>2. m_out \o <<>> = m_out
        BY <1>1
      <4>3. Passed = m_out
        BY <4>1, <4>2 DEF Passed
      <4>4. m_out' = m_out /\ m_stage1' = <<b>>
        BY <1>2, <2>1, <2>2, <3>2
      <4> QED BY <4>3, <4>4 DEF Passed
    <3> QED BY <3>1, <3>2
  <2>4. port_select' = IF Merge!Eop(b) THEN Merge!IDLE ELSE l
    BY <2>1 DEF Merge!NextSelect
  <2>5. Passes(l, b)
    BY <1>3, <1>4, <1>5, <2>1, <2>3, <2>4 DEF Passes
  <2>6. m_stage1' \in Merge!Slot /\ port_select' \in Lanes \cup {Merge!IDLE}
    BY <1>1, <2>1, <2>4
  <2> QED BY <1>2, <1>6, <1>7, <2>2, <2>5, <2>6 DEF MergeTypeOK
<1>9. CASE \A l \in Lanes : ~taken(l)
  <2>1. m_stage1' = (IF accepting THEN <<>> ELSE m_stage1) /\ port_select' = port_select
    BY <1>2, <1>9
  <2>2. Passed' = Passed
    BY <1>1, <1>2, <2>1 DEF Passed
  <2>3. NonePasses
    BY <1>5, <1>9, <2>1, <2>2 DEF NonePasses
  <2>4. m_stage1' \in Merge!Slot
    BY <1>1, <2>1, MergeSlots
  <2> QED BY <1>2, <1>6, <1>7, <2>1, <2>3, <2>4 DEF MergeTypeOK
<1> QED BY <1>8, <1>9

\* What the derived quantities are.
LEMMA MergeShapes ==
    ASSUME MergeTypeOK
    PROVE  /\ Passed \in Seq(Merge!Beats) /\ Len(Passed) \in Nat
           /\ \A l \in Lanes : Inside(l) \in Seq(Merge!Beats) /\ Len(Inside(l)) \in Nat
           /\ \A l \in Lanes : Gone(l) \in Nat
<1>1. Passed \in Seq(Merge!Beats)
  BY MergeSlots DEF MergeTypeOK, Passed
<1>2. \A l \in Lanes : Inside(l) \in Seq(Merge!Beats)
  BY MergeSlots DEF MergeTypeOK, Inside
<1>3. Len(Passed) \in Nat /\ Len(Passed) \in 0..Len(Passed)
  BY <1>1
<1>4. \A l \in Lanes : Gone(l) \in Nat
  BY <1>1, <1>3, OfLaneFacts DEF Gone
<1> QED BY <1>1, <1>2, <1>3, <1>4

\* When a beat passes, it is the next of its lane, and fits to the one before.
LEMMA PassesKeepsInv ==
    ASSUME MergeInv, MergeTypeOK', m_sent' = m_sent,
           NEW l \in Lanes, NEW b \in Merge!Beats, Passes(l, b)
    PROVE  MergeInv'
<1>1. /\ Passed \in Seq(Merge!Beats) /\ Len(Passed) \in Nat /\ MergeTypeOK
      /\ \A j \in Lanes : Inside(j) \in Seq(Merge!Beats) /\ Len(Inside(j)) \in Nat /\ Gone(j) \in Nat
      /\ \A j \in Lanes : m_sent[j] \in Seq(Merge!Beats)
      /\ \A j \in Lanes : Inside(j)' \in Seq(Merge!Beats)
  <2>1. \A j \in Lanes : Inside(j)' \in Seq(Merge!Beats)
    BY MergeSlots DEF Inside, MergeTypeOK
  <2> QED BY <2>1, MergeShapes DEF MergeInv, MergeTypeOK
<1>2. /\ port_select \in {Merge!IDLE, l}
      /\ Passed' = Passed \o <<b>>
      /\ Inside(l) = <<b>> \o Inside(l)'
      /\ \A j \in Lanes \ {l} : Inside(j)' = Inside(j)
      /\ port_select' = IF Merge!Eop(b) THEN Merge!IDLE ELSE l
  BY DEF Passes
<1>3. /\ Len(Inside(l)) = Len(Inside(l)') + 1 /\ Len(Inside(l)') \in Nat
      /\ Inside(l)[1] = b /\ \A i \in 1..Len(Inside(l)') : Inside(l)'[i] = Inside(l)[i + 1]
  <2> DEFINE r == Inside(l)'
  <2>1. r \in Seq(Merge!Beats) /\ Inside(l) = <<b>> \o r
    BY <1>1, <1>2
  <2> HIDE DEF r
  <2>2. Len(<<b>> \o r) = Len(r) + 1 /\ Len(r) \in Nat /\ (<<b>> \o r)[1] = b
        /\ \A i \in 1..Len(r) : r[i] = (<<b>> \o r)[i + 1]
    BY <2>1
  <2> QED BY <2>1, <2>2 DEF r
<1>4. /\ Len(m_sent[l]) = Gone(l) + Len(Inside(l))
      /\ m_sent[l][Gone(l) + 1] = b
      /\ Gone(l) + 1 \in 1..Len(m_sent[l])
  <2>1. /\ Len(m_sent[l]) = Gone(l) + Len(Inside(l))
        /\ \A i \in 1..Len(Inside(l)) : Inside(l)[i] = m_sent[l][Gone(l) + i]
    BY DEF MergeInv, InsideRest
  <2>2. 1 \in 1..Len(Inside(l))
    BY <1>3
  <2>3. m_sent[l][Gone(l) + 1] = b
    BY <1>3, <2>1, <2>2
  <2>4. Gone(l) + 1 \in 1..Len(m_sent[l])
    BY <1>1, <1>3, <2>1
  <2> QED BY <2>1, <2>3, <2>4
<1>5. b.pkt.lane = l
  BY <1>4 DEF MergeInv, LanesFramed
<1>6. /\ Passed' \in Seq(Merge!Beats) /\ Len(Passed') = Len(Passed) + 1 /\ Passed' # <<>>
      /\ Passed'[Len(Passed) + 1] = b /\ \A i \in 1..Len(Passed) : Passed'[i] = Passed[i]
  BY <1>1, <1>2, AppendOne
<1>7. /\ \A j : \A i \in 0..Len(Passed) : Merge!OfLane(Passed', j, i) = Merge!OfLane(Passed, j, i)
      /\ \A j : Merge!OfLane(Passed', j, Len(Passed) + 1)
                  = Merge!OfLane(Passed, j, Len(Passed)) + (IF b.pkt.lane = j THEN 1 ELSE 0)
  <2> SUFFICES ASSUME NEW j
               PROVE  /\ \A i \in 0..Len(Passed) :
                           Merge!OfLane(Passed', j, i) = Merge!OfLane(Passed, j, i)
                      /\ Merge!OfLane(Passed', j, Len(Passed) + 1)
                           = Merge!OfLane(Passed, j, Len(Passed)) + (IF b.pkt.lane = j THEN 1 ELSE 0)
    OBVIOUS
  <2>1. /\ \A i \in 0..Len(Passed) :
             Merge!OfLane(Passed \o <<b>>, j, i) = Merge!OfLane(Passed, j, i)
        /\ Merge!OfLane(Passed \o <<b>>, j, Len(Passed) + 1)
             = Merge!OfLane(Passed, j, Len(Passed)) + (IF b.pkt.lane = j THEN 1 ELSE 0)
    BY <1>1, OfLaneAppend
  <2> QED BY <1>2, <2>1
<1>8. /\ \A j \in Lanes : Gone(j)' = Merge!OfLane(Passed', j, Len(Passed'))
      /\ Gone(l)' = Gone(l) + 1 /\ \A j \in Lanes \ {l} : Gone(j)' = Gone(j)
  <2>1. \A j \in Lanes : Gone(j)' = Merge!OfLane(Passed', j, Len(Passed'))
    BY DEF Gone
  <2>2. \A j \in Lanes : Gone(j)' = Gone(j) + (IF l = j THEN 1 ELSE 0)
    BY <1>5, <1>6, <1>7, <2>1 DEF Gone
  <2> QED BY <1>1, <2>1, <2>2
<1>9. LanesFramed'
  BY DEF MergeInv, LanesFramed
<1>10. InsideRest'
  <2> SUFFICES ASSUME NEW j \in Lanes
               PROVE  /\ Len(m_sent[j]) = Gone(j)' + Len(Inside(j)')
                      /\ \A i \in 1..Len(Inside(j)') : Inside(j)'[i] = m_sent[j][Gone(j)' + i]
    BY DEF InsideRest
  <2>1. /\ Len(m_sent[j]) = Gone(j) + Len(Inside(j))
        /\ \A i \in 1..Len(Inside(j)) : Inside(j)[i] = m_sent[j][Gone(j) + i]
    BY DEF MergeInv, InsideRest
  <2>2. CASE j = l
    <3>1. Len(m_sent[l]) = Gone(l)' + Len(Inside(l)')
      BY <1>1, <1>3, <1>4, <1>8
    <3>2. ASSUME NEW i \in 1..Len(Inside(l)')
          PROVE  Inside(l)'[i] = m_sent[l][Gone(l)' + i]
      <4>1. i + 1 \in 1..Len(Inside(l)) /\ Gone(l) + (i + 1) = Gone(l)' + i
        BY <1>1, <1>3, <1>8
      <4> QED BY <1>3, <2>1, <2>2, <4>1
    <3> QED BY <2>2, <3>1, <3>2
  <2>3. CASE j # l
    BY <1>2, <1>8, <2>1, <2>3
  <2> QED BY <2>2, <2>3
<1>11. PassedOfLane'
  <2> SUFFICES ASSUME NEW i \in 1..Len(Passed')
               PROVE  \E j \in Lanes :
                         /\ Passed'[i].pkt.lane = j
                         /\ Merge!OfLane(Passed', j, i) <= Len(m_sent[j])
                         /\ Passed'[i] = m_sent[j][Merge!OfLane(Passed', j, i)]
    BY DEF PassedOfLane
  <2>1. CASE i \in 1..Len(Passed)
    <3>1. PICK j \in Lanes :
             /\ Passed[i].pkt.lane = j
             /\ Merge!OfLane(Passed, j, i) <= Len(m_sent[j])
             /\ Passed[i] = m_sent[j][Merge!OfLane(Passed, j, i)]
      BY <2>1 DEF MergeInv, PassedOfLane
    <3>2. i \in 0..Len(Passed) /\ Passed'[i] = Passed[i]
      BY <1>6, <2>1
    <3> QED BY <1>7, <3>1, <3>2
  <2>2. CASE i = Len(Passed) + 1
    <3>1. Merge!OfLane(Passed', l, i) = Gone(l) + 1 /\ Passed'[i] = b
      BY <1>6, <1>7, <1>5, <2>2 DEF Gone
    <3>2. Gone(l) + 1 <= Len(m_sent[l])
      BY <1>1, <1>4
    <3> QED BY <1>4, <1>5, <3>1, <3>2
  <2> QED BY <1>1, <1>6, <2>1, <2>2
<1>12. SelectedMiddle'
  <2>1. Merge!Last(Passed') = b
    BY <1>6 DEF Merge!Last
  <2>2. /\ Merge!Framed(Passed)
        /\ port_select = Merge!IDLE => Merge!AtBoundary(Passed)
        /\ \A j \in Lanes :
             IF port_select = j
             THEN /\ Passed # <<>> /\ ~Merge!Eop(Merge!Last(Passed))
                  /\ Gone(j) # 0 /\ m_sent[j][Gone(j)] = Merge!Last(Passed)
             ELSE Gone(j) # 0 => Merge!Eop(m_sent[j][Gone(j)])
    BY DEF MergeInv, SelectedMiddle
  <2>3. /\ Gone(l) = 0 => Merge!Sop(b)
        /\ Gone(l) # 0 => Merge!Follows(m_sent[l][Gone(l)], b)
    <3>1. /\ \A i \in 1..Len(m_sent[l]) - 1 : Merge!Follows(m_sent[l][i], m_sent[l][i + 1])
          /\ m_sent[l] # <<>> => Merge!Sop(m_sent[l][1])
      BY DEF MergeInv, LanesFramed, Merge!Framed, Merge!Contiguous
    <3>2. m_sent[l] # <<>>
      BY <1>1, <1>4
    <3>3. Len(m_sent[l]) \in Nat /\ Gone(l) \in Nat
      BY <1>1
    <3>4. CASE Gone(l) = 0
      BY <1>4, <3>1, <3>2, <3>4
    <3>5. CASE Gone(l) # 0
      <4>1. Gone(l) \in 1..Len(m_sent[l]) - 1
        BY <1>4, <3>3, <3>5
      <4> QED BY <1>4, <3>1, <3>5, <4>1
    <3> QED BY <3>4, <3>5
  <2>4. Merge!IDLE \notin Lanes
    BY DEF Merge!IDLE, Lanes, Merge!Lanes
  <2>5. /\ Passed = <<>> => Merge!Sop(b)
        /\ Passed # <<>> => Merge!Follows(Merge!Last(Passed), b)
    <3>1. CASE port_select = Merge!IDLE
      <4>1. Merge!Sop(b)
        BY <2>2, <2>3, <2>4, <3>1 DEF Merge!Follows
      <4> QED BY <2>2, <3>1, <4>1 DEF Merge!AtBoundary, Merge!Follows
    <3>2. CASE port_select = l
      BY <2>2, <2>3, <3>2
    <3> QED BY <1>2, <3>1, <3>2
  <2>6. Merge!Framed(Passed')
    BY <1>1, <1>2, <2>2, <2>5, MergeFramedAppend
  <2>7. port_select' = Merge!IDLE => Merge!AtBoundary(Passed')
    BY <1>2, <2>1, <2>4 DEF Merge!AtBoundary
  <2>8. m_sent[l][Gone(l)'] = b /\ Gone(l)' # 0
    BY <1>1, <1>4, <1>8
  <2>9. ASSUME NEW j \in Lanes
        PROVE  IF port_select' = j
               THEN /\ Passed' # <<>> /\ ~Merge!Eop(Merge!Last(Passed'))
                    /\ Gone(j)' # 0 /\ m_sent[j][Gone(j)'] = Merge!Last(Passed')
               ELSE Gone(j)' # 0 => Merge!Eop(m_sent[j][Gone(j)'])
    <3>1. CASE j = l
      BY <1>2, <1>6, <2>1, <2>4, <2>8, <3>1
    <3>2. CASE j # l
      <4>1. port_select # j /\ port_select' # j /\ Gone(j)' = Gone(j)
        BY <1>2, <1>8, <2>4, <3>2
      <4> QED BY <2>2, <4>1
    <3> QED BY <3>1, <3>2
  <2> QED BY <2>6, <2>7, <2>9 DEF SelectedMiddle
<1> QED BY <1>9, <1>10, <1>11, <1>12 DEF MergeInv

\* A lane brings its next beat.
LEMMA SupplyKeepsInv ==
    ASSUME MergeInv, NEW l \in Lanes, NEW b \in Merge!NextBeats(m_sent[l]), Merge!Supply(l, b)
    PROVE  MergeInv'
<1>1. /\ m_in \in [Lanes -> Seq(Merge!Beats)] /\ m_stage0 \in [Lanes -> Merge!Slot]
      /\ m_stage1 \in Merge!Slot /\ m_out \in Seq(Merge!Beats)
      /\ m_sent \in [Lanes -> Seq(Merge!Beats)] /\ port_select \in Lanes \cup {Merge!IDLE}
      /\ Merge!Framed(m_sent[l])
  BY DEF MergeInv, MergeTypeOK, LanesFramed
<1>2. /\ b.pkt.lane = l
      /\ m_in' = [m_in EXCEPT ![l] = Append(@, b)]
      /\ m_sent' = [m_sent EXCEPT ![l] = Append(@, b)]
      /\ UNCHANGED <<m_stage0, m_stage1, port_select, m_out>>
  BY DEF Merge!Supply
<1>3. b \in Merge!Beats /\ Merge!Framed(Append(m_sent[l], b))
  BY <1>1, MergeNextBeats
<1>4. Append(m_in[l], b) \in Seq(Merge!Beats) /\ Append(m_sent[l], b) \in Seq(Merge!Beats)
  BY <1>1, <1>3
<1>5. MergeTypeOK'
  BY <1>1, <1>2, <1>4 DEF MergeTypeOK
<1>6. Passed' = Passed /\ \A j \in Lanes : Gone(j)' = Gone(j)
  BY <1>2 DEF Passed, Gone
<1>7. /\ Len(m_sent[l]) \in Nat
      /\ m_sent'[l] = Append(m_sent[l], b) /\ Len(m_sent'[l]) = Len(m_sent[l]) + 1
      /\ m_sent'[l][Len(m_sent[l]) + 1] = b
      /\ \A i \in 1..Len(m_sent[l]) : m_sent'[l][i] = m_sent[l][i]
      /\ \A j \in Lanes \ {l} : m_sent'[j] = m_sent[j]
  <2>1. m_sent'[l] = Append(m_sent[l], b) /\ \A j \in Lanes \ {l} : m_sent'[j] = m_sent[j]
    BY <1>1, <1>2
  <2>2. m_sent[l] \in Seq(Merge!Beats)
    BY <1>1
  <2> QED BY <1>3, <2>1, <2>2
<1>8. /\ Inside(l)' = Inside(l) \o <<b>> /\ \A j \in Lanes \ {l} : Inside(j)' = Inside(j)
  <2>1. m_in'[l] = m_in[l] \o <<b>> /\ m_stage0' = m_stage0
    BY <1>1, <1>2, <1>3
  <2>2. m_stage0[l] \in Seq(Merge!Beats) /\ m_in[l] \in Seq(Merge!Beats) /\ <<b>> \in Seq(Merge!Beats)
    BY <1>1, <1>3, MergeSlots
  <2>3. m_stage0[l] \o (m_in[l] \o <<b>>) = (m_stage0[l] \o m_in[l]) \o <<b>>
    <3> DEFINE s == m_stage0[l]
               t == m_in[l]
               u == <<b>>
    <3>1. s \in Seq(Merge!Beats) /\ t \in Seq(Merge!Beats) /\ u \in Seq(Merge!Beats)
      BY <2>2
    <3> HIDE DEF s, t, u
    <3>2. s \o (t \o u) = (s \o t) \o u
      BY <3>1, Regroup
    <3> QED BY <3>2 DEF s, t, u
  <2>4. \A j \in Lanes \ {l} : m_in'[j] = m_in[j]
    BY <1>1, <1>2
  <2> QED BY <2>1, <2>3, <2>4 DEF Inside
<1>9. /\ Inside(l) \in Seq(Merge!Beats) /\ Len(Inside(l)) \in Nat
      /\ \A j \in Lanes : Gone(j) \in Nat /\ Len(Inside(j)) \in Nat
      /\ Len(Inside(l)') = Len(Inside(l)) + 1 /\ Inside(l)'[Len(Inside(l)) + 1] = b
      /\ \A i \in 1..Len(Inside(l)) : Inside(l)'[i] = Inside(l)[i]
  <2>1. Inside(l) \in Seq(Merge!Beats) /\ \A j \in Lanes : Gone(j) \in Nat /\ Len(Inside(j)) \in Nat
    BY MergeShapes DEF MergeInv
  <2> QED BY <1>3, <1>8, <2>1, AppendOne
<1>10. /\ \A j \in Lanes :
            /\ Len(m_sent[j]) = Gone(j) + Len(Inside(j))
            /\ \A i \in 1..Len(Inside(j)) : Inside(j)[i] = m_sent[j][Gone(j) + i]
       /\ \A j \in Lanes : \A i \in 1..Len(m_sent[j]) : m_sent[j][i].pkt.lane = j
       /\ \A j \in Lanes : Merge!Framed(m_sent[j])
  BY DEF MergeInv, InsideRest, LanesFramed
<1>11. LanesFramed'
  <2> SUFFICES ASSUME NEW j \in Lanes
               PROVE  /\ Merge!Framed(m_sent'[j])
                      /\ \A i \in 1..Len(m_sent'[j]) : m_sent'[j][i].pkt.lane = j
    BY DEF LanesFramed, Merge!Framed, Merge!Contiguous
  <2>1. CASE j = l
    <3>1. ASSUME NEW i \in 1..Len(m_sent'[l]) PROVE m_sent'[l][i].pkt.lane = l
      <4>1. i \in 1..Len(m_sent[l]) \/ i = Len(m_sent[l]) + 1
        BY <1>7
      <4> QED BY <1>2, <1>7, <1>10, <4>1
    <3> QED BY <1>3, <1>7, <2>1, <3>1
  <2>2. CASE j # l
    BY <1>7, <1>10, <2>2
  <2> QED BY <2>1, <2>2
<1>12. InsideRest'
  <2> SUFFICES ASSUME NEW j \in Lanes
               PROVE  /\ Len(m_sent'[j]) = Gone(j) + Len(Inside(j)')
                      /\ \A i \in 1..Len(Inside(j)') : Inside(j)'[i] = m_sent'[j][Gone(j) + i]
    BY <1>6 DEF InsideRest
  <2>1. CASE j = l
    <3>1. Len(m_sent'[l]) = Gone(l) + Len(Inside(l)')
      BY <1>7, <1>9, <1>10
    <3>2. ASSUME NEW i \in 1..Len(Inside(l)') PROVE Inside(l)'[i] = m_sent'[l][Gone(l) + i]
      <4>1. CASE i \in 1..Len(Inside(l))
        <5>1. Gone(l) + i \in 1..Len(m_sent[l])
          BY <1>9, <1>10, <4>1
        <5> QED BY <1>7, <1>9, <1>10, <4>1, <5>1
      <4>2. CASE i = Len(Inside(l)) + 1
        <5>1. Gone(l) + i = Len(m_sent[l]) + 1
          BY <1>9, <1>10, <4>2
        <5> QED BY <1>7, <1>9, <4>2, <5>1
      <4> QED BY <1>9, <4>1, <4>2
    <3> QED BY <2>1, <3>1, <3>2
  <2>2. CASE j # l
    BY <1>7, <1>8, <1>10, <2>2
  <2> QED BY <2>1, <2>2
<1>13. ASSUME NEW j \in Lanes
       PROVE  /\ Len(m_sent[j]) <= Len(m_sent'[j]) /\ Len(m_sent[j]) \in Nat /\ Len(m_sent'[j]) \in Nat
              /\ \A i \in 1..Len(m_sent[j]) : m_sent'[j][i] = m_sent[j][i]
  <2>1. Len(m_sent[j]) \in Nat
    BY <1>1
  <2>2. CASE j = l
    <3>1. \A n \in Nat : n <= n + 1 /\ n + 1 \in Nat
      OBVIOUS
    <3> QED BY <1>7, <2>2, <3>1
  <2>3. CASE j # l
    <3>1. \A n \in Nat : n <= n
      OBVIOUS
    <3> QED BY <1>7, <2>1, <2>3, <3>1
  <2> QED BY <2>2, <2>3
<1>14. PassedOfLane'
  <2> SUFFICES ASSUME NEW i \in 1..Len(Passed)
               PROVE  \E j \in Lanes :
                         /\ Passed[i].pkt.lane = j
                         /\ Merge!OfLane(Passed, j, i) <= Len(m_sent'[j])
                         /\ Passed[i] = m_sent'[j][Merge!OfLane(Passed, j, i)]
    BY <1>6 DEF PassedOfLane
  <2>1. PICK j \in Lanes :
           /\ Passed[i].pkt.lane = j
           /\ Merge!OfLane(Passed, j, i) <= Len(m_sent[j])
           /\ Passed[i] = m_sent[j][Merge!OfLane(Passed, j, i)]
    BY DEF MergeInv, PassedOfLane
  <2>2. Merge!OfLane(Passed, j, i) \in 1..Len(m_sent[j])
    BY <2>1, OfLanePositive, MergeShapes, SMTT(30) DEF MergeInv
  <2>3. Merge!OfLane(Passed, j, i) <= Len(m_sent'[j])
    BY <1>13, <2>2
  <2> QED BY <1>13, <2>1, <2>2, <2>3
<1>15. SelectedMiddle'
  <2>1. \A j \in Lanes : Gone(j) # 0 => Gone(j) \in 1..Len(m_sent[j])
    BY <1>9, <1>10
  <2>2. \A j \in Lanes : Gone(j) # 0 => m_sent'[j][Gone(j)] = m_sent[j][Gone(j)]
    BY <1>13, <2>1
  <2>3. Merge!Framed(Passed') /\ (port_select' = Merge!IDLE => Merge!AtBoundary(Passed'))
    BY <1>2, <1>6 DEF MergeInv, SelectedMiddle
  <2>4. ASSUME NEW j \in Lanes
        PROVE  IF port_select = j
               THEN /\ Passed # <<>> /\ ~Merge!Eop(Merge!Last(Passed))
                    /\ Gone(j) # 0 /\ m_sent'[j][Gone(j)] = Merge!Last(Passed)
               ELSE Gone(j) # 0 => Merge!Eop(m_sent'[j][Gone(j)])
    BY <2>2 DEF MergeInv, SelectedMiddle
  <2> QED BY <1>2, <1>6, <2>3, <2>4 DEF SelectedMiddle
<1> QED BY <1>5, <1>11, <1>12, <1>14, <1>15 DEF MergeInv

\* Nothing passes.
LEMMA NonePassesKeepsInv ==
    ASSUME MergeInv, MergeTypeOK', m_sent' = m_sent, NonePasses
    PROVE  MergeInv'
<1>1. /\ Passed' = Passed /\ port_select' = port_select
      /\ \A j \in Lanes : Inside(j)' = Inside(j)
      /\ \A j \in Lanes : Gone(j)' = Gone(j)
  BY DEF NonePasses, Gone
<1>2. LanesFramed'
  BY DEF MergeInv, LanesFramed
<1>3. InsideRest'
  BY <1>1 DEF MergeInv, InsideRest
<1>4. PassedOfLane'
  BY <1>1 DEF MergeInv, PassedOfLane
<1>5. SelectedMiddle'
  BY <1>1 DEF MergeInv, SelectedMiddle
<1> QED BY <1>2, <1>3, <1>4, <1>5 DEF MergeInv

\* The invariant holds in every reachable state of the merge.
LEMMA MergeInvInvariant == Merge!Spec => []MergeInv
<1>1. Merge!Init => MergeInv
  <2> SUFFICES ASSUME Merge!Init PROVE MergeInv
    OBVIOUS
  <2>1. /\ m_in = [l \in Lanes |-> <<>>] /\ m_stage0 = [l \in Lanes |-> <<>>] /\ m_stage1 = <<>>
        /\ port_select = Merge!IDLE /\ m_sent = [l \in Lanes |-> <<>>] /\ m_out = <<>>
    BY DEF Merge!Init, Lanes
  <2>2. MergeTypeOK
    BY <2>1, MergeSlots DEF MergeTypeOK
  <2>3. Passed = <<>> /\ \A l \in Lanes : Inside(l) = <<>>
    BY <2>1 DEF Passed, Inside
  <2>4. \A l \in Lanes : Gone(l) = 0
    BY <2>3, OfLaneEmpty DEF Gone
  <2>5. Merge!Framed(<<>>) /\ Merge!AtBoundary(<<>>)
    BY DEF Merge!Framed, Merge!Contiguous, Merge!AtBoundary
  <2>6. \A l \in Lanes : m_sent[l] = <<>> /\ port_select # l
    BY <2>1 DEF Lanes, Merge!Lanes, Merge!IDLE
  <2>7. LanesFramed /\ InsideRest
    BY <2>3, <2>4, <2>5, <2>6 DEF LanesFramed, InsideRest
  <2>8. PassedOfLane /\ SelectedMiddle
    BY <2>3, <2>4, <2>5, <2>6 DEF PassedOfLane, SelectedMiddle
  <2> QED BY <2>2, <2>7, <2>8 DEF MergeInv
<1>2. MergeInv /\ [Merge!Next]_(Merge!vars) => MergeInv'
  <2> SUFFICES ASSUME MergeInv, [Merge!Next]_(Merge!vars) PROVE MergeInv'
    OBVIOUS
  <2>1. ASSUME NEW l \in Lanes, NEW b \in Merge!NextBeats(m_sent[l]), Merge!Supply(l, b)
        PROVE  MergeInv'
    BY <2>1, SupplyKeepsInv
  <2>2. ASSUME NEW accepting \in BOOLEAN, Merge!Invoke(accepting)
        PROVE  MergeInv'
    <3>1. MergeTypeOK
      BY DEF MergeInv
    <3>2. /\ MergeTypeOK' /\ m_sent' = m_sent
          /\ NonePasses \/ \E l \in Lanes : \E b \in Merge!Beats : Passes(l, b)
      BY <2>2, <3>1, MergeInvokes
    <3> QED BY <3>2, PassesKeepsInv, NonePassesKeepsInv
  <2>3. CASE UNCHANGED Merge!vars
    <3>1. UNCHANGED <<m_in, m_stage0, m_stage1, port_select, m_sent, m_out>>
      BY <2>3 DEF Merge!vars
    <3>2. MergeTypeOK'
      BY <3>1 DEF MergeInv, MergeTypeOK
    <3>3. NonePasses
      BY <3>1 DEF NonePasses, Passed, Inside
    <3> QED BY <3>1, <3>2, <3>3, NonePassesKeepsInv
  <2> QED BY <2>1, <2>2, <2>3 DEF Merge!Next, Lanes
<1> QED BY <1>1, <1>2, PTL DEF Merge!Spec

\* The frames of the two lanes never mix on the way to the MAC, for frames of
\* any length, any stalls of the MAC and lanes that run dry in mid-frame.
THEOREM MergeFramed == Merge!Spec => []OutFramed
<1>1. MergeInv => OutFramed
  <2> SUFFICES ASSUME MergeInv PROVE Merge!Framed(m_out)
    BY DEF OutFramed, Merge!OutFramed
  <2>1. /\ m_out \in Seq(Merge!Beats) /\ m_stage1 \in Seq(Merge!Beats) /\ Len(m_out) \in Nat
        /\ Len(m_stage1) \in Nat
    BY MergeSlots DEF MergeInv, MergeTypeOK
  <2>2. Merge!Framed(Passed)
    BY DEF MergeInv, SelectedMiddle
  <2>3. Len(Passed) = Len(m_out) + Len(m_stage1) /\ \A i \in 1..Len(m_out) : Passed[i] = m_out[i]
    BY <2>1 DEF Passed
  <2>4. Merge!Contiguous(m_out)
    <3> SUFFICES ASSUME NEW i \in 1..Len(m_out) - 1 PROVE Merge!Follows(m_out[i], m_out[i + 1])
      BY DEF Merge!Contiguous
    <3>1. i \in 1..Len(Passed) - 1 /\ i \in 1..Len(m_out) /\ i + 1 \in 1..Len(m_out)
      BY <2>1, <2>3
    <3> QED BY <2>2, <2>3, <3>1 DEF Merge!Framed, Merge!Contiguous
  <2>5. ASSUME m_out # <<>> PROVE Merge!Sop(m_out[1])
    <3>1. Len(m_out) # 0
      BY <2>1, <2>5
    <3>2. 1 \in 1..Len(m_out) /\ Len(Passed) # 0
      BY <2>1, <2>3, <3>1
    <3>3. Passed # <<>>
      BY <3>2
    <3> QED BY <2>2, <2>3, <3>2, <3>3 DEF Merge!Framed
  <2> QED BY <2>4, <2>5 DEF Merge!Framed
<1> QED BY <1>1, MergeInvInvariant, PTL

\* The merge loses, repeats and reorders no beat of a lane.
THEOREM MergeKeepsLanes == Merge!Spec => []LanesKept
<1>1. MergeInv => LanesKept
  <2> SUFFICES ASSUME MergeInv PROVE LanesKept
    OBVIOUS
  <2>1. \A i \in 1..Len(Passed) : \E l \in Lanes :
             /\ Passed[i].pkt.lane = l
             /\ Merge!OfLane(Passed, l, i) <= Len(m_sent[l])
             /\ Passed[i] = m_sent[l][Merge!OfLane(Passed, l, i)]
    BY DEF MergeInv, PassedOfLane
  <2>2. ASSUME NEW l \in Lanes
        PROVE  Inside(l) = SubSeq(m_sent[l], Gone(l) + 1, Len(m_sent[l]))
    <3>1. /\ Inside(l) \in Seq(Merge!Beats) /\ Len(Inside(l)) \in Nat /\ Gone(l) \in Nat
          /\ m_sent[l] \in Seq(Merge!Beats) /\ Len(m_sent[l]) \in Nat
          /\ Len(m_sent[l]) = Gone(l) + Len(Inside(l))
          /\ \A i \in 1..Len(Inside(l)) : Inside(l)[i] = m_sent[l][Gone(l) + i]
      BY MergeShapes DEF MergeInv, MergeTypeOK, InsideRest
    <3> DEFINE r == SubSeq(m_sent[l], Gone(l) + 1, Len(m_sent[l]))
    <3>2. \A i \in (Gone(l) + 1)..Len(m_sent[l]) : m_sent[l][i] \in Merge!Beats
      BY <3>1
    <3>3. /\ r \in Seq(Merge!Beats)
          /\ Len(r) = IF Gone(l) + 1 <= Len(m_sent[l]) THEN Len(m_sent[l]) - (Gone(l) + 1) + 1 ELSE 0
          /\ \A i \in 1..(Len(m_sent[l]) - (Gone(l) + 1) + 1) : r[i] = m_sent[l][(Gone(l) + 1) + i - 1]
      <4>1. Gone(l) + 1 \in Int /\ Len(m_sent[l]) \in Int
        BY <3>1
      <4> QED BY <3>2, <4>1, SubSeqProperties
    <3> HIDE DEF r
    <3>4. Len(r) = Len(Inside(l))
      BY <3>1, <3>3
    <3>5. ASSUME NEW i \in 1..Len(r) PROVE r[i] = Inside(l)[i]
      <4>1. i \in 1..(Len(m_sent[l]) - (Gone(l) + 1) + 1) /\ (Gone(l) + 1) + i - 1 = Gone(l) + i
        BY <3>1, <3>4
      <4> QED BY <3>1, <3>3, <3>4, <4>1
    <3>6. r = Inside(l)
      BY <3>1, <3>3, <3>4, <3>5, SeqEqual
    <3> QED BY <3>6 DEF r
  <2> QED BY <2>1, <2>2 DEF LanesKept, Merge!LanesKept, Passed, Inside, Gone, Lanes
<1> QED BY <1>1, MergeInvInvariant, PTL

-----------------------------------------------------------------------------
(* The transmit path: each block keeps what it promises, whichever runs.    *)

\* A behaviour of the path is a behaviour of each block, which may stutter.
LEMMA PathRunsBlocks == PathSpec => Spec /\ Buffer!Spec /\ Merge!Spec
<1>1. PathInit => Init /\ Buffer!Init /\ Merge!Init
  BY DEF PathInit
<1>2. [PathNext]_<<block, vars, bufferVars, mergeVars>>
        => [Next]_vars /\ [Buffer!Next]_(Buffer!vars) /\ [Merge!Next]_(Merge!vars)
  BY DEF PathNext, bufferVars, mergeVars, Buffer!vars, Buffer!fifoVars, Merge!vars
<1> QED BY <1>1, <1>2, PTL DEF PathSpec, Spec, Buffer!Spec, Merge!Spec

\* Bridge and buffer hand on what they accepted, in order and once.
THEOREM PathBuffersImplementFifo == PathSpec => BuffersImplementFifo
BY PathRunsBlocks, BridgeImplementsFifo, BufferImplementsFifo DEF BuffersImplementFifo
=============================================================================
