--------------------------- MODULE RxPath_proofs ---------------------------
(***************************************************************************)
(* Every beat leaves the two splitters on its frame's lane, and each lane  *)
(* gets its beats in order and once (they implement the abstract splitter, *)
(* Demux), for all packets, buffer depths and bounds.  The inductive       *)
(* invariants say where the beats in the registers stand in the stream     *)
(* that was sent, what output_state knows about the beat to be routed      *)
(* next, and which of a lane's beats its register holds.  First the        *)
(* splitter by ethertype, then the splitter by protocol, then both as the  *)
(* receive path has them.                                                  *)
(***************************************************************************)
EXTENDS MCRxPath, L8Stream_proofs

\* The number of beats in the input buffer, and up to stage0, stage1, stage2.
N0 == Len(ch_in)
N1 == N0 + Len(stage0)
N2 == N1 + Len(stage1)
N3 == N2 + Len(stage2)

\* The number of beats that have been routed: sent[Routed] is the last one.
Routed == Len(sent) - N3

\* The registers and the buffer hold the end of the stream, in its order.
InPlace ==
    /\ N3 <= Len(sent)
    /\ \A i \in 1..N0 : ch_in[i] = sent[Len(sent) - N0 + i]
    /\ stage0 # <<>> => stage0[1] = sent[Len(sent) - N0]
    /\ stage1 # <<>> => stage1[1] = sent[Len(sent) - N1]
    /\ stage2 # <<>> => stage2[1] = sent[Len(sent) - N2]

BetweenFrames == Routed = 0 \/ Eop(sent[Routed])

\* Within a frame output_state is the frame's lane.  Between two frames it is
\* HOLD, or the lane of the frame whose first beat stands in stage2.
Decided ==
    /\ output_state = HOLD => BetweenFrames
    /\ output_state # HOLD =>
         IF BetweenFrames
         THEN stage2 # <<>> /\ LaneOf(stage2[1].pkt) = output_state
         ELSE LaneOf(sent[Routed].pkt) = output_state

\* A lane's register holds beats of the lane.
RegistersRight ==
    \A p \in Lanes : \A i \in 1..Len(stage3[p]) : LaneOf(stage3[p][i].pkt) = p

IInv ==
    /\ TypeOK
    /\ Framed(sent)
    /\ InPlace
    /\ Decided
    /\ RegistersRight
    /\ RoutedToItsLane

-----------------------------------------------------------------------------
(* The operators the model is built from.                                  *)

\* The decision is a lane or HOLD.
LEMMA DecideType ==
    ASSUME NEW second, NEW first
    PROVE  Decide(second, first) \in Lanes \cup {HOLD}
BY DEF Decide, LaneOfEtype, Lanes, HOLD

-----------------------------------------------------------------------------
(* Type correctness.                                                       *)

\* The registers start empty.
LEMMA InitTypeOK == Init => TypeOK
<1> SUFFICES ASSUME Init PROVE TypeOK
  OBVIOUS
<1>1. <<>> \in Seq(Beats) /\ Len(<<>>) = 0 /\ <<>> \in Slot
  BY DEF Slot
<1> QED BY <1>1, DepthAssumption DEF Init, TypeOK, Lanes, HOLD

\* A write of the upstream bridge keeps the types.
LEMMA SupplyTypeOK ==
    ASSUME TypeOK, NEW b \in NextBeats(sent), Supply(b)
    PROVE  TypeOK'
<1>1. b \in Beats
  BY NextBeatsAreBeats DEF TypeOK
<1>2. ch_in' \in Seq(Beats) /\ Len(ch_in') <= BufDepth /\ sent' \in Seq(Beats)
  BY <1>1, DepthAssumption DEF Supply, TypeOK
<1> QED BY <1>2 DEF Supply, TypeOK

\* An invocation keeps the types, for every choice of accepting lanes.
LEMMA InvokeTypeOK ==
    ASSUME TypeOK, NEW accepting \in SUBSET Lanes, Invoke(accepting)
    PROVE  TypeOK'
<1>1. ch_in' \in Seq(Beats) /\ Len(ch_in') <= BufDepth
  BY DepthAssumption DEF Invoke, TypeOK
<1>2. FirstOf(ch_in) \in Slot
  BY DEF FirstOf, Slot, TypeOK
<1>3. stage0' \in Slot /\ stage1' \in Slot /\ stage2' \in Slot
  BY <1>2, LatchSlot DEF Invoke, TypeOK
<1>4. stage3' \in [Lanes -> Slot]
  BY LatchSlot DEF Invoke, TypeOK
<1>5. output_state' \in Lanes \cup {HOLD}
  BY DecideType DEF Invoke, TypeOK
<1>6. \A p \in Lanes : out[p] \o stage3[p] \in Seq(Beats)
  BY DEF TypeOK, Slot
<1>7. out' \in [Lanes -> Seq(Beats)]
  BY <1>6 DEF Invoke, TypeOK
<1>8. sent' \in Seq(Beats)
  BY DEF Invoke, TypeOK
<1> QED BY <1>1, <1>3, <1>4, <1>5, <1>7, <1>8 DEF TypeOK

\* Every variable keeps its type; the buffer never holds more than its depth.
THEOREM TypeCorrect == Spec => []TypeOK
<1>1. TypeOK /\ [Next]_vars => TypeOK'
  <2> SUFFICES ASSUME TypeOK, [Next]_vars PROVE TypeOK'
    OBVIOUS
  <2>1. ASSUME NEW b \in NextBeats(sent), Supply(b) PROVE TypeOK'
    BY <2>1, SupplyTypeOK
  <2>2. ASSUME NEW accepting \in SUBSET Lanes, Invoke(accepting) PROVE TypeOK'
    BY <2>2, InvokeTypeOK
  <2>3. CASE UNCHANGED vars
    BY <2>3 DEF vars, TypeOK
  <2> QED BY <2>1, <2>2, <2>3 DEF Next
<1> QED BY <1>1, InitTypeOK, PTL DEF Spec

-----------------------------------------------------------------------------
(* The stream stays framed, and the registers stay in its order.           *)

\* What the lengths are made of.
CountFacts ==
    /\ N0 \in Nat /\ N1 \in Nat /\ N2 \in Nat /\ N3 \in Nat
    /\ N0 <= N1 /\ N1 <= N2 /\ N2 <= N3 /\ Len(sent) \in Nat
    /\ stage0 = <<>> => N1 = N0
    /\ stage0 # <<>> => N1 = N0 + 1
    /\ stage1 = <<>> => N2 = N1
    /\ stage1 # <<>> => N2 = N1 + 1
    /\ stage2 = <<>> => N3 = N2
    /\ stage2 # <<>> => N3 = N2 + 1

\* The lengths are what the registers make them.
LEMMA Counts == TypeOK => CountFacts
<1> SUFFICES ASSUME TypeOK PROVE CountFacts
  OBVIOUS
<1>1. N0 \in Nat /\ Len(sent) \in Nat
  BY DEF TypeOK, N0
<1>2. (stage0 = <<>> => Len(stage0) = 0) /\ (stage0 # <<>> => Len(stage0) = 1)
  BY SlotFacts DEF TypeOK
<1>3. (stage1 = <<>> => Len(stage1) = 0) /\ (stage1 # <<>> => Len(stage1) = 1)
  BY SlotFacts DEF TypeOK
<1>4. (stage2 = <<>> => Len(stage2) = 0) /\ (stage2 # <<>> => Len(stage2) = 1)
  BY SlotFacts DEF TypeOK
<1> QED BY <1>1, <1>2, <1>3, <1>4, SMTT(30) DEF CountFacts, N1, N2, N3

\* A beat that is written goes to the end of the stream and of the buffer.
LEMMA SupplyInPlace ==
    ASSUME TypeOK, InPlace, NEW b \in NextBeats(sent), Supply(b)
    PROVE  InPlace' /\ Routed' = Routed /\ \A i \in 1..Len(sent) : sent'[i] = sent[i]
<1>1. b \in Beats
  BY NextBeatsAreBeats DEF TypeOK
<1>2. /\ Len(sent') = Len(sent) + 1 /\ sent'[Len(sent) + 1] = b
      /\ \A i \in 1..Len(sent) : sent'[i] = sent[i]
  BY <1>1 DEF Supply, TypeOK
<1>3. /\ Len(ch_in') = Len(ch_in) + 1 /\ ch_in'[Len(ch_in) + 1] = b
      /\ \A i \in 1..Len(ch_in) : ch_in'[i] = ch_in[i]
  <2>1. ch_in' = Append(ch_in, b)
    BY <1>1 DEF Supply
  <2>2. ch_in \in Seq(Beats) /\ b \in Beats
    BY <1>1 DEF TypeOK
  <2> QED BY <2>1, <2>2
<1>4. stage0' = stage0 /\ stage1' = stage1 /\ stage2' = stage2
  BY DEF Supply
<1>5. N0' = N0 + 1 /\ N1' = N1 + 1 /\ N2' = N2 + 1 /\ N3' = N3 + 1
  BY <1>3, <1>4, Counts DEF CountFacts, N0, N1, N2, N3, TypeOK, Slot
<1>6. Routed' = Routed
  BY <1>2, <1>5, Counts, SMTT(30) DEF CountFacts, Routed
<1>7. \A i \in 1..N0' : ch_in'[i] = sent'[Len(sent') - N0' + i]
  <2> SUFFICES ASSUME NEW i \in 1..N0' PROVE ch_in'[i] = sent'[Len(sent') - N0' + i]
    OBVIOUS
  <2>1. CASE i = N0 + 1
    BY <1>2, <1>3, <1>5, <2>1, Counts, SMTT(30) DEF CountFacts, N0
  <2>2. CASE i \in 1..N0
    <3>1. N0 <= Len(sent)
      BY Counts DEF CountFacts, InPlace
    <3>2. Len(sent) - N0 + i \in 1..Len(sent) /\ ch_in[i] = sent[Len(sent) - N0 + i]
      BY <2>2, <3>1, Counts DEF CountFacts, InPlace
    <3>3. ch_in'[i] = ch_in[i] /\ Len(sent') - N0' = Len(sent) - N0
      BY <1>2, <1>3, <1>5, <2>2, Counts, SMTT(30) DEF CountFacts, N0
    <3>4. Len(sent') - N0' + i = Len(sent) - N0 + i
      BY <3>3
    <3> QED BY <1>2, <3>2, <3>3, <3>4
  <2>3. \A n \in Nat : \A j \in 1..(n + 1) : j = n + 1 \/ j \in 1..n
    OBVIOUS
  <2> QED BY <1>5, <2>1, <2>2, <2>3, Counts DEF CountFacts
<1>8. /\ stage0' # <<>> => stage0'[1] = sent'[Len(sent') - N0']
      /\ stage1' # <<>> => stage1'[1] = sent'[Len(sent') - N1']
      /\ stage2' # <<>> => stage2'[1] = sent'[Len(sent') - N2']
  <2> N3 <= Len(sent)
    BY DEF InPlace
  <2>1. /\ Len(sent') - N0' = Len(sent) - N0
        /\ Len(sent') - N1' = Len(sent) - N1
        /\ Len(sent') - N2' = Len(sent) - N2
    <3>1. Len(sent') = Len(sent) + 1
      BY <1>2
    <3>2. \A a, b1, c, d \in Int : a = b1 + 1 /\ c = d + 1 => a - c = b1 - d
      OBVIOUS
    <3>3. /\ Len(sent') \in Int /\ Len(sent) \in Int
          /\ N0 \in Int /\ N1 \in Int /\ N2 \in Int
          /\ N0' \in Int /\ N1' \in Int /\ N2' \in Int
      BY <1>5, <3>1, Counts, SMTT(30) DEF CountFacts
    <3> QED BY <1>5, <3>1, <3>2, <3>3
  <2>2. /\ stage0 # <<>> => Len(sent) - N0 \in 1..Len(sent)
        /\ stage1 # <<>> => Len(sent) - N1 \in 1..Len(sent)
        /\ stage2 # <<>> => Len(sent) - N2 \in 1..Len(sent)
    BY Counts, SMTT(30) DEF CountFacts
  <2> QED BY <1>2, <1>4, <2>1, <2>2 DEF InPlace
<1>9. N3' <= Len(sent')
  BY <1>2, <1>5, Counts, SMTT(30) DEF CountFacts, InPlace
<1> QED BY <1>2, <1>6, <1>7, <1>8, <1>9 DEF InPlace

\* The beats an invocation moves.
Move1(accepting) == stage1 # <<>> /\ (stage2 = <<>> \/ CanRoute(accepting))
Move0(accepting) == stage0 # <<>> /\ (stage1 = <<>> \/ Move1(accepting))
Read(accepting)  == ch_in # <<>> /\ (stage0 = <<>> \/ Move0(accepting))

\* What an invocation leaves in the registers.
LEMMA Registers ==
    ASSUME NEW accepting, Invoke(accepting)
    PROVE  /\ Move1(accepting) => stage2' = stage1
           /\ ~Move1(accepting) /\ CanRoute(accepting) => stage2' = <<>>
           /\ ~Move1(accepting) /\ ~CanRoute(accepting) => stage2' = stage2
           /\ Move0(accepting) => stage1' = stage0
           /\ ~Move0(accepting) /\ Move1(accepting) => stage1' = <<>>
           /\ ~Move0(accepting) /\ ~Move1(accepting) => stage1' = stage1
           /\ Read(accepting) => stage0' = <<ch_in[1]>> /\ ch_in' = Tail(ch_in)
           /\ ~Read(accepting) /\ Move0(accepting) => stage0' = <<>>
           /\ ~Read(accepting) /\ ~Move0(accepting) => stage0' = stage0
           /\ ~Read(accepting) => ch_in' = ch_in
           /\ sent' = sent
BY DEF Invoke, Latch, FirstOf, Move1, Move0, Read

\* An invocation takes at most one beat past each register.
LEMMA InvokeCounts ==
    ASSUME TypeOK, NEW accepting \in SUBSET Lanes, Invoke(accepting)
    PROVE  /\ N0' = IF Read(accepting) THEN N0 - 1 ELSE N0
           /\ N1' = IF Move0(accepting) THEN N1 - 1 ELSE N1
           /\ N2' = IF Move1(accepting) THEN N2 - 1 ELSE N2
           /\ N3' = IF CanRoute(accepting) THEN N3 - 1 ELSE N3
<1> TypeOK'
  BY InvokeTypeOK
<1>1. CountFacts /\ CountFacts'
  BY Counts, PTL
<1>2. N0' = IF Read(accepting) THEN N0 - 1 ELSE N0
  <2>1. CASE Read(accepting)
    BY <2>1, Registers DEF Read, N0, TypeOK
  <2>2. CASE ~Read(accepting)
    BY <2>2, Registers DEF N0
  <2> QED BY <2>1, <2>2
<1>3. N1' = IF Move0(accepting) THEN N1 - 1 ELSE N1
  <2>1. CASE Read(accepting)
    <3>1. stage0' # <<>>
      BY <2>1, Registers
    <3> QED BY <1>1, <1>2, <2>1, <3>1 DEF CountFacts, Read, Move0
  <2>2. CASE ~Read(accepting)
    BY <1>1, <1>2, <2>2, Registers DEF CountFacts, Move0
  <2> QED BY <2>1, <2>2
<1>4. N2' = IF Move1(accepting) THEN N2 - 1 ELSE N2
  BY <1>1, <1>3, Registers DEF CountFacts, Move0, Move1
<1>5. N3' = IF CanRoute(accepting) THEN N3 - 1 ELSE N3
  BY <1>1, <1>4, Registers DEF CountFacts, CanRoute, Move1
<1> QED BY <1>2, <1>3, <1>4, <1>5

\* An invocation keeps the order, and routes one beat or none.
LEMMA InvokeInPlace ==
    ASSUME TypeOK, InPlace, NEW accepting \in SUBSET Lanes, Invoke(accepting)
    PROVE  InPlace' /\ Routed' = IF CanRoute(accepting) THEN Routed + 1 ELSE Routed
<1>1. CountFacts
  BY Counts
<1>2. N3 <= Len(sent) /\ sent' = sent
  BY Registers DEF InPlace
<1>3. N3' <= Len(sent') /\ Routed' = IF CanRoute(accepting) THEN Routed + 1 ELSE Routed
  BY <1>1, <1>2, InvokeCounts DEF CountFacts, Routed
<1>4. \A i \in 1..N0' : ch_in'[i] = sent'[Len(sent') - N0' + i]
  <2>1. CASE Read(accepting)
    <3> SUFFICES ASSUME NEW i \in 1..N0'
                 PROVE  ch_in'[i] = sent'[Len(sent') - N0' + i]
      OBVIOUS
    <3>1. N0' = N0 - 1 /\ i + 1 \in 1..N0
      BY <1>1, <2>1, InvokeCounts DEF CountFacts
    <3>2. ch_in'[i] = ch_in[i + 1]
      <4>1. \A t \in Seq(Beats) : t # <<>> => \A k \in 1..Len(t) - 1 : Tail(t)[k] = t[k + 1]
        OBVIOUS
      <4>2. ch_in \in Seq(Beats) /\ ch_in # <<>> /\ ch_in' = Tail(ch_in)
        BY <2>1, Registers DEF Read, TypeOK
      <4>3. i \in 1..Len(ch_in) - 1
        BY <1>1, <3>1 DEF N0, CountFacts
      <4> QED BY <4>1, <4>2, <4>3
    <3>3. ch_in[i + 1] = sent[Len(sent) - N0 + (i + 1)]
      BY <3>1 DEF InPlace
    <3>4. Len(sent) - N0 + (i + 1) = Len(sent) - N0' + i
      BY <1>1, <3>1 DEF CountFacts
    <3> QED BY <1>2, <3>2, <3>3, <3>4
  <2>2. CASE ~Read(accepting)
    BY <1>2, <2>2, Registers, InvokeCounts DEF InPlace
  <2> QED BY <2>1, <2>2
<1>5. stage0' # <<>> => stage0'[1] = sent'[Len(sent') - N0']
  <2>1. CASE Read(accepting)
    <3>1. N0' = N0 - 1 /\ 1 \in 1..N0 /\ stage0'[1] = ch_in[1]
      BY <1>1, <2>1, InvokeCounts, Registers DEF CountFacts, Read, N0, TypeOK
    <3>2. ch_in[1] = sent[Len(sent) - N0 + 1] /\ Len(sent) - N0 + 1 = Len(sent) - N0'
      BY <1>1, <3>1 DEF InPlace, CountFacts
    <3> QED BY <1>2, <3>1, <3>2
  <2>2. CASE ~Read(accepting)
    BY <1>2, <2>2, Registers, InvokeCounts DEF InPlace
  <2> QED BY <2>1, <2>2
<1>6. stage1' # <<>> => stage1'[1] = sent'[Len(sent') - N1']
  <2>1. CASE Move0(accepting)
    <3>1. N1' = N0 /\ stage0 # <<>> /\ stage1' = stage0
      BY <1>1, <2>1, InvokeCounts, Registers DEF CountFacts, Move0
    <3> QED BY <1>2, <3>1 DEF InPlace
  <2>2. CASE ~Move0(accepting)
    BY <1>2, <2>2, Registers, InvokeCounts DEF InPlace
  <2> QED BY <2>1, <2>2
<1>7. stage2' # <<>> => stage2'[1] = sent'[Len(sent') - N2']
  <2>1. CASE Move1(accepting)
    <3>1. N2' = N1 /\ stage1 # <<>> /\ stage2' = stage1
      BY <1>1, <2>1, InvokeCounts, Registers DEF CountFacts, Move1
    <3> QED BY <1>2, <3>1 DEF InPlace
  <2>2. CASE ~Move1(accepting)
    BY <1>2, <2>2, Registers, InvokeCounts DEF InPlace
  <2> QED BY <2>1, <2>2
<1> QED BY <1>3, <1>4, <1>5, <1>6, <1>7 DEF InPlace

-----------------------------------------------------------------------------
(* The decision.                                                           *)

\* The beats in stage2 and stage1 are the next two to be routed.
NextTwo ==
    /\ Routed \in 0..Len(sent)
    /\ stage2 # <<>> => Routed + 1 \in 1..Len(sent) /\ stage2[1] = sent[Routed + 1]
    /\ stage2 # <<>> /\ stage1 # <<>> =>
         Routed + 2 \in 1..Len(sent) /\ stage1[1] = sent[Routed + 2]

\* The order of the registers gives the next two beats.
LEMMA NextTwoInPlace == TypeOK /\ InPlace => NextTwo
<1> SUFFICES ASSUME TypeOK, InPlace PROVE NextTwo
  OBVIOUS
<1>1. CountFacts /\ N3 <= Len(sent)
  BY Counts DEF InPlace
<1>2. Routed \in 0..Len(sent)
  BY <1>1 DEF CountFacts, Routed
<1>3. stage2 # <<>> => Routed + 1 \in 1..Len(sent) /\ Routed + 1 = Len(sent) - N2
  BY <1>1 DEF CountFacts, Routed
<1>4. stage2 # <<>> /\ stage1 # <<>> =>
        Routed + 2 \in 1..Len(sent) /\ Routed + 2 = Len(sent) - N1
  BY <1>1 DEF CountFacts, Routed
<1>5. stage2 # <<>> => stage2[1] = sent[Len(sent) - N2]
  BY DEF InPlace
<1>6. stage1 # <<>> => stage1[1] = sent[Len(sent) - N1]
  BY DEF InPlace
<1> QED BY <1>2, <1>3, <1>4, <1>5, <1>6 DEF NextTwo

\* A beat in stage2 between two frames begins a frame; otherwise it belongs to
\* the frame of the beat before; and a beat in stage1 goes on or begins one.
Neighbours ==
    /\ stage2 # <<>> /\ BetweenFrames => Sop(stage2[1])
    /\ stage2 # <<>> /\ ~BetweenFrames => stage2[1].pkt = sent[Routed].pkt
    /\ stage2 # <<>> /\ stage1 # <<>> => Follows(stage2[1], stage1[1])

\* The framing of the stream carries over to the registers.
LEMMA NeighboursFramed == TypeOK /\ InPlace /\ Framed(sent) => Neighbours
<1> SUFFICES ASSUME TypeOK, InPlace, Framed(sent) PROVE Neighbours
  OBVIOUS
<1>1. NextTwo
  BY NextTwoInPlace
<1>2. Len(sent) \in Nat
  BY DEF TypeOK
<1>3. \A i \in 1..Len(sent) - 1 : Follows(sent[i], sent[i + 1])
  BY DEF Framed, Contiguous
<1>4. stage2 # <<>> /\ Routed # 0 => Follows(sent[Routed], stage2[1])
  <2> SUFFICES ASSUME stage2 # <<>>, Routed # 0 PROVE Follows(sent[Routed], stage2[1])
    OBVIOUS
  <2>1. Routed \in 1..Len(sent) - 1
    BY <1>1, <1>2 DEF NextTwo
  <2> QED BY <1>1, <1>3, <2>1 DEF NextTwo
<1>5. stage2 # <<>> /\ Routed = 0 => Sop(stage2[1])
  <2> SUFFICES ASSUME stage2 # <<>>, Routed = 0 PROVE Sop(stage2[1])
    OBVIOUS
  <2>1. stage2[1] = sent[1] /\ 1 \in 1..Len(sent)
    BY <1>1 DEF NextTwo
  <2>2. sent # <<>>
    BY <2>1
  <2> QED BY <2>1, <2>2 DEF Framed
<1>6. stage2 # <<>> /\ stage1 # <<>> => Follows(stage2[1], stage1[1])
  <2> SUFFICES ASSUME stage2 # <<>>, stage1 # <<>> PROVE Follows(stage2[1], stage1[1])
    OBVIOUS
  <2>1. Routed + 1 \in 1..Len(sent) - 1 /\ Routed + 2 = (Routed + 1) + 1
    BY <1>1, <1>2 DEF NextTwo
  <2> QED BY <1>1, <1>3, <2>1 DEF NextTwo
<1> QED BY <1>4, <1>5, <1>6 DEF Neighbours, BetweenFrames, Follows

\* The beat that leaves stage2 goes to its frame's lane.
LEMMA RouteRight ==
    ASSUME IInv, stage2 # <<>>, output_state # HOLD
    PROVE  LaneOf(stage2[1].pkt) = output_state
<1>1. Neighbours
  BY NeighboursFramed DEF IInv
<1> QED BY <1>1 DEF IInv, Decided, Neighbours

\* A decision between two frames is the lane of the frame that comes next.
LEMMA DecideRight ==
    ASSUME Neighbours, BetweenFrames, Decide(stage2, stage1) # HOLD
    PROVE  stage2 # <<>> /\ LaneOf(stage2[1].pkt) = Decide(stage2, stage1)
<1>1. CASE stage2 # <<>> /\ Eop(stage2[1])
  <2>1. stage2[1].pkt.beats = 1
    BY <1>1 DEF Neighbours, Sop, Eop
  <2>2. Decide(stage2, stage1) = "OTHER"
    BY <1>1 DEF Decide
  <2> QED BY <1>1, <2>1, <2>2 DEF LaneOf
<1>2. CASE stage2 # <<>> /\ ~Eop(stage2[1]) /\ stage1 # <<>>
  <2>1. stage2[1].pkt.beats # 1 /\ stage1[1].pkt = stage2[1].pkt /\ stage1[1].n = 2
    BY <1>2 DEF Neighbours, Sop, Eop, Follows
  <2>2. Decide(stage2, stage1) = LaneOfEtype(EtypeField(stage1[1]))
    BY <1>2 DEF Decide
  <2> QED BY <1>2, <2>1, <2>2 DEF LaneOf, EtypeField
<1>3. CASE stage2 = <<>> \/ (~Eop(stage2[1]) /\ stage1 = <<>>)
  <2>1. Decide(stage2, stage1) = HOLD
    BY <1>3 DEF Decide
  <2> QED BY <2>1
<1> QED BY <1>1, <1>2, <1>3

-----------------------------------------------------------------------------
(* The steps preserve the invariant.                                       *)

\* The invariant holds with all registers empty.
LEMMA InitIInv == Init => IInv
<1> SUFFICES ASSUME Init PROVE IInv
  OBVIOUS
<1>1. TypeOK
  BY InitTypeOK
<1>2. N0 = 0 /\ N1 = 0 /\ N2 = 0 /\ N3 = 0 /\ Len(sent) = 0
  BY DEF Init, N0, N1, N2, N3
<1>3. InPlace
  BY <1>2 DEF Init, InPlace
<1>4. Framed(sent)
  BY <1>2 DEF Init, Framed, Contiguous
<1>5. Decided
  BY <1>2 DEF Init, Decided, BetweenFrames, Routed
<1>6. RegistersRight /\ RoutedToItsLane
  BY DEF Init, RegistersRight, RoutedToItsLane
<1> QED BY <1>1, <1>3, <1>4, <1>5, <1>6 DEF IInv

\* A write of the upstream bridge preserves the invariant.
LEMMA SupplyIInv ==
    ASSUME IInv, NEW b \in NextBeats(sent), Supply(b)
    PROVE  IInv'
<1>1. TypeOK'
  BY SupplyTypeOK DEF IInv
<1>2. Framed(sent')
  BY AppendFramed DEF IInv, TypeOK, Supply
<1>3. InPlace' /\ Routed' = Routed /\ \A i \in 1..Len(sent) : sent'[i] = sent[i]
  BY SupplyInPlace DEF IInv
<1>4. Decided'
  <2>1. Routed \in 0..Len(sent) /\ Len(sent) \in Nat
    BY NextTwoInPlace DEF IInv, NextTwo, TypeOK
  <2>2. Routed # 0 => sent'[Routed] = sent[Routed]
    BY <1>3, <2>1
  <2>3. BetweenFrames' = BetweenFrames
    BY <1>3, <2>2 DEF BetweenFrames
  <2>4. ~BetweenFrames => sent'[Routed'] = sent[Routed]
    BY <1>3, <2>2 DEF BetweenFrames
  <2> QED BY <2>3, <2>4 DEF IInv, Decided, Supply
<1>5. RegistersRight' /\ RoutedToItsLane'
  BY DEF IInv, RegistersRight, RoutedToItsLane, Supply
<1> QED BY <1>1, <1>2, <1>3, <1>4, <1>5 DEF IInv

\* After an invocation output_state is right for the beat to be routed next.
LEMMA InvokeDecided ==
    ASSUME IInv, NEW accepting \in SUBSET Lanes, Invoke(accepting)
    PROVE  Decided'
<1> DEFINE route == CanRoute(accepting)
           expected == output_state = HOLD \/ (route /\ Eop(stage2[1]))
<1>1. TypeOK' /\ InPlace' /\ sent' = sent
  BY InvokeTypeOK, InvokeInPlace, Registers DEF IInv
<1>2. Framed(sent)'
  BY <1>1 DEF IInv
<1>3. Neighbours'
  BY <1>1, <1>2, NeighboursFramed, PTL
<1>4. Routed' = IF route THEN Routed + 1 ELSE Routed
  BY InvokeInPlace DEF IInv
<1>5. route => stage2[1] = sent[Routed'] /\ Routed' # 0
  BY <1>4, NextTwoInPlace DEF IInv, NextTwo, CanRoute
<1>6. CASE expected
  <2>1. output_state' = Decide(stage2', stage1')
    BY <1>6 DEF Invoke
  <2>2. BetweenFrames'
    <3>1. CASE output_state = HOLD
      BY <1>1, <1>4, <3>1 DEF IInv, Decided, BetweenFrames, CanRoute
    <3>2. CASE route /\ Eop(stage2[1])
      BY <1>1, <1>5, <3>2 DEF BetweenFrames
    <3> QED BY <1>6, <3>1, <3>2
  <2>3. Neighbours /\ BetweenFrames /\ Decide(stage2, stage1) # HOLD
          => stage2 # <<>> /\ LaneOf(stage2[1].pkt) = Decide(stage2, stage1)
    BY DecideRight
  <2>4. (Neighbours /\ BetweenFrames /\ Decide(stage2, stage1) # HOLD
          => stage2 # <<>> /\ LaneOf(stage2[1].pkt) = Decide(stage2, stage1))'
    BY DecideRight, PTL
  <2> QED BY <1>3, <2>1, <2>2, <2>4 DEF Decided
<1>7. CASE ~expected /\ route
  <2>1. output_state' = output_state /\ output_state # HOLD
    BY <1>7 DEF Invoke
  <2>2. ~BetweenFrames'
    BY <1>1, <1>5, <1>7 DEF BetweenFrames
  <2>3. LaneOf(sent'[Routed'].pkt) = output_state
    BY <1>1, <1>5, <1>7, <2>1, RouteRight DEF CanRoute
  <2> QED BY <2>1, <2>2, <2>3 DEF Decided
<1>8. CASE ~expected /\ ~route
  <2>1. output_state' = output_state /\ output_state # HOLD
    BY <1>8 DEF Invoke
  <2>2. BetweenFrames' = BetweenFrames /\ sent'[Routed'] = sent[Routed]
    BY <1>1, <1>4, <1>8 DEF BetweenFrames
  <2>3. stage2 # <<>> => stage2' = stage2
    BY <1>8, Registers DEF Move1
  <2> QED BY <2>1, <2>2, <2>3 DEF IInv, Decided
<1> QED BY <1>6, <1>7, <1>8

\* An invocation preserves the invariant.
LEMMA InvokeIInv ==
    ASSUME IInv, NEW accepting \in SUBSET Lanes, Invoke(accepting)
    PROVE  IInv'
<1>1. TypeOK' /\ InPlace' /\ sent' = sent
  BY InvokeTypeOK, InvokeInPlace, Registers DEF IInv
<1>2. Framed(sent)'
  BY <1>1 DEF IInv
<1>3. Decided'
  BY InvokeDecided
<1>4. RegistersRight'
  <2> SUFFICES ASSUME NEW p \in Lanes, NEW i \in 1..Len(stage3'[p])
               PROVE  LaneOf(stage3'[p][i].pkt) = p
    BY DEF RegistersRight
  <2>1. CASE CanRoute(accepting) /\ p = output_state
    <3>1. stage3'[p] = stage2
      BY <2>1 DEF Invoke, Latch
    <3>2. stage2 \in Slot /\ stage2 # <<>> /\ output_state # HOLD
      BY <2>1 DEF CanRoute, IInv, TypeOK
    <3>3. i = 1
      <4>1. Len(stage2) = 1
        BY <3>2, SlotFacts
      <4> QED BY <3>1, <4>1
    <3> QED BY <2>1, <3>1, <3>2, <3>3, RouteRight
  <2>2. CASE ~(CanRoute(accepting) /\ p = output_state)
    <3>1. stage3'[p] = <<>> \/ stage3'[p] = stage3[p]
      BY <2>2 DEF Invoke, Latch
    <3> QED BY <3>1 DEF IInv, RegistersRight
  <2> QED BY <2>1, <2>2
<1>5. RoutedToItsLane'
  <2> SUFFICES ASSUME NEW p \in Lanes, NEW i \in 1..Len(out'[p])
               PROVE  LaneOf(out'[p][i].pkt) = p
    BY DEF RoutedToItsLane
  <2>1. CASE p \in accepting
    <3>1. out'[p] = out[p] \o stage3[p]
      BY <2>1 DEF Invoke
    <3>2. out[p] \in Seq(Beats) /\ stage3[p] \in Seq(Beats)
      BY DEF IInv, TypeOK, Slot
    <3>3. CASE i <= Len(out[p])
      <4>1. i \in 1..Len(out[p]) /\ out'[p][i] = out[p][i]
        BY <3>1, <3>2, <3>3
      <4> QED BY <4>1 DEF IInv, RoutedToItsLane
    <3>4. CASE i > Len(out[p])
      <4>1. i - Len(out[p]) \in 1..Len(stage3[p]) /\ out'[p][i] = stage3[p][i - Len(out[p])]
        <5>1. i \in 1..Len(out[p] \o stage3[p])
          BY <3>1
        <5>2. /\ i - Len(out[p]) \in 1..Len(stage3[p])
              /\ (out[p] \o stage3[p])[i] = stage3[p][i - Len(out[p])]
          BY <3>2, <3>4, <5>1, ConcatBeyond
        <5> QED BY <3>1, <5>2
      <4> QED BY <4>1 DEF IInv, RegistersRight
    <3> QED BY <3>2, <3>3, <3>4
  <2>2. CASE p \notin accepting
    <3>1. out'[p] = out[p]
      BY <2>2 DEF Invoke
    <3> QED BY <3>1 DEF IInv, RoutedToItsLane
  <2> QED BY <2>1, <2>2
<1> QED BY <1>1, <1>2, <1>3, <1>4, <1>5 DEF IInv

\* The invariant holds in every reachable state.
LEMMA IInvInvariant == Spec => []IInv
<1>1. IInv /\ [Next]_vars => IInv'
  <2> SUFFICES ASSUME IInv, [Next]_vars PROVE IInv'
    OBVIOUS
  <2>1. ASSUME NEW b \in NextBeats(sent), Supply(b) PROVE IInv'
    BY <2>1, SupplyIInv
  <2>2. ASSUME NEW accepting \in SUBSET Lanes, Invoke(accepting) PROVE IInv'
    BY <2>2, InvokeIInv
  <2>3. CASE UNCHANGED vars
    BY <2>3 DEF vars, IInv, TypeOK, InPlace, N0, N1, N2, N3, Decided, BetweenFrames,
                Routed, RegistersRight, RoutedToItsLane
  <2> QED BY <2>1, <2>2, <2>3 DEF Next
<1> QED BY <1>1, InitIInv, PTL DEF Spec

\* Every beat that leaves the splitter leaves on the lane of its frame, for
\* all packets, whatever bubbles the input has and however the lanes stall.
THEOREM RoutingCorrect == Spec => []RoutedToItsLane
<1>1. IInv => RoutedToItsLane
  BY DEF IInv
<1> QED BY <1>1, IInvInvariant, PTL

-----------------------------------------------------------------------------
(* One lane of a splitter: its beats stand at the places P of the stream   *)
(* s, of which k beats have been routed.                                   *)

\* What the lane has taken and what its register holds are its beats among
\* those routed; the one in the register comes after those it has taken.
LaneKept(P, s, k, taken, reg) ==
    /\ Ahead(P, k + 1) = Len(taken) + Len(reg)
    /\ reg # <<>> => \E i \in P : reg[1] = s[i] /\ Ahead(P, i) = Len(taken)

\* In a clock in which the lane's consumer takes what the register holds, or
\* does not, and the next beat of the stream comes to the register, or not.
LEMMA LaneStep ==
    ASSUME NEW S, NEW s \in Seq(S), NEW P \in SUBSET (1..Len(s)), NEW k \in Nat,
           NEW taken \in Seq(S), NEW reg \in Seq(S), Len(reg) <= 1,
           LaneKept(P, s, k, taken, reg),
           NEW take \in BOOLEAN, NEW load \in BOOLEAN,
           NEW taken2, taken2 = IF take THEN taken \o reg ELSE taken,
           NEW reg2, reg2 = IF load THEN <<s[k + 1]>> ELSE IF take THEN <<>> ELSE reg,
           NEW k2, load => k2 = k + 1 /\ k + 1 \in P /\ (take \/ reg = <<>>),
           ~load => k2 = k \/ (k2 = k + 1 /\ k + 1 \notin P)
    PROVE  LaneKept(P, s, k2, taken2, reg2)
<1>1. /\ Ahead(P, k + 1) = Len(taken) + Len(reg)
      /\ reg # <<>> => \E i \in P : reg[1] = s[i] /\ Ahead(P, i) = Len(taken)
  BY DEF LaneKept
<1>2. /\ Ahead(P, k + 1) \in Nat
      /\ Ahead(P, (k + 1) + 1) = IF k + 1 \in P THEN Ahead(P, k + 1) + 1 ELSE Ahead(P, k + 1)
  <2>1. Len(s) \in Nat /\ k + 1 \in Nat
    OBVIOUS
  <2> QED BY <2>1, AheadCounts
<1>3. Len(taken) \in Nat /\ Len(reg) \in Nat /\ (reg = <<>> => Len(reg) = 0)
      /\ Len(taken \o reg) = Len(taken) + Len(reg)
  OBVIOUS
<1>4. CASE load
  <2>1. Len(taken2) = Len(taken) + Len(reg)
    BY <1>3, <1>4
  <2>2. Len(reg2) = 1 /\ reg2[1] = s[k + 1]
    BY <1>4
  <2>3. k2 = k + 1 /\ k + 1 \in P
    BY <1>4
  <2>4. Ahead(P, k2 + 1) = Len(taken2) + Len(reg2)
    BY <1>1, <1>2, <2>1, <2>2, <2>3
  <2>5. reg2[1] = s[k2] /\ k2 \in P /\ Ahead(P, k2) = Len(taken2)
    BY <1>1, <2>1, <2>2, <2>3
  <2> QED BY <2>4, <2>5 DEF LaneKept
<1>5. CASE ~load /\ take
  <2>1. Len(taken2) = Len(taken) + Len(reg) /\ reg2 = <<>> /\ Len(reg2) = 0
    BY <1>3, <1>5
  <2>2. Ahead(P, k2 + 1) = Ahead(P, k + 1)
    BY <1>2, <1>5
  <2>3. \A a, b \in Nat : (a + b) + 0 = a + b
    OBVIOUS
  <2>4. Ahead(P, k2 + 1) = Len(taken2) + Len(reg2)
    <3>1. Len(taken2) + Len(reg2) = (Len(taken) + Len(reg)) + 0
      BY <2>1
    <3> QED BY <1>1, <1>3, <2>2, <2>3, <3>1
  <2> QED BY <2>1, <2>4 DEF LaneKept
<1>6. CASE ~load /\ ~take
  <2>1. taken2 = taken /\ reg2 = reg
    BY <1>6
  <2>2. Ahead(P, k2 + 1) = Ahead(P, k + 1)
    BY <1>2, <1>6
  <2> QED BY <1>1, <2>1, <2>2 DEF LaneKept
<1> QED BY <1>4, <1>5, <1>6

\* Nothing changes for the lane when the stream grows.
LEMMA LaneGrows ==
    ASSUME NEW S, NEW s \in Seq(S), NEW P \in SUBSET (1..Len(s)), NEW k \in 0..Len(s),
           NEW taken, NEW reg, LaneKept(P, s, k, taken, reg),
           NEW t, \A i \in 1..Len(s) : t[i] = s[i],
           NEW R, R = P \/ R = P \cup {Len(s) + 1}
    PROVE  LaneKept(R, t, k, taken, reg)
<1>1. Len(s) \in Nat
  OBVIOUS
<1>2. \A i \in 1..(Len(s) + 1) : Ahead(R, i) = Ahead(P, i)
  BY <1>1, AheadBehind
<1>3. k + 1 \in 1..(Len(s) + 1) /\ \A i \in P : i \in R /\ i \in 1..Len(s) /\ i \in 1..(Len(s) + 1)
  BY <1>1
<1> QED BY <1>2, <1>3 DEF LaneKept

\* What the lane's consumer takes from the register is the lane's next beat.
LEMMA LaneTakesNext ==
    ASSUME NEW S, NEW s \in Seq(S), NEW P \in SUBSET (1..Len(s)), NEW k,
           NEW taken \in Seq(S), NEW reg \in Seq(S), Len(reg) = 1,
           LaneKept(P, s, k, taken, reg)
    PROVE  /\ Len(taken) < Cardinality(P)
           /\ taken \o reg = Append(taken, s[CHOOSE i \in P : Ahead(P, i) = Len(taken)])
<1>1. reg # <<>> /\ reg[1] \in S /\ reg = <<reg[1]>>
  <2>1. Len(reg) <= 1 /\ reg # <<>>
    OBVIOUS
  <2>2. PICK e \in S : reg = <<e>>
    BY <2>1, OneElement
  <2> QED BY <2>1, <2>2
<1>2. PICK i \in P : reg[1] = s[i] /\ Ahead(P, i) = Len(taken)
  BY <1>1 DEF LaneKept
<1>3. Len(s) \in Nat
  OBVIOUS
<1>4. Len(taken) < Cardinality(P)
  <2>1. \A a \in P : Ahead(P, a) < Cardinality(P)
    BY <1>3, AheadCounts
  <2> QED BY <1>2, <2>1
<1>5. ASSUME NEW j \in P, Ahead(P, j) = Len(taken) PROVE j = i
  <2>1. \A a, b \in P : Ahead(P, a) = Ahead(P, b) => a = b
    BY <1>3, AheadCounts
  <2> QED BY <1>2, <1>5, <2>1
<1>6. (CHOOSE j \in P : Ahead(P, j) = Len(taken)) = i
  BY <1>2, <1>5
<1>7. taken \o reg = Append(taken, reg[1])
  <2>1. \A e \in S : taken \o <<e>> = Append(taken, e)
    OBVIOUS
  <2> QED BY <1>1, <2>1
<1> QED BY <1>2, <1>4, <1>6, <1>7

-----------------------------------------------------------------------------
(* The splitter implements the abstract one.                               *)

\* Where the beats of a lane stand in the stream, and what became of them.
LanePlaces(p) == {i \in 1..Len(sent) : LaneOf(sent[i].pkt) = p}
AllKept == \A p \in Lanes : LaneKept(LanePlaces(p), sent, Routed, out[p], stage3[p])

\* Before the first beat nothing is in the registers.
LEMMA InitAllKept == Init => AllKept
<1> SUFFICES ASSUME Init, NEW p \in Lanes
             PROVE  LaneKept(LanePlaces(p), sent, Routed, out[p], stage3[p])
  BY DEF AllKept
<1>1. sent = <<>> /\ out[p] = <<>> /\ stage3[p] = <<>> /\ Len(<<>>) = 0
  BY DEF Init
<1>2. Routed = 0
  <2>1. Len(sent) = 0 /\ Len(ch_in) = 0 /\ Len(stage0) = 0 /\ Len(stage1) = 0 /\ Len(stage2) = 0
    BY DEF Init
  <2> QED BY <2>1 DEF Routed, N3, N2, N1, N0
<1>3. LanePlaces(p) \in SUBSET (1..0)
  BY <1>1 DEF LanePlaces
<1>4. Ahead(LanePlaces(p), 1) = 0
  BY <1>3, AheadCounts
<1> QED BY <1>1, <1>2, <1>4 DEF LaneKept

\* A write adds a place at the end.
LEMMA SupplyAllKept ==
    ASSUME IInv, AllKept, NEW b \in NextBeats(sent), Supply(b)
    PROVE  AllKept'
<1> SUFFICES ASSUME NEW p \in Lanes
             PROVE  LaneKept(LanePlaces(p)', sent', Routed', out'[p], stage3'[p])
  BY DEF AllKept
<1>1. Routed' = Routed /\ Routed \in 0..Len(sent) /\ \A i \in 1..Len(sent) : sent'[i] = sent[i]
  BY SupplyInPlace, NextTwoInPlace DEF IInv, NextTwo
<1>2. sent \in Seq(Beats) /\ Len(sent) \in Nat /\ Len(sent') = Len(sent) + 1
  BY NextBeatsAreBeats DEF IInv, TypeOK, Supply
<1>3. out' = out /\ stage3' = stage3
  BY DEF Supply
<1>4. LanePlaces(p)' = LanePlaces(p) \/ LanePlaces(p)' = LanePlaces(p) \cup {Len(sent) + 1}
  <2>1. \A i : i \in 1..Len(sent') <=> i \in 1..Len(sent) \/ i = Len(sent) + 1
    BY <1>2
  <2> QED BY <1>1, <2>1 DEF LanePlaces
<1>5. LanePlaces(p) \in SUBSET (1..Len(sent))
  BY DEF LanePlaces
<1>6. LaneKept(LanePlaces(p), sent, Routed, out[p], stage3[p])
  BY DEF AllKept
<1>7. LaneKept(LanePlaces(p)', sent', Routed, out[p], stage3[p])
  BY <1>1, <1>2, <1>4, <1>5, <1>6, LaneGrows
<1> QED BY <1>1, <1>3, <1>7

\* An invocation moves the lanes' beats on.
LEMMA InvokeAllKept ==
    ASSUME IInv, AllKept, NEW accepting \in SUBSET Lanes, Invoke(accepting)
    PROVE  AllKept'
<1> SUFFICES ASSUME NEW p \in Lanes
             PROVE  LaneKept(LanePlaces(p)', sent', Routed', out'[p], stage3'[p])
  BY DEF AllKept
<1> DEFINE load == CanRoute(accepting) /\ p = output_state
           take == p \in accepting
<1>1. sent' = sent /\ LanePlaces(p)' = LanePlaces(p)
  BY Registers DEF LanePlaces
<1>2. /\ sent \in Seq(Beats) /\ Len(sent) \in Nat /\ out[p] \in Seq(Beats)
      /\ stage3[p] \in Seq(Beats) /\ Len(stage3[p]) <= 1
  BY DEF IInv, TypeOK, Slot
<1>3. LanePlaces(p) \in SUBSET (1..Len(sent)) /\ Routed \in Nat
  BY NextTwoInPlace DEF LanePlaces, IInv, NextTwo
<1>4. LaneKept(LanePlaces(p), sent, Routed, out[p], stage3[p])
  BY DEF AllKept
<1>5. out'[p] = IF take THEN out[p] \o stage3[p] ELSE out[p]
  BY DEF Invoke
<1>6. Routed' = IF CanRoute(accepting) THEN Routed + 1 ELSE Routed
  BY InvokeInPlace DEF IInv
<1>7. CanRoute(accepting) => /\ stage2 = <<sent[Routed + 1]>> /\ Routed + 1 \in 1..Len(sent)
                             /\ LaneOf(sent[Routed + 1].pkt) = output_state
  <2> SUFFICES ASSUME CanRoute(accepting)
               PROVE  /\ stage2 = <<sent[Routed + 1]>> /\ Routed + 1 \in 1..Len(sent)
                      /\ LaneOf(sent[Routed + 1].pkt) = output_state
    OBVIOUS
  <2>1. stage2 # <<>> /\ output_state # HOLD
    BY DEF CanRoute
  <2>2. stage2[1] = sent[Routed + 1] /\ Routed + 1 \in 1..Len(sent)
    BY <2>1, NextTwoInPlace DEF IInv, NextTwo
  <2>3. stage2 \in Seq(Beats) /\ Len(stage2) <= 1
    BY DEF IInv, TypeOK, Slot
  <2>4. PICK e \in Beats : stage2 = <<e>>
    BY <2>1, <2>3, OneElement
  <2> QED BY <2>1, <2>2, <2>4, RouteRight
<1>8. stage3'[p] = IF load THEN <<sent[Routed + 1]>> ELSE IF take THEN <<>> ELSE stage3[p]
  <2>1. stage3'[p] = IF load THEN stage2 ELSE IF take THEN <<>> ELSE stage3[p]
    BY DEF Invoke, Latch
  <2> QED BY <1>7, <2>1
<1>9. load => Routed' = Routed + 1 /\ Routed + 1 \in LanePlaces(p) /\ (take \/ stage3[p] = <<>>)
  BY <1>6, <1>7 DEF LanePlaces, CanRoute
<1>10. ~load => Routed' = Routed \/ (Routed' = Routed + 1 /\ Routed + 1 \notin LanePlaces(p))
  BY <1>6, <1>7 DEF LanePlaces
<1>11. load \in BOOLEAN /\ take \in BOOLEAN
  BY DEF CanRoute
<1> HIDE DEF load, take
<1>12. LaneKept(LanePlaces(p), sent, Routed', out'[p], stage3'[p])
  BY <1>2, <1>3, <1>4, <1>5, <1>8, <1>9, <1>10, <1>11, LaneStep
<1> QED BY <1>1, <1>12

\* A write of the splitter is one of the abstract splitter.
LEMMA SupplyWrites ==
    ASSUME IInv, NEW b \in NextBeats(sent), Supply(b)
    PROVE  Abstract!Write
<1>1. b \in Beats /\ sent \in Seq(Beats) /\ sent' = Append(sent, b) /\ out' = out
  BY NextBeatsAreBeats DEF IInv, TypeOK, Supply
<1>2. sent' = sent \o <<b>>
  BY <1>1
<1>3. sent' # <<>> /\ Len(sent') = Len(sent) + 1 /\ sent'[Len(sent) + 1] = b
  BY <1>1, <1>2, AppendOne
<1>4. Last(sent') = b
  BY <1>3 DEF Last
<1> QED BY <1>1, <1>3, <1>4 DEF Abstract!Write, Abstract!Last, Last

\* Counting means the same there.
LEMMA AbstractCounts == \A P : Abstract!Cardinality(P) = Cardinality(P)
BY DEF Abstract!Cardinality, Abstract!IsFiniteSet, Cardinality, IsFiniteSet

\* An invocation lets some lanes take their next beat, or none.
LEMMA InvokeTakes ==
    ASSUME IInv, AllKept, NEW accepting \in SUBSET Lanes, Invoke(accepting)
    PROVE  [Abstract!Next]_(Abstract!vars)
<1> DEFINE ps == {p \in accepting : stage3[p] # <<>>}
<1>1. sent' = sent /\ sent \in Seq(Beats)
  BY Registers DEF IInv, TypeOK
<1>2. out' = [p \in Lanes |-> IF p \in accepting THEN out[p] \o stage3[p] ELSE out[p]]
  BY DEF Invoke
<1>3. out \in [Lanes -> Seq(Beats)] /\ stage3 \in [Lanes -> Slot]
  BY DEF IInv, TypeOK
<1>4. ASSUME NEW p \in ps
      PROVE  p \in Abstract!Waiting /\ out[p] \o stage3[p] = Append(out[p], sent[Abstract!NextPlace(p)])
  <2>1. p \in Lanes /\ stage3[p] \in Slot /\ stage3[p] # <<>> /\ out[p] \in Seq(Beats)
    BY <1>3
  <2>2. stage3[p] \in Seq(Beats) /\ Len(stage3[p]) = 1
    BY <2>1, SlotFacts
  <2>3. LanePlaces(p) \in SUBSET (1..Len(sent)) /\ LanePlaces(p) = Abstract!PlacesOf(p)
    BY DEF LanePlaces, Abstract!PlacesOf
  <2>4. LaneKept(LanePlaces(p), sent, Routed, out[p], stage3[p])
    BY <2>1 DEF AllKept
  <2>5. /\ Len(out[p]) < Cardinality(LanePlaces(p))
        /\ out[p] \o stage3[p] = Append(out[p], sent[CHOOSE i \in LanePlaces(p) : Ahead(LanePlaces(p), i) = Len(out[p])])
    <3> DEFINE P == LanePlaces(p)
               taken == out[p]
               reg == stage3[p]
    <3>1. /\ P \in SUBSET (1..Len(sent)) /\ taken \in Seq(Beats) /\ reg \in Seq(Beats)
          /\ Len(reg) = 1 /\ LaneKept(P, sent, Routed, taken, reg)
      BY <2>1, <2>2, <2>3, <2>4
    <3> HIDE DEF P, taken, reg
    <3>2. /\ Len(taken) < Cardinality(P)
          /\ taken \o reg = Append(taken, sent[CHOOSE i \in P : Ahead(P, i) = Len(taken)])
      BY <1>1, <3>1, LaneTakesNext, ZenonT(40)
    <3> QED BY <3>2 DEF P, taken, reg
  <2>6. Abstract!NextPlace(p) = CHOOSE i \in LanePlaces(p) : Ahead(LanePlaces(p), i) = Len(out[p])
    <3>1. Abstract!NextPlace(p) =
            CHOOSE i \in LanePlaces(p) : Cardinality({j \in LanePlaces(p) : j < i}) = Len(out[p])
      BY AbstractCounts DEF Abstract!NextPlace, Abstract!PlacesOf, LanePlaces
    <3> QED BY <3>1 DEF Ahead
  <2>7. p \in Abstract!Waiting
    BY <2>1, <2>3, <2>5, AbstractCounts DEF Abstract!Waiting
  <2> QED BY <2>5, <2>6, <2>7
<1>5. ASSUME NEW p \in Lanes, p \notin ps
      PROVE  (IF p \in accepting THEN out[p] \o stage3[p] ELSE out[p]) = out[p]
  <2>1. p \in accepting => stage3[p] = <<>>
    BY <1>5
  <2>2. out[p] \in Seq(Beats) /\ (out[p] \in Seq(Beats) => out[p] \o <<>> = out[p])
    BY <1>3
  <2> QED BY <2>1, <2>2
<1>6. out' = [p \in Lanes |-> IF p \in ps THEN Append(out[p], sent[Abstract!NextPlace(p)]) ELSE out[p]]
  BY <1>2, <1>4, <1>5
<1>7. CASE ps = {}
  <2>1. out' = out
    BY <1>3, <1>6, <1>7
  <2> QED BY <1>1, <2>1 DEF Abstract!vars
<1>8. CASE ps # {}
  <2>1. Abstract!Take(ps)
    BY <1>1, <1>6, <1>8 DEF Abstract!Take
  <2>2. ps \in SUBSET Abstract!Waiting
    BY <1>4
  <2> QED BY <2>1, <2>2 DEF Abstract!Next
<1> QED BY <1>7, <1>8

\* A lane gets its frames complete, in order and once, whichever of the four registers a
\* beat waits in and whichever of the other lanes stall.
THEOREM SplitterImplementsDemux == Spec => ImplementsDemux
<1>1. Init => Abstract!Init
  BY DEF Init, Abstract!Init
<1>2. IInv /\ AllKept /\ [Next]_vars => AllKept' /\ [Abstract!Next]_(Abstract!vars)
  <2> SUFFICES ASSUME IInv, AllKept, [Next]_vars
               PROVE  AllKept' /\ [Abstract!Next]_(Abstract!vars)
    OBVIOUS
  <2>1. ASSUME NEW b \in NextBeats(sent), Supply(b)
        PROVE  AllKept' /\ [Abstract!Next]_(Abstract!vars)
    BY <2>1, SupplyAllKept, SupplyWrites DEF Abstract!Next
  <2>2. ASSUME NEW accepting \in SUBSET Lanes, Invoke(accepting)
        PROVE  AllKept' /\ [Abstract!Next]_(Abstract!vars)
    BY <2>2, InvokeAllKept, InvokeTakes
  <2>3. CASE UNCHANGED vars
    BY <2>3 DEF vars, AllKept, LanePlaces, Routed, N3, N2, N1, N0, Abstract!vars
  <2> QED BY <2>1, <2>2, <2>3 DEF Next
<1> QED BY <1>1, <1>2, InitAllKept, IInvInvariant, PTL DEF Spec, ImplementsDemux, Abstract!Spec

-----------------------------------------------------------------------------
(* The splitter by protocol.  Its registers are counted from the head: the *)
(* beat in p3 is the next one to be routed, the one in p2 the next after   *)
(* what is in p3, and so on.                                               *)

ProtoStream == INSTANCE L8Stream_proofs WITH
    Packets <- ProtoPackets, MaxSent <- MaxProtoSent

\* The number of beats that have been routed, and the places in p_sent of the
\* beats in p3, p2, p1, p0 and of the first one in the buffer.
PRouted == Len(p_sent) - Len(p_in) - Len(p0) - Len(p1) - Len(p2) - Len(p3)
At3 == PRouted + 1
At2 == At3 + Len(p3)
At1 == At2 + Len(p2)
At0 == At1 + Len(p1)
AtIn == At0 + Len(p0)

ProtoTypeOK ==
    /\ p_in \in Seq(Proto!Beats) /\ p_sent \in Seq(Proto!Beats)
    /\ p0 \in Proto!Slot /\ p1 \in Proto!Slot /\ p2 \in Proto!Slot /\ p3 \in Proto!Slot
    /\ p4 \in [Proto!Lanes -> Proto!Slot]
    /\ p_out \in [Proto!Lanes -> Seq(Proto!Beats)]
    /\ p_state \in Proto!Lanes \cup {Proto!HOLD}

ProtoInPlace ==
    /\ PRouted >= 0
    /\ p3 # <<>> => p3[1] = p_sent[At3]
    /\ p2 # <<>> => p2[1] = p_sent[At2]
    /\ p1 # <<>> => p1[1] = p_sent[At1]
    /\ p0 # <<>> => p0[1] = p_sent[At0]
    /\ \A i \in 1..Len(p_in) : p_in[i] = p_sent[AtIn + i - 1]

PBetweenFrames == PRouted = 0 \/ Proto!Eop(p_sent[PRouted])

ProtoDecided ==
    /\ p_state = Proto!HOLD => PBetweenFrames
    /\ p_state # Proto!HOLD =>
         IF PBetweenFrames
         THEN p3 # <<>> /\ Proto!LaneOf(p3[1].pkt) = p_state
         ELSE Proto!LaneOf(p_sent[PRouted].pkt) = p_state

ProtoRegistersRight ==
    \A l \in Proto!Lanes : \A i \in 1..Len(p4[l]) : Proto!LaneOf(p4[l][i].pkt) = l

ProtoInv ==
    /\ ProtoTypeOK
    /\ Proto!Framed(p_sent)
    /\ ProtoInPlace
    /\ ProtoDecided
    /\ ProtoRegistersRight
    /\ Proto!RoutedToItsLane

\* The beats an invocation moves.
PRoute(accepting) == Proto!CanRoute(accepting)
PMove2(accepting) == p2 # <<>> /\ (p3 = <<>> \/ PRoute(accepting))
PMove1(accepting) == p1 # <<>> /\ (p2 = <<>> \/ PMove2(accepting))
PMove0(accepting) == p0 # <<>> /\ (p1 = <<>> \/ PMove1(accepting))
PRead(accepting)  == p_in # <<>> /\ (p0 = <<>> \/ PMove0(accepting))

\* What an invocation leaves in the registers.
LEMMA ProtoRegisters ==
    ASSUME NEW accepting, Proto!Invoke(accepting)
    PROVE  /\ p3' = Latch(PMove2(accepting), p2, PRoute(accepting), p3)
           /\ p2' = Latch(PMove1(accepting), p1, PMove2(accepting), p2)
           /\ p1' = Latch(PMove0(accepting), p0, PMove1(accepting), p1)
           /\ p0' = Latch(PRead(accepting), FirstOf(p_in), PMove0(accepting), p0)
           /\ p_in' = IF PRead(accepting) THEN Tail(p_in) ELSE p_in
           /\ p_sent' = p_sent
BY DEF Proto!Invoke, Proto!Latch, Proto!FirstOf, Latch, FirstOf, PMove2, PMove1, PMove0, PRead, PRoute

\* A source of whole packets keeps the stream of the splitter by protocol framed.
LEMMA ProtoNextBeats ==
    ASSUME NEW s \in Seq(Proto!Beats), Proto!Framed(s), NEW b \in Proto!NextBeats(s)
    PROVE  b \in Proto!Beats /\ Proto!Framed(Append(s, b))
<1>1. /\ \A c : Proto!Sop(c) <=> ProtoStream!Sop(c)
      /\ \A c : Proto!Eop(c) <=> ProtoStream!Eop(c)
      /\ \A t : Proto!Last(t) = ProtoStream!Last(t)
  BY DEF Proto!Sop, ProtoStream!Sop, Proto!Eop, ProtoStream!Eop, Proto!Last, ProtoStream!Last
<1>2. \A c, d : Proto!Follows(c, d) <=> ProtoStream!Follows(c, d)
  BY <1>1 DEF Proto!Follows, ProtoStream!Follows
<1>3. \A t : Proto!Framed(t) <=> ProtoStream!Framed(t)
  BY <1>1, <1>2 DEF Proto!Framed, ProtoStream!Framed, Proto!Contiguous, ProtoStream!Contiguous
<1>4. \A t : Proto!AtBoundary(t) <=> ProtoStream!AtBoundary(t)
  BY <1>1 DEF Proto!AtBoundary, ProtoStream!AtBoundary
<1>5. \A t : Proto!NextBeats(t) = ProtoStream!NextBeats(t)
  BY <1>1, <1>4, Zenon DEF Proto!NextBeats, ProtoStream!NextBeats
<1>6. Proto!Beats = ProtoStream!Beats
  BY DEF Proto!Beats, ProtoStream!Beats
<1> QED BY <1>3, <1>5, <1>6, ProtoStream!NextBeatsAreBeats, ProtoStream!AppendFramed,
           ProtoAssumption, DepthAssumption

\* A register is empty or holds one beat.
LEMMA ProtoSlotFacts ==
    ASSUME NEW s \in Proto!Slot
    PROVE  /\ s \in Seq(Proto!Beats) /\ Len(s) <= 1 /\ Len(s) \in Nat
           /\ s = <<>> => Len(s) = 0
           /\ s # <<>> => Len(s) = 1 /\ s[1] \in Proto!Beats
<1>1. s \in Seq(Proto!Beats) /\ Len(s) <= 1 /\ Len(s) \in Nat
  BY DEF Proto!Slot
<1>2. \A n \in Nat : n <= 1 => n = 0 \/ n = 1
  OBVIOUS
<1>3. s # <<>> => Len(s) # 0
  BY <1>1
<1>4. s # <<>> => Len(s) = 1
  BY <1>1, <1>2, <1>3
<1>5. Len(s) = 1 => s[1] \in Proto!Beats
  BY <1>1
<1>6. s = <<>> => Len(s) = 0
  OBVIOUS
<1> QED BY <1>1, <1>4, <1>5, <1>6

\* The places are numbers, and the last beat in the buffer is the last one sent.
LEMMA ProtoPlaces ==
    ASSUME ProtoTypeOK, ProtoInPlace
    PROVE  /\ PRouted \in Nat /\ At3 \in Nat /\ At2 \in Nat /\ At1 \in Nat /\ At0 \in Nat /\ AtIn \in Nat
           /\ Len(p_sent) \in Nat /\ Len(p_in) \in Nat
           /\ AtIn + Len(p_in) = Len(p_sent) + 1
           /\ At3 <= At2 /\ At2 <= At1 /\ At1 <= At0 /\ At0 <= AtIn
           /\ p3 # <<>> => At2 = At3 + 1
           /\ p2 # <<>> => At1 = At2 + 1
           /\ p1 # <<>> => At0 = At1 + 1
           /\ p0 # <<>> => AtIn = At0 + 1
<1> DEFINE n == Len(p_sent)
           c == Len(p_in)
           z0 == Len(p0)
           z1 == Len(p1)
           z2 == Len(p2)
           z3 == Len(p3)
<1>1. n \in Nat /\ c \in Nat
  BY DEF ProtoTypeOK
<1>2. /\ z0 \in Nat /\ (p0 # <<>> => z0 = 1)
      /\ z1 \in Nat /\ (p1 # <<>> => z1 = 1)
      /\ z2 \in Nat /\ (p2 # <<>> => z2 = 1)
      /\ z3 \in Nat /\ (p3 # <<>> => z3 = 1)
  BY ProtoSlotFacts DEF ProtoTypeOK
<1>3. PRouted = n - c - z0 - z1 - z2 - z3 /\ PRouted >= 0
  BY DEF PRouted, ProtoInPlace
<1>4. At3 = PRouted + 1 /\ At2 = At3 + z3 /\ At1 = At2 + z2 /\ At0 = At1 + z1 /\ AtIn = At0 + z0
  BY DEF At3, At2, At1, At0, AtIn
<1> HIDE DEF n, c, z0, z1, z2, z3
<1> QED BY <1>1, <1>2, <1>3, <1>4 DEF n, c

\* The types are kept.
LEMMA ProtoTypeStep ==
    ASSUME ProtoInv, [Proto!Next]_(Proto!vars)
    PROVE  ProtoTypeOK' /\ Proto!Framed(p_sent)'
<1>1. p_in \in Seq(Proto!Beats) /\ p_sent \in Seq(Proto!Beats) /\ Proto!Framed(p_sent)
  BY DEF ProtoInv, ProtoTypeOK
<1>2. ASSUME NEW b \in Proto!NextBeats(p_sent), Proto!Supply(b)
      PROVE  ProtoTypeOK' /\ Proto!Framed(p_sent)'
  <2>1. b \in Proto!Beats /\ Proto!Framed(Append(p_sent, b))
    BY <1>1, ProtoNextBeats
  <2>2. p_in' \in Seq(Proto!Beats) /\ p_sent' \in Seq(Proto!Beats)
    BY <1>1, <1>2, <2>1 DEF Proto!Supply
  <2>3. UNCHANGED <<p0, p1, p2, p3, p4, p_state, p_out>> /\ p_sent' = Append(p_sent, b)
    BY <1>2 DEF Proto!Supply
  <2> QED BY <2>1, <2>2, <2>3 DEF ProtoInv, ProtoTypeOK
<1>3. ASSUME NEW accepting \in SUBSET Proto!Lanes, Proto!Invoke(accepting)
      PROVE  ProtoTypeOK' /\ Proto!Framed(p_sent)'
  <2>1. p_in' \in Seq(Proto!Beats) /\ p_sent' = p_sent
    <3>1. PRead(accepting) => Tail(p_in) \in Seq(Proto!Beats)
      BY <1>1 DEF PRead
    <3> QED BY <1>1, <1>3, <3>1, ProtoRegisters
  <2>2. <<>> \in Proto!Slot /\ FirstOf(p_in) \in Proto!Slot
    <3>1. p_in # <<>> => p_in[1] \in Proto!Beats
      BY <1>1
    <3> QED BY <3>1 DEF FirstOf, Proto!Slot
  <2>3. p0' \in Proto!Slot /\ p1' \in Proto!Slot /\ p2' \in Proto!Slot /\ p3' \in Proto!Slot
    BY <1>3, <2>2, ProtoRegisters DEF Latch, ProtoInv, ProtoTypeOK
  <2>4. /\ p4' = [l \in Proto!Lanes |->
                    Proto!Latch(Proto!CanRoute(accepting) /\ l = p_state, p3, l \in accepting, p4[l])]
        /\ p_out' = [l \in Proto!Lanes |-> IF l \in accepting THEN p_out[l] \o p4[l] ELSE p_out[l]]
    BY <1>3, Zenon DEF Proto!Invoke
  <2>5. p4' \in [Proto!Lanes -> Proto!Slot]
    BY <2>2, <2>4 DEF Proto!Latch, ProtoInv, ProtoTypeOK
  <2>6. p_out' \in [Proto!Lanes -> Seq(Proto!Beats)]
    <3>1. \A l \in Proto!Lanes : p_out[l] \o p4[l] \in Seq(Proto!Beats)
      <4> TAKE l \in Proto!Lanes
      <4>1. p_out[l] \in Seq(Proto!Beats) /\ p4[l] \in Seq(Proto!Beats)
        BY ProtoSlotFacts DEF ProtoInv, ProtoTypeOK
      <4> QED BY <4>1
    <3> QED BY <2>4, <3>1 DEF ProtoInv, ProtoTypeOK
  <2>7. p_state' \in Proto!Lanes \cup {Proto!HOLD}
    <3>1. \A t, u, v : Proto!Decide(t, u, v) \in Proto!Lanes \cup {Proto!HOLD}
      BY DEF Proto!Decide, Proto!LaneOfProto, Proto!Lanes, Proto!HOLD
    <3>2. p_state' = p_state \/ p_state' = Proto!Decide(p3', p2', p1')
      BY <1>3 DEF Proto!Invoke
    <3> QED BY <3>1, <3>2 DEF ProtoInv, ProtoTypeOK
  <2> QED BY <1>1, <2>1, <2>3, <2>5, <2>6, <2>7 DEF ProtoTypeOK
<1>4. CASE UNCHANGED Proto!vars
  BY <1>4 DEF Proto!vars, ProtoInv, ProtoTypeOK
<1> QED BY <1>2, <1>3, <1>4 DEF Proto!Next

\* A beat that is written goes to the end.
LEMMA ProtoSupplyInPlace ==
    ASSUME ProtoTypeOK, ProtoInPlace, NEW b \in Proto!Beats, Proto!Supply(b)
    PROVE  ProtoInPlace' /\ PRouted' = PRouted /\ \A i \in 1..Len(p_sent) : p_sent'[i] = p_sent[i]
<1> DEFINE n == Len(p_sent)
           c == Len(p_in)
<1>1. /\ p_sent' = Append(p_sent, b) /\ p_in' = Append(p_in, b)
      /\ UNCHANGED <<p0, p1, p2, p3>>
  BY DEF Proto!Supply
<1>2. /\ Len(p_sent') = n + 1 /\ p_sent'[n + 1] = b /\ \A i \in 1..n : p_sent'[i] = p_sent[i]
      /\ Len(p_in') = c + 1 /\ p_in'[c + 1] = b /\ \A i \in 1..c : p_in'[i] = p_in[i]
  BY <1>1 DEF ProtoTypeOK
<1>3. PRouted' = PRouted
  <2>1. /\ n \in Int /\ c \in Int /\ Len(p0) \in Int /\ Len(p1) \in Int
        /\ Len(p2) \in Int /\ Len(p3) \in Int
    BY ProtoSlotFacts DEF ProtoTypeOK
  <2>2. PRouted' = Len(p_sent') - Len(p_in') - Len(p0) - Len(p1) - Len(p2) - Len(p3)
    BY <1>1 DEF PRouted
  <2>3. \A i, j, k, l, m, o \in Int : (i + 1) - (j + 1) - k - l - m - o = i - j - k - l - m - o
    OBVIOUS
  <2> QED BY <1>2, <2>1, <2>2, <2>3 DEF PRouted
<1>4. At3' = At3 /\ At2' = At2 /\ At1' = At1 /\ At0' = At0 /\ AtIn' = AtIn
  BY <1>1, <1>3 DEF At3, At2, At1, At0, AtIn
<1>5. /\ PRouted \in Nat /\ At3 \in Nat /\ At2 \in Nat /\ At1 \in Nat /\ At0 \in Nat /\ AtIn \in Nat
      /\ n \in Nat /\ c \in Nat /\ AtIn + c = n + 1 /\ At3 >= 1
      /\ At3 <= At2 /\ At2 <= At1 /\ At1 <= At0 /\ At0 <= AtIn
      /\ p3 # <<>> => At2 = At3 + 1
      /\ p2 # <<>> => At1 = At2 + 1
      /\ p1 # <<>> => At0 = At1 + 1
      /\ p0 # <<>> => AtIn = At0 + 1
  BY ProtoPlaces DEF At3
<1>6. /\ p3 # <<>> => p3[1] = p_sent[At3]
      /\ p2 # <<>> => p2[1] = p_sent[At2]
      /\ p1 # <<>> => p1[1] = p_sent[At1]
      /\ p0 # <<>> => p0[1] = p_sent[At0]
      /\ \A i \in 1..c : p_in[i] = p_sent[AtIn + i - 1]
  BY DEF ProtoInPlace
<1> HIDE DEF n, c
<1>7. /\ p3 # <<>> => At3 \in 1..n
      /\ p2 # <<>> => At2 \in 1..n
      /\ p1 # <<>> => At1 \in 1..n
      /\ p0 # <<>> => At0 \in 1..n
  BY <1>5
<1>8. ASSUME NEW i \in 1..Len(p_in') PROVE p_in'[i] = p_sent'[AtIn + i - 1]
  <2>1. CASE i \in 1..c
    <3>1. AtIn + i - 1 \in 1..n
      BY <1>5, <2>1
    <3> QED BY <1>2, <1>6, <2>1, <3>1
  <2>2. CASE i = c + 1
    <3>1. AtIn + i - 1 = n + 1
      BY <1>5, <2>2
    <3> QED BY <1>2, <2>2, <3>1
  <2> QED BY <1>2, <1>5, <2>1, <2>2
<1>9. ProtoInPlace'
  BY <1>1, <1>2, <1>3, <1>4, <1>5, <1>6, <1>7, <1>8 DEF ProtoInPlace
<1> QED BY <1>2, <1>3, <1>9 DEF n

\* An invocation keeps the order, and routes one beat or none.
LEMMA ProtoInvokeInPlace ==
    ASSUME ProtoTypeOK, ProtoInPlace, NEW accepting \in SUBSET Proto!Lanes, Proto!Invoke(accepting)
    PROVE  ProtoInPlace' /\ PRouted' = IF PRoute(accepting) THEN PRouted + 1 ELSE PRouted
<1> DEFINE g3 == IF PRoute(accepting) THEN 1 ELSE 0
           g2 == IF PMove2(accepting) THEN 1 ELSE 0
           g1 == IF PMove1(accepting) THEN 1 ELSE 0
           g0 == IF PMove0(accepting) THEN 1 ELSE 0
           gIn == IF PRead(accepting) THEN 1 ELSE 0
<1>1. /\ p3' = Latch(PMove2(accepting), p2, PRoute(accepting), p3)
      /\ p2' = Latch(PMove1(accepting), p1, PMove2(accepting), p2)
      /\ p1' = Latch(PMove0(accepting), p0, PMove1(accepting), p1)
      /\ p0' = Latch(PRead(accepting), FirstOf(p_in), PMove0(accepting), p0)
      /\ p_in' = IF PRead(accepting) THEN Tail(p_in) ELSE p_in
      /\ p_sent' = p_sent
  BY ProtoRegisters
<1>2. /\ PRouted \in Nat /\ At3 \in Nat /\ At2 \in Nat /\ At1 \in Nat /\ At0 \in Nat /\ AtIn \in Nat
      /\ Len(p_sent) \in Nat /\ Len(p_in) \in Nat
      /\ AtIn + Len(p_in) = Len(p_sent) + 1
  BY ProtoPlaces
<1>3. /\ p3 # <<>> => p3[1] = p_sent[At3]
      /\ p2 # <<>> => p2[1] = p_sent[At2]
      /\ p1 # <<>> => p1[1] = p_sent[At1]
      /\ p0 # <<>> => p0[1] = p_sent[At0]
      /\ \A i \in 1..Len(p_in) : p_in[i] = p_sent[AtIn + i - 1]
  BY DEF ProtoInPlace
<1>4. At3 = PRouted + 1 /\ At2 = At3 + Len(p3) /\ At1 = At2 + Len(p2) /\ At0 = At1 + Len(p1) /\ AtIn = At0 + Len(p0)
  BY DEF At3, At2, At1, At0, AtIn
<1>5. /\ p0 \in Seq(Proto!Beats) /\ Len(p0) <= 1 /\ p1 \in Seq(Proto!Beats) /\ Len(p1) <= 1
      /\ p2 \in Seq(Proto!Beats) /\ Len(p2) <= 1 /\ p3 \in Seq(Proto!Beats) /\ Len(p3) <= 1
      /\ Len(p0) \in Nat /\ Len(p1) \in Nat /\ Len(p2) \in Nat /\ Len(p3) \in Nat
  BY ProtoSlotFacts DEF ProtoTypeOK
<1>6. PRoute(accepting) \in BOOLEAN /\ (PRoute(accepting) => p3 # <<>>)
  BY DEF PRoute, Proto!CanRoute
<1>7. /\ p3' # <<>> => p3'[1] = p_sent[At3 + g3]
      /\ Len(p3') = Len(p3) + g2 - g3
  <2>1. PMove2(accepting) \in BOOLEAN /\ (PMove2(accepting) => p2 # <<>> /\ (p3 = <<>> \/ PRoute(accepting)))
    BY DEF PMove2
  <2>2. p2 # <<>> => p2[1] = p_sent[At3 + Len(p3)]
    BY <1>3, <1>4
  <2>4. /\ p3 \in Seq(Proto!Beats) /\ Len(p3) <= 1 /\ p2 \in Seq(Proto!Beats) /\ Len(p2) <= 1
        /\ At3 \in Nat /\ (p3 # <<>> => p3[1] = p_sent[At3])
    BY <1>2, <1>3, <1>5
  <2>5. p3' = Latch(PMove2(accepting), p2, PRoute(accepting), p3)
    BY <1>1
  <2>6. /\ Latch(PMove2(accepting), p2, PRoute(accepting), p3) # <<>>
          => Latch(PMove2(accepting), p2, PRoute(accepting), p3)[1]
               = p_sent[At3 + (IF PRoute(accepting) THEN 1 ELSE 0)]
        /\ Len(Latch(PMove2(accepting), p2, PRoute(accepting), p3))
             = Len(p3) + (IF PMove2(accepting) THEN 1 ELSE 0) - (IF PRoute(accepting) THEN 1 ELSE 0)
    BY <2>1, <2>2, <2>4, <1>6, RegisterMoves
  <2> QED BY <2>5, <2>6
<1>8. /\ p2' # <<>> => p2'[1] = p_sent[At2 + g2]
      /\ Len(p2') = Len(p2) + g1 - g2
  <2>1. /\ PMove2(accepting) \in BOOLEAN /\ (PMove2(accepting) => p2 # <<>>)
        /\ PMove1(accepting) \in BOOLEAN /\ (PMove1(accepting) => p1 # <<>> /\ (p2 = <<>> \/ PMove2(accepting)))
    BY DEF PMove2, PMove1
  <2>2. p1 # <<>> => p1[1] = p_sent[At2 + Len(p2)]
    BY <1>3, <1>4
  <2>4. /\ p2 \in Seq(Proto!Beats) /\ Len(p2) <= 1 /\ p1 \in Seq(Proto!Beats) /\ Len(p1) <= 1
        /\ At2 \in Nat /\ (p2 # <<>> => p2[1] = p_sent[At2])
    BY <1>2, <1>3, <1>5
  <2>5. p2' = Latch(PMove1(accepting), p1, PMove2(accepting), p2)
    BY <1>1
  <2>6. /\ Latch(PMove1(accepting), p1, PMove2(accepting), p2) # <<>>
          => Latch(PMove1(accepting), p1, PMove2(accepting), p2)[1]
               = p_sent[At2 + (IF PMove2(accepting) THEN 1 ELSE 0)]
        /\ Len(Latch(PMove1(accepting), p1, PMove2(accepting), p2))
             = Len(p2) + (IF PMove1(accepting) THEN 1 ELSE 0) - (IF PMove2(accepting) THEN 1 ELSE 0)
    BY <2>1, <2>2, <2>4, RegisterMoves
  <2> QED BY <2>5, <2>6
<1>9. /\ p1' # <<>> => p1'[1] = p_sent[At1 + g1]
      /\ Len(p1') = Len(p1) + g0 - g1
  <2>1. /\ PMove1(accepting) \in BOOLEAN /\ (PMove1(accepting) => p1 # <<>>)
        /\ PMove0(accepting) \in BOOLEAN /\ (PMove0(accepting) => p0 # <<>> /\ (p1 = <<>> \/ PMove1(accepting)))
    BY DEF PMove1, PMove0
  <2>2. p0 # <<>> => p0[1] = p_sent[At1 + Len(p1)]
    BY <1>3, <1>4
  <2>4. /\ p1 \in Seq(Proto!Beats) /\ Len(p1) <= 1 /\ p0 \in Seq(Proto!Beats) /\ Len(p0) <= 1
        /\ At1 \in Nat /\ (p1 # <<>> => p1[1] = p_sent[At1])
    BY <1>2, <1>3, <1>5
  <2>5. p1' = Latch(PMove0(accepting), p0, PMove1(accepting), p1)
    BY <1>1
  <2>6. /\ Latch(PMove0(accepting), p0, PMove1(accepting), p1) # <<>>
          => Latch(PMove0(accepting), p0, PMove1(accepting), p1)[1]
               = p_sent[At1 + (IF PMove1(accepting) THEN 1 ELSE 0)]
        /\ Len(Latch(PMove0(accepting), p0, PMove1(accepting), p1))
             = Len(p1) + (IF PMove0(accepting) THEN 1 ELSE 0) - (IF PMove1(accepting) THEN 1 ELSE 0)
    BY <2>1, <2>2, <2>4, RegisterMoves
  <2> QED BY <2>5, <2>6
<1>10. /\ p0' # <<>> => p0'[1] = p_sent[At0 + g0]
       /\ Len(p0') = Len(p0) + gIn - g0
  <2>1. /\ PMove0(accepting) \in BOOLEAN /\ (PMove0(accepting) => p0 # <<>>)
        /\ PRead(accepting) \in BOOLEAN /\ (PRead(accepting) => p_in # <<>> /\ (p0 = <<>> \/ PMove0(accepting)))
    BY DEF PMove0, PRead
  <2>2. /\ FirstOf(p_in) \in Seq(Proto!Beats) /\ Len(FirstOf(p_in)) <= 1
        /\ p_in # <<>> => FirstOf(p_in) # <<>> /\ FirstOf(p_in)[1] = p_in[1] /\ 1 \in 1..Len(p_in)
        /\ p_in = <<>> => FirstOf(p_in) = <<>>
    BY DEF FirstOf, ProtoTypeOK
  <2>3. FirstOf(p_in) # <<>> => FirstOf(p_in)[1] = p_sent[At0 + Len(p0)]
    <3>1. AtIn + 1 - 1 = At0 + Len(p0)
      BY <1>2, <1>4, <1>5
    <3> QED BY <1>3, <2>2, <3>1
  <2>4. /\ p0 \in Seq(Proto!Beats) /\ Len(p0) <= 1
        /\ At0 \in Nat /\ (p0 # <<>> => p0[1] = p_sent[At0])
    BY <1>2, <1>3, <1>5
  <2>5. p0' = Latch(PRead(accepting), FirstOf(p_in), PMove0(accepting), p0)
    BY <1>1
  <2>6. /\ Latch(PRead(accepting), FirstOf(p_in), PMove0(accepting), p0) # <<>>
          => Latch(PRead(accepting), FirstOf(p_in), PMove0(accepting), p0)[1]
               = p_sent[At0 + (IF PMove0(accepting) THEN 1 ELSE 0)]
        /\ Len(Latch(PRead(accepting), FirstOf(p_in), PMove0(accepting), p0))
             = Len(p0) + (IF PRead(accepting) THEN 1 ELSE 0) - (IF PMove0(accepting) THEN 1 ELSE 0)
    BY <2>1, <2>2, <2>3, <2>4, RegisterMoves, SMTT(30)
  <2> QED BY <2>5, <2>6
<1>11. /\ gIn \in Nat /\ Len(p_in') = Len(p_in) - gIn
       /\ \A i \in 1..Len(p_in') : i + gIn \in 1..Len(p_in) /\ p_in'[i] = p_in[i + gIn]
  <2>1. CASE PRead(accepting)
    <3>1. p_in \in Seq(Proto!Beats) /\ p_in # <<>> /\ p_in' = Tail(p_in) /\ gIn = 1
      BY <1>1, <2>1 DEF PRead, ProtoTypeOK
    <3> HIDE DEF gIn
    <3>2. Len(Tail(p_in)) = Len(p_in) - 1 /\ \A i \in 1..Len(p_in) - 1 : Tail(p_in)[i] = p_in[i + 1]
      BY <3>1
    <3> QED BY <1>2, <3>1, <3>2
  <2>2. CASE ~PRead(accepting)
    <3>1. p_in' = p_in /\ gIn = 0
      BY <1>1, <2>2
    <3> HIDE DEF gIn
    <3> QED BY <1>2, <3>1
  <2> QED BY <2>1, <2>2
<1>12. g3 \in Nat /\ g2 \in Nat /\ g1 \in Nat /\ g0 \in Nat
  OBVIOUS
<1> HIDE DEF g3, g2, g1, g0, gIn
<1>13. PRouted' = PRouted + g3
  <2>1. PRouted' = Len(p_sent) - Len(p_in') - Len(p0') - Len(p1') - Len(p2') - Len(p3')
    BY <1>1 DEF PRouted
  <2>2. PRouted = Len(p_sent) - Len(p_in) - Len(p0) - Len(p1) - Len(p2) - Len(p3)
    BY DEF PRouted
  <2>3. /\ Len(p_sent) \in Nat /\ Len(p_in) \in Nat /\ Len(p0) \in Nat /\ Len(p1) \in Nat
        /\ Len(p2) \in Nat /\ Len(p3) \in Nat
        /\ g0 \in Nat /\ g1 \in Nat /\ g2 \in Nat /\ g3 \in Nat /\ gIn \in Nat
    BY <1>2, <1>5, <1>11, <1>12
  <2>4. /\ Len(p_in') = Len(p_in) - gIn /\ Len(p0') = Len(p0) + gIn - g0 /\ Len(p1') = Len(p1) + g0 - g1
        /\ Len(p2') = Len(p2) + g1 - g2 /\ Len(p3') = Len(p3) + g2 - g3
    BY <1>7, <1>8, <1>9, <1>10, <1>11
  <2>5. \A n, c, z0, z1, z2, z3, h0, h1, h2, h3, h \in Nat :
          n - (c - h) - (z0 + h - h0) - (z1 + h0 - h1) - (z2 + h1 - h2) - (z3 + h2 - h3)
            = (n - c - z0 - z1 - z2 - z3) + h3
    OBVIOUS
  <2> QED BY <2>1, <2>2, <2>3, <2>4, <2>5
<1>14. At3' = At3 + g3 /\ At2' = At2 + g2 /\ At1' = At1 + g1 /\ At0' = At0 + g0 /\ AtIn' = AtIn + gIn
  <2>1. /\ At3' = PRouted' + 1 /\ At2' = At3' + Len(p3') /\ At1' = At2' + Len(p2')
        /\ At0' = At1' + Len(p1') /\ AtIn' = At0' + Len(p0')
    BY DEF At3, At2, At1, At0, AtIn
  <2>2. \A x, z, g, h \in Nat : (x + g) + (z + h - g) = (x + z) + h
    OBVIOUS
  <2>3. At3' = At3 + g3
    BY <1>2, <1>4, <1>12, <1>13, <2>1
  <2>4. At2' = At2 + g2
    <3>1. At2' = (At3 + g3) + (Len(p3) + g2 - g3)
      BY <1>7, <2>1, <2>3
    <3> QED BY <1>2, <1>4, <1>5, <1>12, <2>2, <3>1
  <2>5. At1' = At1 + g1
    <3>1. At1' = (At2 + g2) + (Len(p2) + g1 - g2)
      BY <1>8, <2>1, <2>4
    <3> QED BY <1>2, <1>4, <1>5, <1>12, <2>2, <3>1
  <2>6. At0' = At0 + g0
    <3>1. At0' = (At1 + g1) + (Len(p1) + g0 - g1)
      BY <1>9, <2>1, <2>5
    <3> QED BY <1>2, <1>4, <1>5, <1>12, <2>2, <3>1
  <2>7. AtIn' = AtIn + gIn
    <3>1. AtIn' = (At0 + g0) + (Len(p0) + gIn - g0)
      BY <1>10, <2>1, <2>6
    <3> QED BY <1>2, <1>4, <1>5, <1>11, <1>12, <2>2, <3>1
  <2> QED BY <2>3, <2>4, <2>5, <2>6, <2>7
<1>15. \A i \in 1..Len(p_in') : p_in'[i] = p_sent[AtIn' + i - 1]
  <2> TAKE i \in 1..Len(p_in')
  <2>1. AtIn + (i + gIn) - 1 = AtIn' + i - 1
    BY <1>2, <1>11, <1>14
  <2> QED BY <1>3, <1>11, <2>1
<1>16. ProtoInPlace'
  <2>1. PRouted' >= 0 /\ p_sent' = p_sent
    BY <1>1, <1>2, <1>12, <1>13
  <2>2. /\ p3' # <<>> => p3'[1] = p_sent[At3']
        /\ p2' # <<>> => p2'[1] = p_sent[At2']
        /\ p1' # <<>> => p1'[1] = p_sent[At1']
        /\ p0' # <<>> => p0'[1] = p_sent[At0']
    BY <1>7, <1>8, <1>9, <1>10, <1>14
  <2> QED BY <1>15, <2>1, <2>2 DEF ProtoInPlace
<1>17. g3 = IF PRoute(accepting) THEN 1 ELSE 0
  BY DEF g3
<1> QED BY <1>2, <1>13, <1>16, <1>17

\* A beat in p3 between two frames begins a frame; otherwise it belongs to the
\* frame of the beat before; and the beats in p2 and p1 go on from it.
ProtoNeighbours ==
    /\ p3 # <<>> => p3[1].pkt.beats \in Nat \ {0}
    /\ p3 # <<>> /\ PBetweenFrames => Proto!Sop(p3[1])
    /\ p3 # <<>> /\ ~PBetweenFrames => p3[1].pkt = p_sent[PRouted].pkt
    /\ p3 # <<>> /\ p2 # <<>> => Proto!Follows(p3[1], p2[1])
    /\ p3 # <<>> /\ p2 # <<>> /\ p1 # <<>> => Proto!Follows(p2[1], p1[1])

\* The framing of the stream carries over to the registers.
LEMMA ProtoNeighboursFramed ==
    ProtoTypeOK /\ ProtoInPlace /\ Proto!Framed(p_sent) => ProtoNeighbours
<1> SUFFICES ASSUME ProtoTypeOK, ProtoInPlace, Proto!Framed(p_sent) PROVE ProtoNeighbours
  OBVIOUS
<1>1. /\ PRouted \in Nat /\ Len(p_sent) \in Nat /\ Len(p_in) \in Nat /\ AtIn + Len(p_in) = Len(p_sent) + 1
      /\ At3 \in Nat /\ At2 \in Nat /\ At1 \in Nat /\ At0 \in Nat /\ AtIn \in Nat
      /\ At3 <= At2 /\ At2 <= At1 /\ At1 <= At0 /\ At0 <= AtIn
      /\ At3 = PRouted + 1
      /\ p3 # <<>> => At2 = At3 + 1
      /\ p2 # <<>> => At1 = At2 + 1
      /\ p1 # <<>> => At0 = At1 + 1
  BY ProtoPlaces DEF At3
<1>2. \A i \in 1..Len(p_sent) - 1 : Proto!Follows(p_sent[i], p_sent[i + 1])
  BY DEF Proto!Framed, Proto!Contiguous
<1>3. /\ p3 # <<>> => p3[1] = p_sent[PRouted + 1]
      /\ p2 # <<>> => p2[1] = p_sent[At2]
      /\ p1 # <<>> => p1[1] = p_sent[At1]
  BY <1>1 DEF ProtoInPlace
<1>4. p3 # <<>> => p3[1].pkt.beats \in Nat \ {0}
  <2>1. p3 # <<>> => p3[1] \in Proto!Beats
    BY ProtoSlotFacts DEF ProtoTypeOK
  <2> QED BY <2>1, ProtoAssumption DEF Proto!Beats
<1>5. p3 # <<>> /\ PRouted # 0 => Proto!Follows(p_sent[PRouted], p3[1])
  <2> SUFFICES ASSUME p3 # <<>>, PRouted # 0 PROVE Proto!Follows(p_sent[PRouted], p3[1])
    OBVIOUS
  <2>1. PRouted \in 1..Len(p_sent) - 1
    BY <1>1
  <2> QED BY <1>2, <1>3, <2>1
<1>6. p3 # <<>> /\ PRouted = 0 => Proto!Sop(p3[1])
  <2> SUFFICES ASSUME p3 # <<>>, PRouted = 0 PROVE Proto!Sop(p3[1])
    OBVIOUS
  <2>1. p3[1] = p_sent[1] /\ Len(p_sent) # 0
    BY <1>1, <1>3
  <2>2. p_sent # <<>>
    BY <2>1
  <2> QED BY <2>1, <2>2 DEF Proto!Framed
<1>7. p3 # <<>> /\ p2 # <<>> => Proto!Follows(p3[1], p2[1])
  <2> SUFFICES ASSUME p3 # <<>>, p2 # <<>> PROVE Proto!Follows(p3[1], p2[1])
    OBVIOUS
  <2>1. PRouted + 1 \in 1..Len(p_sent) - 1 /\ At2 = (PRouted + 1) + 1
    BY <1>1
  <2> QED BY <1>2, <1>3, <2>1
<1>8. p3 # <<>> /\ p2 # <<>> /\ p1 # <<>> => Proto!Follows(p2[1], p1[1])
  <2> SUFFICES ASSUME p3 # <<>>, p2 # <<>>, p1 # <<>> PROVE Proto!Follows(p2[1], p1[1])
    OBVIOUS
  <2>1. At2 \in 1..Len(p_sent) - 1 /\ At1 = At2 + 1
    BY <1>1
  <2> QED BY <1>2, <1>3, <2>1
<1> QED BY <1>4, <1>5, <1>6, <1>7, <1>8 DEF ProtoNeighbours, PBetweenFrames, Proto!Follows

\* A decision between two frames is the lane of the frame that comes next.
LEMMA ProtoDecideRight ==
    ASSUME ProtoNeighbours, PBetweenFrames, Proto!Decide(p3, p2, p1) # Proto!HOLD
    PROVE  p3 # <<>> /\ Proto!LaneOf(p3[1].pkt) = Proto!Decide(p3, p2, p1)
<1>1. CASE p3 # <<>> /\ (Proto!Eop(p3[1]) \/ (p2 # <<>> /\ Proto!Eop(p2[1])))
  <2>1. p3[1].pkt.beats <= 2
    BY <1>1 DEF ProtoNeighbours, Proto!Sop, Proto!Eop, Proto!Follows
  <2>2. Proto!Decide(p3, p2, p1) = "OTHER"
    BY <1>1 DEF Proto!Decide
  <2> QED BY <1>1, <2>1, <2>2 DEF Proto!LaneOf
<1>2. CASE /\ p3 # <<>> /\ p2 # <<>> /\ p1 # <<>>
           /\ ~Proto!Eop(p3[1]) /\ ~Proto!Eop(p2[1])
  <2>1. p2[1].pkt = p3[1].pkt /\ p2[1].n = 2
    BY <1>2 DEF ProtoNeighbours, Proto!Sop, Proto!Follows
  <2>2. p1[1].pkt = p3[1].pkt /\ p1[1].n = 3
    BY <1>2, <2>1 DEF ProtoNeighbours, Proto!Follows
  <2>3. p3[1].n = 1 /\ p3[1].pkt.beats # 1 /\ p3[1].pkt.beats # 2 /\ p3[1].pkt.beats \in Nat \ {0}
    BY <1>2, <2>1 DEF ProtoNeighbours, Proto!Sop, Proto!Eop
  <2>4. ~(p3[1].pkt.beats <= 2)
    BY <2>3
  <2>5. Proto!Decide(p3, p2, p1) = Proto!LaneOfProto(Proto!ProtoField(p1[1]))
    BY <1>2 DEF Proto!Decide
  <2> QED BY <1>2, <2>2, <2>4, <2>5 DEF Proto!LaneOf, Proto!ProtoField
<1>3. CASE \/ p3 = <<>>
           \/ p3 # <<>> /\ ~Proto!Eop(p3[1]) /\ (p2 = <<>> \/ (~Proto!Eop(p2[1]) /\ p1 = <<>>))
  <2>1. Proto!Decide(p3, p2, p1) = Proto!HOLD
    BY <1>3 DEF Proto!Decide
  <2> QED BY <2>1
<1> QED BY <1>1, <1>2, <1>3

\* The beat that leaves p3 goes to its frame's lane.
LEMMA ProtoRouteRight ==
    ASSUME ProtoInv, p3 # <<>>, p_state # Proto!HOLD
    PROVE  Proto!LaneOf(p3[1].pkt) = p_state
<1>1. ProtoNeighbours
  BY ProtoNeighboursFramed DEF ProtoInv
<1> QED BY <1>1 DEF ProtoInv, ProtoDecided, ProtoNeighbours

\* After an invocation the state is right for the beat to be routed next.
LEMMA ProtoInvokeDecided ==
    ASSUME ProtoInv, NEW accepting \in SUBSET Proto!Lanes, Proto!Invoke(accepting),
           ProtoTypeOK', Proto!Framed(p_sent)'
    PROVE  ProtoDecided'
<1> DEFINE route == PRoute(accepting)
           expected == p_state = Proto!HOLD \/ (route /\ Proto!Eop(p3[1]))
<1>1. /\ ProtoInPlace' /\ p_sent' = p_sent
      /\ PRouted' = IF route THEN PRouted + 1 ELSE PRouted
  BY ProtoInvokeInPlace, ProtoRegisters DEF ProtoInv
<1>2. ProtoNeighbours'
  BY <1>1, ProtoNeighboursFramed, PTL
<1>3. PRouted \in Nat /\ At3 = PRouted + 1
  BY ProtoPlaces DEF ProtoInv, At3
<1>4. route => p3 # <<>> /\ p_state # Proto!HOLD
  BY DEF PRoute, Proto!CanRoute
<1>5. route => p3[1] = p_sent[PRouted'] /\ PRouted' # 0
  BY <1>1, <1>3, <1>4 DEF ProtoInv, ProtoInPlace
<1>6. CASE expected
  <2>1. p_state' = Proto!Decide(p3', p2', p1')
    BY <1>6 DEF Proto!Invoke, PRoute
  <2>2. PBetweenFrames'
    <3>1. CASE p_state = Proto!HOLD
      BY <1>1, <1>4, <3>1 DEF ProtoInv, ProtoDecided, PBetweenFrames
    <3>2. CASE route /\ Proto!Eop(p3[1])
      BY <1>1, <1>5, <3>2 DEF PBetweenFrames
    <3> QED BY <1>6, <3>1, <3>2
  <2>3. (ProtoNeighbours /\ PBetweenFrames /\ Proto!Decide(p3, p2, p1) # Proto!HOLD
          => p3 # <<>> /\ Proto!LaneOf(p3[1].pkt) = Proto!Decide(p3, p2, p1))'
    BY ProtoDecideRight, PTL
  <2> QED BY <1>2, <2>1, <2>2, <2>3 DEF ProtoDecided
<1>7. CASE ~expected /\ route
  <2>1. p_state' = p_state /\ p_state # Proto!HOLD
    BY <1>7 DEF Proto!Invoke, PRoute
  <2>2. ~PBetweenFrames'
    BY <1>1, <1>5, <1>7 DEF PBetweenFrames
  <2>3. Proto!LaneOf(p_sent'[PRouted'].pkt) = p_state
    BY <1>1, <1>4, <1>5, <1>7, ProtoRouteRight
  <2> QED BY <2>1, <2>2, <2>3 DEF ProtoDecided
<1>8. CASE ~expected /\ ~route
  <2>1. p_state' = p_state /\ p_state # Proto!HOLD
    BY <1>8 DEF Proto!Invoke, PRoute
  <2>2. PBetweenFrames' = PBetweenFrames /\ p_sent'[PRouted'] = p_sent[PRouted]
    BY <1>1, <1>8 DEF PBetweenFrames
  <2>3. p3 # <<>> => p3' = p3
    BY <1>8, ProtoRegisters DEF Latch, PMove2
  <2> QED BY <2>1, <2>2, <2>3 DEF ProtoInv, ProtoDecided
<1> QED BY <1>6, <1>7, <1>8

\* An invocation puts beats only into the register of their lane, and from there
\* to its output.
LEMMA ProtoInvokeLanes ==
    ASSUME ProtoInv, NEW accepting \in SUBSET Proto!Lanes, Proto!Invoke(accepting)
    PROVE  ProtoRegistersRight' /\ Proto!RoutedToItsLane'
<1>1. /\ p4' = [l \in Proto!Lanes |->
                  Proto!Latch(Proto!CanRoute(accepting) /\ l = p_state, p3, l \in accepting, p4[l])]
      /\ p_out' = [l \in Proto!Lanes |-> IF l \in accepting THEN p_out[l] \o p4[l] ELSE p_out[l]]
  BY Zenon DEF Proto!Invoke
<1>2. ProtoRegistersRight'
  <2> SUFFICES ASSUME NEW l \in Proto!Lanes, NEW i \in 1..Len(p4'[l])
               PROVE  Proto!LaneOf(p4'[l][i].pkt) = l
    BY DEF ProtoRegistersRight
  <2>1. CASE Proto!CanRoute(accepting) /\ l = p_state
    <3>1. p4'[l] = p3
      BY <1>1, <2>1 DEF Proto!Latch
    <3>2. p3 \in Proto!Slot /\ p3 # <<>> /\ p_state # Proto!HOLD
      BY <2>1 DEF Proto!CanRoute, ProtoInv, ProtoTypeOK
    <3>3. i = 1
      <4>1. Len(p3) = 1
        BY <3>2, ProtoSlotFacts
      <4> QED BY <3>1, <4>1
    <3> QED BY <2>1, <3>1, <3>2, <3>3, ProtoRouteRight
  <2>2. CASE ~(Proto!CanRoute(accepting) /\ l = p_state)
    <3>1. p4'[l] = <<>> \/ p4'[l] = p4[l]
      BY <1>1, <2>2 DEF Proto!Latch
    <3> QED BY <3>1 DEF ProtoInv, ProtoRegistersRight
  <2> QED BY <2>1, <2>2
<1>3. Proto!RoutedToItsLane'
  <2> SUFFICES ASSUME NEW l \in Proto!Lanes, NEW i \in 1..Len(p_out'[l])
               PROVE  Proto!LaneOf(p_out'[l][i].pkt) = l
    BY DEF Proto!RoutedToItsLane
  <2>1. CASE l \in accepting
    <3>1. p_out'[l] = p_out[l] \o p4[l]
      BY <1>1, <2>1
    <3>2. p_out[l] \in Seq(Proto!Beats) /\ p4[l] \in Seq(Proto!Beats)
      BY ProtoSlotFacts DEF ProtoInv, ProtoTypeOK
    <3>3. CASE i <= Len(p_out[l])
      <4>1. i \in 1..Len(p_out[l]) /\ p_out'[l][i] = p_out[l][i]
        BY <3>1, <3>2, <3>3
      <4> QED BY <4>1 DEF ProtoInv, Proto!RoutedToItsLane
    <3>4. CASE i > Len(p_out[l])
      <4>1. i \in 1..Len(p_out[l] \o p4[l])
        BY <3>1
      <4>2. /\ i - Len(p_out[l]) \in 1..Len(p4[l])
            /\ (p_out[l] \o p4[l])[i] = p4[l][i - Len(p_out[l])]
        BY <3>2, <3>4, <4>1, ConcatBeyond
      <4> QED BY <3>1, <4>2 DEF ProtoInv, ProtoRegistersRight
    <3> QED BY <3>2, <3>3, <3>4
  <2>2. CASE l \notin accepting
    <3>1. p_out'[l] = p_out[l]
      BY <1>1, <2>2
    <3> QED BY <3>1 DEF ProtoInv, Proto!RoutedToItsLane
  <2> QED BY <2>1, <2>2
<1> QED BY <1>2, <1>3

\* The invariant holds in every reachable state.
LEMMA ProtoInvInvariant == Proto!Spec => []ProtoInv
<1>1. Proto!Init => ProtoInv
  <2> SUFFICES ASSUME Proto!Init PROVE ProtoInv
    OBVIOUS
  <2>1. <<>> \in Seq(Proto!Beats) /\ <<>> \in Proto!Slot /\ Len(<<>>) = 0
    BY DEF Proto!Slot
  <2>2. ProtoTypeOK
    BY <2>1 DEF Proto!Init, ProtoTypeOK
  <2>3. PRouted = 0
    <3>1. Len(p_sent) = 0 /\ Len(p_in) = 0 /\ Len(p0) = 0 /\ Len(p1) = 0 /\ Len(p2) = 0 /\ Len(p3) = 0
      BY <2>1 DEF Proto!Init
    <3> QED BY <3>1 DEF PRouted
  <2>4. ProtoInPlace
    BY <2>3 DEF Proto!Init, ProtoInPlace
  <2>5. Proto!Framed(p_sent)
    BY DEF Proto!Init, Proto!Framed, Proto!Contiguous
  <2>6. ProtoDecided
    BY <2>3 DEF Proto!Init, ProtoDecided, PBetweenFrames
  <2>7. ProtoRegistersRight /\ Proto!RoutedToItsLane
    BY DEF Proto!Init, ProtoRegistersRight, Proto!RoutedToItsLane
  <2> QED BY <2>2, <2>4, <2>5, <2>6, <2>7 DEF ProtoInv
<1>2. ASSUME ProtoInv, [Proto!Next]_(Proto!vars) PROVE ProtoInv'
  <2>1. ProtoTypeOK' /\ Proto!Framed(p_sent)'
    BY <1>2, ProtoTypeStep
  <2>2. ASSUME NEW b \in Proto!NextBeats(p_sent), Proto!Supply(b) PROVE ProtoInv'
    <3>1. b \in Proto!Beats
      BY <1>2, ProtoNextBeats DEF ProtoInv, ProtoTypeOK
    <3>2. ProtoInPlace' /\ PRouted' = PRouted /\ \A i \in 1..Len(p_sent) : p_sent'[i] = p_sent[i]
      BY <1>2, <2>2, <3>1, ProtoSupplyInPlace DEF ProtoInv
    <3>3. UNCHANGED <<p3, p4, p_state, p_out>>
      BY <2>2 DEF Proto!Supply
    <3>4. PRouted # 0 => p_sent'[PRouted] = p_sent[PRouted]
      <4>1. PRouted # 0 => PRouted \in 1..Len(p_sent)
        BY <1>2, ProtoPlaces DEF ProtoInv, At3
      <4> QED BY <3>2, <4>1
    <3>5. PBetweenFrames' = PBetweenFrames
      BY <3>2, <3>4 DEF PBetweenFrames
    <3>6. ~PBetweenFrames => p_sent'[PRouted'] = p_sent[PRouted]
      BY <3>2, <3>4 DEF PBetweenFrames
    <3>7. ProtoDecided'
      BY <1>2, <3>3, <3>5, <3>6 DEF ProtoInv, ProtoDecided
    <3>8. ProtoRegistersRight' /\ Proto!RoutedToItsLane'
      BY <1>2, <3>3 DEF ProtoInv, ProtoRegistersRight, Proto!RoutedToItsLane
    <3> QED BY <2>1, <3>2, <3>7, <3>8 DEF ProtoInv
  <2>3. ASSUME NEW accepting \in SUBSET Proto!Lanes, Proto!Invoke(accepting) PROVE ProtoInv'
    <3>1. ProtoInPlace'
      BY <1>2, <2>3, ProtoInvokeInPlace DEF ProtoInv
    <3>2. ProtoDecided'
      BY <1>2, <2>1, <2>3, ProtoInvokeDecided
    <3>3. ProtoRegistersRight' /\ Proto!RoutedToItsLane'
      BY <1>2, <2>3, ProtoInvokeLanes
    <3> QED BY <2>1, <3>1, <3>2, <3>3 DEF ProtoInv
  <2>4. CASE UNCHANGED Proto!vars
    BY <1>2, <2>4 DEF Proto!vars, ProtoInv, ProtoTypeOK, ProtoInPlace, PRouted, At3, At2, At1, At0, AtIn,
                      ProtoDecided, PBetweenFrames, ProtoRegistersRight, Proto!RoutedToItsLane
  <2> QED BY <1>2, <2>2, <2>3, <2>4 DEF Proto!Next
<1> QED BY <1>1, <1>2, PTL DEF Proto!Spec

\* Every beat that leaves the splitter by protocol leaves on the lane of its
\* frame, and frames too short to have a protocol field are discarded, for all
\* packets, whatever bubbles the input has and however the lanes stall.
THEOREM ProtocolRoutingCorrect == Proto!Spec => []RoutedByProtocol
<1>1. ProtoInv => RoutedByProtocol
  BY DEF ProtoInv, RoutedByProtocol
<1> QED BY <1>1, ProtoInvInvariant, PTL

-----------------------------------------------------------------------------
(* So does the splitter by protocol.                                       *)

ProtoLanePlaces(l) == {i \in 1..Len(p_sent) : Proto!LaneOf(p_sent[i].pkt) = l}
ProtoAllKept ==
    \A l \in Proto!Lanes : LaneKept(ProtoLanePlaces(l), p_sent, PRouted, p_out[l], p4[l])

\* Before the first beat nothing is in the registers.
LEMMA ProtoInitAllKept == Proto!Init => ProtoAllKept
<1> SUFFICES ASSUME Proto!Init, NEW l \in Proto!Lanes
             PROVE  LaneKept(ProtoLanePlaces(l), p_sent, PRouted, p_out[l], p4[l])
  BY DEF ProtoAllKept
<1>1. p_sent = <<>> /\ p_out[l] = <<>> /\ p4[l] = <<>> /\ Len(<<>>) = 0
  BY DEF Proto!Init
<1>2. PRouted = 0
  <2>1. Len(p_sent) = 0 /\ Len(p_in) = 0 /\ Len(p0) = 0 /\ Len(p1) = 0 /\ Len(p2) = 0 /\ Len(p3) = 0
    BY DEF Proto!Init
  <2> QED BY <2>1 DEF PRouted
<1>3. ProtoLanePlaces(l) \in SUBSET (1..0)
  BY <1>1 DEF ProtoLanePlaces
<1>4. Ahead(ProtoLanePlaces(l), 1) = 0
  BY <1>3, AheadCounts
<1> QED BY <1>1, <1>2, <1>4 DEF LaneKept

\* A write adds a place at the end.
LEMMA ProtoSupplyAllKept ==
    ASSUME ProtoInv, ProtoAllKept, NEW b \in Proto!NextBeats(p_sent), Proto!Supply(b)
    PROVE  ProtoAllKept'
<1> SUFFICES ASSUME NEW l \in Proto!Lanes
             PROVE  LaneKept(ProtoLanePlaces(l)', p_sent', PRouted', p_out'[l], p4'[l])
  BY DEF ProtoAllKept
<1>1. b \in Proto!Beats
  BY ProtoNextBeats DEF ProtoInv, ProtoTypeOK
<1>2. PRouted' = PRouted /\ \A i \in 1..Len(p_sent) : p_sent'[i] = p_sent[i]
  BY <1>1, ProtoSupplyInPlace DEF ProtoInv
<1>3. PRouted \in 0..Len(p_sent)
  BY ProtoPlaces DEF ProtoInv, At3
<1>4. p_sent \in Seq(Proto!Beats) /\ Len(p_sent) \in Nat /\ Len(p_sent') = Len(p_sent) + 1
  BY <1>1 DEF ProtoInv, ProtoTypeOK, Proto!Supply
<1>5. p_out' = p_out /\ p4' = p4
  BY DEF Proto!Supply
<1>6. ProtoLanePlaces(l)' = ProtoLanePlaces(l) \/ ProtoLanePlaces(l)' = ProtoLanePlaces(l) \cup {Len(p_sent) + 1}
  <2>1. \A i : i \in 1..Len(p_sent') <=> i \in 1..Len(p_sent) \/ i = Len(p_sent) + 1
    BY <1>4
  <2> QED BY <1>2, <2>1 DEF ProtoLanePlaces
<1>7. ProtoLanePlaces(l) \in SUBSET (1..Len(p_sent))
  BY DEF ProtoLanePlaces
<1>8. LaneKept(ProtoLanePlaces(l), p_sent, PRouted, p_out[l], p4[l])
  BY DEF ProtoAllKept
<1>9. LaneKept(ProtoLanePlaces(l)', p_sent', PRouted, p_out[l], p4[l])
  BY <1>2, <1>3, <1>4, <1>6, <1>7, <1>8, LaneGrows
<1> QED BY <1>2, <1>5, <1>9

\* An invocation moves the lanes' beats on.
LEMMA ProtoInvokeAllKept ==
    ASSUME ProtoInv, ProtoAllKept, NEW accepting \in SUBSET Proto!Lanes, Proto!Invoke(accepting)
    PROVE  ProtoAllKept'
<1> SUFFICES ASSUME NEW l \in Proto!Lanes
             PROVE  LaneKept(ProtoLanePlaces(l)', p_sent', PRouted', p_out'[l], p4'[l])
  BY DEF ProtoAllKept
<1> DEFINE load == Proto!CanRoute(accepting) /\ l = p_state
           take == l \in accepting
<1>0. /\ p4' = [q \in Proto!Lanes |->
                  Proto!Latch(Proto!CanRoute(accepting) /\ q = p_state, p3, q \in accepting, p4[q])]
      /\ p_out' = [q \in Proto!Lanes |-> IF q \in accepting THEN p_out[q] \o p4[q] ELSE p_out[q]]
      /\ p_sent' = p_sent
  BY Zenon DEF Proto!Invoke
<1>1. p_sent' = p_sent /\ ProtoLanePlaces(l)' = ProtoLanePlaces(l)
  BY <1>0 DEF ProtoLanePlaces
<1>2. /\ p_sent \in Seq(Proto!Beats) /\ Len(p_sent) \in Nat /\ p_out[l] \in Seq(Proto!Beats)
      /\ p4[l] \in Seq(Proto!Beats) /\ Len(p4[l]) <= 1
  BY DEF ProtoInv, ProtoTypeOK, Proto!Slot
<1>3. ProtoLanePlaces(l) \in SUBSET (1..Len(p_sent)) /\ PRouted \in Nat
  BY ProtoPlaces DEF ProtoLanePlaces, ProtoInv
<1>4. LaneKept(ProtoLanePlaces(l), p_sent, PRouted, p_out[l], p4[l])
  BY DEF ProtoAllKept
<1>5. p_out'[l] = IF take THEN p_out[l] \o p4[l] ELSE p_out[l]
  BY <1>0
<1>6. PRouted' = IF Proto!CanRoute(accepting) THEN PRouted + 1 ELSE PRouted
  BY ProtoInvokeInPlace DEF ProtoInv, PRoute
<1>7. Proto!CanRoute(accepting) =>
        /\ p3 = <<p_sent[PRouted + 1]>> /\ PRouted + 1 \in 1..Len(p_sent)
        /\ Proto!LaneOf(p_sent[PRouted + 1].pkt) = p_state
  <2> SUFFICES ASSUME Proto!CanRoute(accepting)
               PROVE  /\ p3 = <<p_sent[PRouted + 1]>> /\ PRouted + 1 \in 1..Len(p_sent)
                      /\ Proto!LaneOf(p_sent[PRouted + 1].pkt) = p_state
    OBVIOUS
  <2>1. p3 # <<>> /\ p_state # Proto!HOLD
    BY DEF Proto!CanRoute
  <2>2. p3[1] = p_sent[PRouted + 1]
    BY <2>1 DEF ProtoInv, ProtoInPlace, At3
  <2>3. PRouted + 1 \in 1..Len(p_sent)
    BY <2>1, ProtoPlaces DEF ProtoInv, At3
  <2>4. p3 \in Seq(Proto!Beats) /\ Len(p3) <= 1
    BY DEF ProtoInv, ProtoTypeOK, Proto!Slot
  <2>5. PICK e \in Proto!Beats : p3 = <<e>>
    BY <2>1, <2>4, OneElement
  <2> QED BY <2>1, <2>2, <2>3, <2>5, ProtoRouteRight
<1>8. p4'[l] = IF load THEN <<p_sent[PRouted + 1]>> ELSE IF take THEN <<>> ELSE p4[l]
  <2>1. p4'[l] = IF load THEN p3 ELSE IF take THEN <<>> ELSE p4[l]
    BY <1>0 DEF Proto!Latch
  <2> QED BY <1>7, <2>1
<1>9. load => PRouted' = PRouted + 1 /\ PRouted + 1 \in ProtoLanePlaces(l) /\ (take \/ p4[l] = <<>>)
  BY <1>6, <1>7 DEF ProtoLanePlaces, Proto!CanRoute
<1>10. ~load => PRouted' = PRouted \/ (PRouted' = PRouted + 1 /\ PRouted + 1 \notin ProtoLanePlaces(l))
  BY <1>6, <1>7 DEF ProtoLanePlaces
<1>11. load \in BOOLEAN /\ take \in BOOLEAN
  BY DEF Proto!CanRoute
<1> HIDE DEF load, take
<1>12. LaneKept(ProtoLanePlaces(l), p_sent, PRouted', p_out'[l], p4'[l])
  BY <1>2, <1>3, <1>4, <1>5, <1>8, <1>9, <1>10, <1>11, LaneStep
<1> QED BY <1>1, <1>12

\* Counting means the same there.
LEMMA ProtoAbstractCounts == \A P : Proto!Abstract!Cardinality(P) = Cardinality(P)
BY DEF Proto!Abstract!Cardinality, Proto!Abstract!IsFiniteSet, Cardinality, IsFiniteSet

\* A write of the splitter is one of the abstract splitter.
LEMMA ProtoSupplyWrites ==
    ASSUME ProtoInv, NEW b \in Proto!NextBeats(p_sent), Proto!Supply(b)
    PROVE  Proto!Abstract!Write
<1>1. b \in Proto!Beats /\ p_sent \in Seq(Proto!Beats) /\ p_sent' = Append(p_sent, b) /\ p_out' = p_out
  BY ProtoNextBeats DEF ProtoInv, ProtoTypeOK, Proto!Supply
<1>2. p_sent' = p_sent \o <<b>>
  BY <1>1
<1>3. p_sent' # <<>> /\ Len(p_sent') = Len(p_sent) + 1 /\ p_sent'[Len(p_sent) + 1] = b
  BY <1>1, <1>2, AppendOne
<1> QED BY <1>1, <1>3 DEF Proto!Abstract!Write, Proto!Abstract!Last

\* An invocation lets some lanes take their next beat, or none.
LEMMA ProtoInvokeTakes ==
    ASSUME ProtoInv, ProtoAllKept, NEW accepting \in SUBSET Proto!Lanes, Proto!Invoke(accepting)
    PROVE  [Proto!Abstract!Next]_(Proto!Abstract!vars)
<1> DEFINE ps == {l \in accepting : p4[l] # <<>>}
<1>1. p_sent' = p_sent /\ p_sent \in Seq(Proto!Beats)
  BY DEF Proto!Invoke, ProtoInv, ProtoTypeOK
<1>2. p_out' = [l \in Proto!Lanes |-> IF l \in accepting THEN p_out[l] \o p4[l] ELSE p_out[l]]
  BY Zenon DEF Proto!Invoke
<1>3. p_out \in [Proto!Lanes -> Seq(Proto!Beats)] /\ p4 \in [Proto!Lanes -> Proto!Slot]
  BY DEF ProtoInv, ProtoTypeOK
<1>4. ASSUME NEW l \in ps
      PROVE  /\ l \in Proto!Abstract!Waiting
             /\ p_out[l] \o p4[l] = Append(p_out[l], p_sent[Proto!Abstract!NextPlace(l)])
  <2>1. l \in Proto!Lanes /\ p4[l] \in Proto!Slot /\ p4[l] # <<>> /\ p_out[l] \in Seq(Proto!Beats)
    BY <1>3
  <2>2. p4[l] \in Seq(Proto!Beats) /\ Len(p4[l]) = 1
    BY <2>1, ProtoSlotFacts
  <2>3. ProtoLanePlaces(l) \in SUBSET (1..Len(p_sent)) /\ ProtoLanePlaces(l) = Proto!Abstract!PlacesOf(l)
    BY DEF ProtoLanePlaces, Proto!Abstract!PlacesOf
  <2>4. LaneKept(ProtoLanePlaces(l), p_sent, PRouted, p_out[l], p4[l])
    BY <2>1 DEF ProtoAllKept
  <2> DEFINE next == CHOOSE i \in ProtoLanePlaces(l) : Ahead(ProtoLanePlaces(l), i) = Len(p_out[l])
  <2>5. /\ Len(p_out[l]) < Cardinality(ProtoLanePlaces(l))
        /\ p_out[l] \o p4[l] = Append(p_out[l], p_sent[next])
    <3> DEFINE P == ProtoLanePlaces(l)
               taken == p_out[l]
               reg == p4[l]
    <3>1. /\ P \in SUBSET (1..Len(p_sent)) /\ taken \in Seq(Proto!Beats) /\ reg \in Seq(Proto!Beats)
          /\ Len(reg) = 1 /\ LaneKept(P, p_sent, PRouted, taken, reg)
      BY <2>1, <2>2, <2>3, <2>4
    <3> HIDE DEF P, taken, reg
    <3>2. /\ Len(taken) < Cardinality(P)
          /\ taken \o reg = Append(taken, p_sent[CHOOSE i \in P : Ahead(P, i) = Len(taken)])
      BY <1>1, <3>1, LaneTakesNext, ZenonT(40)
    <3> QED BY <3>2 DEF P, taken, reg
  <2>6. Proto!Abstract!NextPlace(l) = next
    <3>1. Proto!Abstract!NextPlace(l) =
            CHOOSE i \in ProtoLanePlaces(l) :
              Cardinality({j \in ProtoLanePlaces(l) : j < i}) = Len(p_out[l])
      BY ProtoAbstractCounts DEF Proto!Abstract!NextPlace, Proto!Abstract!PlacesOf, ProtoLanePlaces
    <3> QED BY <3>1 DEF Ahead
  <2>7. l \in Proto!Abstract!Waiting
    BY <2>1, <2>3, <2>5, ProtoAbstractCounts DEF Proto!Abstract!Waiting
  <2> HIDE DEF next
  <2> QED BY <2>5, <2>6, <2>7
<1>5. ASSUME NEW l \in Proto!Lanes, l \notin ps
      PROVE  (IF l \in accepting THEN p_out[l] \o p4[l] ELSE p_out[l]) = p_out[l]
  <2>1. l \in accepting => p4[l] = <<>>
    BY <1>5
  <2>2. p_out[l] \in Seq(Proto!Beats) /\ (p_out[l] \in Seq(Proto!Beats) => p_out[l] \o <<>> = p_out[l])
    BY <1>3
  <2> QED BY <2>1, <2>2
<1>6. p_out' = [l \in Proto!Lanes |->
                  IF l \in ps THEN Append(p_out[l], p_sent[Proto!Abstract!NextPlace(l)]) ELSE p_out[l]]
  BY <1>2, <1>4, <1>5
<1>7. CASE ps = {}
  <2>1. p_out' = p_out
    BY <1>3, <1>6, <1>7
  <2> QED BY <1>1, <2>1 DEF Proto!Abstract!vars
<1>8. CASE ps # {}
  <2>1. Proto!Abstract!Take(ps)
    BY <1>1, <1>6, <1>8 DEF Proto!Abstract!Take
  <2>2. ps \in SUBSET Proto!Abstract!Waiting
    BY <1>4
  <2> QED BY <2>1, <2>2 DEF Proto!Abstract!Next
<1> QED BY <1>7, <1>8

\* A lane of the splitter by protocol gets its frames complete, in order and once.
THEOREM ProtoSplitterImplementsDemux == Proto!Spec => Proto!ImplementsDemux
<1>1. Proto!Init => Proto!Abstract!Init
  BY DEF Proto!Init, Proto!Abstract!Init
<1>2. ProtoInv /\ ProtoAllKept /\ [Proto!Next]_(Proto!vars)
        => ProtoAllKept' /\ [Proto!Abstract!Next]_(Proto!Abstract!vars)
  <2> SUFFICES ASSUME ProtoInv, ProtoAllKept, [Proto!Next]_(Proto!vars)
               PROVE  ProtoAllKept' /\ [Proto!Abstract!Next]_(Proto!Abstract!vars)
    OBVIOUS
  <2>1. ASSUME NEW b \in Proto!NextBeats(p_sent), Proto!Supply(b)
        PROVE  ProtoAllKept' /\ [Proto!Abstract!Next]_(Proto!Abstract!vars)
    BY <2>1, ProtoSupplyAllKept, ProtoSupplyWrites DEF Proto!Abstract!Next
  <2>2. ASSUME NEW accepting \in SUBSET Proto!Lanes, Proto!Invoke(accepting)
        PROVE  ProtoAllKept' /\ [Proto!Abstract!Next]_(Proto!Abstract!vars)
    BY <2>2, ProtoInvokeAllKept, ProtoInvokeTakes
  <2>3. CASE UNCHANGED Proto!vars
    BY <2>3 DEF Proto!vars, ProtoAllKept, ProtoLanePlaces, PRouted, Proto!Abstract!vars
  <2> QED BY <2>1, <2>2, <2>3 DEF Proto!Next
<1> QED BY <1>1, <1>2, ProtoInitAllKept, ProtoInvInvariant, PTL
        DEF Proto!Spec, Proto!ImplementsDemux, Proto!Abstract!Spec

-----------------------------------------------------------------------------
(* The receive path: each splitter keeps what it promises, whichever runs. *)

\* A behaviour of the path is a behaviour of each splitter, which may stutter.
LEMMA PathRunsSplitters == PathSpec => Spec /\ Proto!Spec
<1>1. PathInit => Init /\ Proto!Init
  BY DEF PathInit
<1>2. [PathNext]_<<block, vars, protoVars>> => [Next]_vars /\ [Proto!Next]_(Proto!vars)
  BY DEF PathNext, protoVars, Proto!vars
<1> QED BY <1>1, <1>2, PTL DEF PathSpec, Spec, Proto!Spec

\* Every beat of the path leaves on its lane.
THEOREM PathRoutes == PathSpec => [](RoutedToItsLane /\ RoutedByProtocol)
BY PathRunsSplitters, RoutingCorrect, ProtocolRoutingCorrect, PTL

\* Both splitters hand each lane its frames complete, in order and once.
THEOREM PathImplementsDemux == PathSpec => SplittersImplementDemux
BY PathRunsSplitters, SplitterImplementsDemux, ProtoSplitterImplementsDemux DEF SplittersImplementDemux
=============================================================================
