---------------------------- MODULE Stdio_proofs ----------------------------
(***************************************************************************)
(* Proofs about the way of printf to the host, for rings, FIFOs, pools,    *)
(* requests and timeouts of any size.                                      *)
(*                                                                         *)
(* First the driver of the JTAG UART.  Its inductive invariant gives every *)
(* character its place, by number: what the application published is with  *)
(* the host, in the device or in the ring, and what the host sent is with  *)
(* the application, in the ring or in the device.  A call works on indices *)
(* that it read earlier, so the invariant also says what these are still   *)
(* worth while the interrupt routine moves on.                             *)
(*                                                                         *)
(* Then the descriptors: the pool, its high water mark and the standard    *)
(* streams, over every sequence of system calls.                           *)
(***************************************************************************)
EXTENDS MCStdio, SequenceTheorems, WellFoundedInduction, TLAPS

-----------------------------------------------------------------------------
(* The rings of the JTAG UART *)

\* How far a slot is ahead of another, and the slot n ahead.
Ahead(a, b) == IF a >= b THEN a - b ELSE a - b + BufLen
Forward(a, n) == IF a + n >= BufLen THEN a + n - BufLen ELSE a + n

InTx == Ahead(tx_in, tx_out)
InRx == Ahead(rx_in, rx_out)

CallType == [at : WriteLabels \cup ReadLabels \cup {"idle", "c_wait"}, nonblock : BOOLEAN,
             left : Nat, moved : Nat, in : Slots, out : Slots, n : Nat]

UartTypeOK ==
    /\ tx_buf \in [Slots -> Nat] /\ tx_in \in Slots /\ tx_out \in Slots
    /\ rx_buf \in [Slots -> Nat] /\ rx_in \in Slots /\ rx_out \in Slots
    /\ irq_enable \subseteq {"RE", "WE"}
    /\ host_inactive \in 0..InactiveMax /\ timeout \in 1..INT_MAX
    /\ txfifo \in Seq(Nat) /\ Len(txfifo) <= FifoLen
    /\ rxfifo \in Seq(Nat) /\ Len(rxfifo) <= FifoLen
    /\ call \in CallType
    /\ accepted \in Nat /\ hostGot \in Seq(Nat)
    /\ hostSent \in Nat /\ got \in Seq(Nat)

\* Each character that was published has its place: with the host, in the
\* device or in the ring.
TxPlaced ==
    /\ Published = Len(hostGot) + Len(txfifo) + InTx
    /\ \A i \in 1..Len(hostGot) : hostGot[i] = i
    /\ \A i \in 1..Len(txfifo) : txfifo[i] = Len(hostGot) + i
    /\ \A s \in Slots : Ahead(s, tx_out) < InTx =>
         tx_buf[s] = Len(hostGot) + Len(txfifo) + Ahead(s, tx_out) + 1

\* The slots a writer has looked up stay free until it publishes them: the
\* interrupt routine only makes more room.
TxHeld ==
    /\ call.at \in {"w_copy", "w_publish"} =>
         /\ call.in = tx_in
         /\ call.n >= 1 /\ call.n <= call.left
         /\ call.in + call.n <= BufLen /\ call.n + InTx <= BufLen - 1
    /\ call.at = "w_publish" =>
         \A s \in Slots : call.in <= s /\ s < call.in + call.n =>
           tx_buf[s] = Published + 1 + s - call.in

\* What a reader has copied but not yet given back.
Copied == IF call.at = "r_publish" THEN call.n ELSE 0

\* Each character of the host has its place: with the application, in the ring
\* or in the device.
RxPlaced ==
    /\ hostSent = Len(got) - Copied + InRx + Len(rxfifo)
    /\ \A i \in 1..Len(got) : got[i] = i
    /\ \A s \in Slots : Ahead(s, rx_out) < InRx =>
         rx_buf[s] = Len(got) - Copied + Ahead(s, rx_out) + 1
    /\ \A i \in 1..Len(rxfifo) : rxfifo[i] = Len(got) - Copied + InRx + i

\* The characters a reader has looked up stay in the ring until it gives their
\* slots back.
RxHeld ==
    call.at \in {"r_copy", "r_publish"} =>
      /\ call.out = rx_out
      /\ call.n >= 1 /\ call.n <= call.left
      /\ call.out + call.n <= BufLen /\ call.n <= InRx

UartInv == UartTypeOK /\ TxPlaced /\ TxHeld /\ RxPlaced /\ RxHeld /\ NoStall

\* The remainders of the code, without division.
LEMMA ModuloBuf ==
    /\ \A a \in Int : 0 <= a /\ a < BufLen => a % BufLen = a
    /\ \A a \in Int : BufLen <= a /\ a < 2 * BufLen => a % BufLen = a - BufLen
    /\ \A a \in Int : -BufLen <= a /\ a < 0 => a % BufLen = a + BufLen
<1>1. BufLen \in Nat /\ BufLen > 0
  BY LengthsAssumption
<1>2. \A a \in Int : 0 <= a /\ a < BufLen => a % BufLen = a
  BY <1>1
<1>3. \A a \in Int : BufLen <= a /\ a < 2 * BufLen => a % BufLen = a - BufLen
  BY <1>1
<1>4. \A a \in Int : -BufLen <= a /\ a < 0 => a % BufLen = a + BufLen
  BY <1>1
<1> QED BY <1>2, <1>3, <1>4

\* Indices of a ring.
LEMMA SlotRange ==
    /\ BufLen \in Nat /\ BufLen >= 2
    /\ \A a \in Slots : a \in Nat /\ a < BufLen
    /\ \A a \in Int : 0 <= a /\ a < BufLen => a \in Slots
<1>1. BufLen \in Nat /\ BufLen # 0 /\ BufLen # 1
  BY LengthsAssumption
<1> QED BY <1>1 DEF Slots

\* Distances in a ring, and what the remainders of the code are.
LEMMA RingArithmetic ==
    ASSUME NEW a \in Slots, NEW b \in Slots
    PROVE  /\ Ahead(a, b) \in Slots
           /\ (a - b) % BufLen = Ahead(a, b)
           /\ Free(a, b) = BufLen - 1 - Ahead(a, b)
           /\ \A n \in Slots : Forward(a, n) \in Slots /\ (a + n) % BufLen = Forward(a, n)
           /\ a = b <=> Ahead(a, b) = 0
           /\ Ahead(a, a) = 0
<1>1. /\ BufLen \in Nat /\ BufLen >= 2 /\ a \in Nat /\ b \in Nat /\ a < BufLen /\ b < BufLen
      /\ \A n \in Slots : n \in Nat /\ n < BufLen
      /\ \A c \in Int : 0 <= c /\ c < BufLen => c \in Slots
  BY SlotRange
<1>2. Ahead(a, b) \in Slots
  BY <1>1 DEF Ahead
<1>3. (a - b) % BufLen = Ahead(a, b)
  <2>1. CASE a >= b
    <3>1. a - b \in Int /\ 0 <= a - b /\ a - b < BufLen
      BY <1>1, <2>1
    <3> QED BY <2>1, <3>1, ModuloBuf DEF Ahead
  <2>2. CASE ~(a >= b)
    <3>1. a - b \in Int /\ -BufLen <= a - b /\ a - b < 0
      BY <1>1, <2>2
    <3> QED BY <2>2, <3>1, ModuloBuf DEF Ahead
  <2> QED BY <2>1, <2>2
<1>4. Free(a, b) = BufLen - 1 - Ahead(a, b)
  <2>1. CASE a >= b
    <3>1. b - a - 1 \in Int /\ -BufLen <= b - a - 1 /\ b - a - 1 < 0
      BY <1>1, <2>1
    <3>2. (b - a - 1) % BufLen = b - a - 1 + BufLen
      BY <3>1, ModuloBuf
    <3> QED BY <1>1, <2>1, <3>2 DEF Free, Ahead
  <2>2. CASE ~(a >= b)
    <3>1. b - a - 1 \in Int /\ 0 <= b - a - 1 /\ b - a - 1 < BufLen
      BY <1>1, <2>2
    <3>2. (b - a - 1) % BufLen = b - a - 1
      BY <3>1, ModuloBuf
    <3> QED BY <1>1, <2>2, <3>2 DEF Free, Ahead
  <2> QED BY <2>1, <2>2
<1>5. ASSUME NEW n \in Slots PROVE Forward(a, n) \in Slots /\ (a + n) % BufLen = Forward(a, n)
  <2>1. n \in Nat /\ n < BufLen
    BY <1>1
  <2>2. CASE a + n >= BufLen
    <3>1. a + n \in Int /\ BufLen <= a + n /\ a + n < 2 * BufLen
      BY <1>1, <2>1, <2>2
    <3> QED BY <1>1, <2>2, <3>1, ModuloBuf DEF Forward
  <2>3. CASE ~(a + n >= BufLen)
    <3>1. a + n \in Int /\ 0 <= a + n /\ a + n < BufLen
      BY <1>1, <2>1, <2>3
    <3> QED BY <1>1, <2>3, <3>1, ModuloBuf DEF Forward
  <2> QED BY <2>2, <2>3
<1>6. (a = b <=> Ahead(a, b) = 0) /\ Ahead(a, a) = 0
  BY <1>1 DEF Ahead
<1> QED BY <1>2, <1>3, <1>4, <1>5, <1>6

\* What n characters more in a ring change.
LEMMA RingGrows ==
    ASSUME NEW in \in Slots, NEW out \in Slots, NEW n \in Nat, Ahead(in, out) + n <= BufLen - 1
    PROVE  /\ Forward(in, n) \in Slots /\ (in + n) % BufLen = Forward(in, n)
           /\ Ahead(Forward(in, n), out) = Ahead(in, out) + n
           /\ \A s \in Slots : IF Ahead(s, out) < Ahead(in, out) + n
                               THEN IF Ahead(s, out) < Ahead(in, out) THEN Ahead(s, in) >= n
                                    ELSE Ahead(s, in) = Ahead(s, out) - Ahead(in, out) /\ Ahead(s, in) < n
                               ELSE Ahead(s, in) >= n
<1>1. /\ BufLen \in Nat /\ BufLen >= 2 /\ in \in Nat /\ out \in Nat /\ in < BufLen /\ out < BufLen
      /\ \A s \in Slots : s \in Nat /\ s < BufLen
      /\ Ahead(in, out) \in Nat
  BY SlotRange, RingArithmetic
<1>2. n \in Slots
  BY <1>1, SlotRange
<1>3. Forward(in, n) \in Slots /\ (in + n) % BufLen = Forward(in, n)
  BY <1>2, RingArithmetic
<1>4. Ahead(Forward(in, n), out) = Ahead(in, out) + n
  BY <1>1 DEF Ahead, Forward
<1>5. ASSUME NEW s \in Slots
      PROVE  IF Ahead(s, out) < Ahead(in, out) + n
             THEN IF Ahead(s, out) < Ahead(in, out) THEN Ahead(s, in) >= n
                  ELSE Ahead(s, in) = Ahead(s, out) - Ahead(in, out) /\ Ahead(s, in) < n
             ELSE Ahead(s, in) >= n
  BY <1>1 DEF Ahead
<1> QED BY <1>3, <1>4, <1>5

\* What n characters less in a ring change.
LEMMA RingShrinks ==
    ASSUME NEW in \in Slots, NEW out \in Slots, NEW n \in Nat, n <= Ahead(in, out)
    PROVE  /\ Forward(out, n) \in Slots /\ (out + n) % BufLen = Forward(out, n)
           /\ Ahead(in, Forward(out, n)) = Ahead(in, out) - n
           /\ \A s \in Slots : Ahead(s, Forward(out, n)) < Ahead(in, out) - n =>
                /\ Ahead(s, out) = Ahead(s, Forward(out, n)) + n
                /\ Ahead(s, out) < Ahead(in, out)
<1>1. /\ BufLen \in Nat /\ BufLen >= 2 /\ in \in Nat /\ out \in Nat /\ in < BufLen /\ out < BufLen
      /\ \A s \in Slots : s \in Nat /\ s < BufLen
      /\ Ahead(in, out) \in Nat /\ Ahead(in, out) < BufLen
  BY SlotRange, RingArithmetic
<1>2. n \in Slots
  BY <1>1, SlotRange
<1>3. Forward(out, n) \in Slots /\ (out + n) % BufLen = Forward(out, n)
  BY <1>2, RingArithmetic
<1>4. Ahead(in, Forward(out, n)) = Ahead(in, out) - n
  BY <1>1 DEF Ahead, Forward
<1>5. ASSUME NEW s \in Slots, Ahead(s, Forward(out, n)) < Ahead(in, out) - n
      PROVE  /\ Ahead(s, out) = Ahead(s, Forward(out, n)) + n
             /\ Ahead(s, out) < Ahead(in, out)
  BY <1>1, <1>5 DEF Ahead, Forward
<1> QED BY <1>3, <1>4, <1>5

\* The content of a ring, from its oldest character on.
LEMMA PendingFacts ==
    ASSUME NEW buf \in [Slots -> Nat], NEW in \in Slots, NEW out \in Slots
    PROVE  /\ Pending(buf, in, out) \in Seq(Nat)
           /\ Len(Pending(buf, in, out)) = Ahead(in, out)
           /\ \A i \in 1..Ahead(in, out) :
                /\ Forward(out, i - 1) \in Slots
                /\ Ahead(Forward(out, i - 1), out) = i - 1
                /\ Pending(buf, in, out)[i] = buf[Forward(out, i - 1)]
<1>1. /\ BufLen \in Nat /\ BufLen >= 2 /\ in \in Nat /\ out \in Nat /\ in < BufLen /\ out < BufLen
      /\ (in - out) % BufLen = Ahead(in, out) /\ Ahead(in, out) \in Nat /\ Ahead(in, out) < BufLen
  BY SlotRange, RingArithmetic
<1>2. Pending(buf, in, out) = [i \in 1..Ahead(in, out) |-> buf[(out + i - 1) % BufLen]]
  BY <1>1 DEF Pending
<1>3. ASSUME NEW i \in 1..Ahead(in, out)
      PROVE  /\ Forward(out, i - 1) \in Slots /\ Ahead(Forward(out, i - 1), out) = i - 1
             /\ (out + i - 1) % BufLen = Forward(out, i - 1)
  <2>1. i - 1 \in Int /\ 0 <= i - 1 /\ i - 1 < BufLen
    BY <1>1
  <2>2. i - 1 \in Slots
    BY <2>1, SlotRange
  <2>3. Forward(out, i - 1) \in Slots /\ (out + (i - 1)) % BufLen = Forward(out, i - 1)
    BY <2>2, RingArithmetic
  <2>4. Ahead(Forward(out, i - 1), out) = i - 1
    BY <1>1, <2>1 DEF Ahead, Forward
  <2>5. out + (i - 1) = out + i - 1
    BY <1>1
  <2> QED BY <2>3, <2>4, <2>5
<1>4. \A i \in 1..Ahead(in, out) :
        Pending(buf, in, out)[i] = buf[Forward(out, i - 1)] /\ buf[Forward(out, i - 1)] \in Nat
  BY <1>2, <1>3
<1>5. Pending(buf, in, out) \in [1..Ahead(in, out) -> Nat]
  BY <1>2, <1>4
<1>6. Pending(buf, in, out) \in Seq(Nat) /\ Len(Pending(buf, in, out)) = Ahead(in, out)
  <2>1. \A k \in Nat : \A f \in [1..k -> Nat] : f \in Seq(Nat) /\ Len(f) = k
    OBVIOUS
  <2> QED BY <1>1, <1>5, <2>1
<1> QED BY <1>3, <1>4, <1>6

\* The smaller of two numbers.
LEMMA MinOfTwo ==
    ASSUME NEW a \in Int, NEW b \in Int
    PROVE  /\ Min({a, b}) \in {a, b}
           /\ Min({a, b}) <= a /\ Min({a, b}) <= b
<1>1. CASE a <= b
  <2>1. \E x \in {a, b} : \A y \in {a, b} : x <= y
    BY <1>1
  <2> QED BY <2>1 DEF Min
<1>2. CASE b <= a
  <2>1. \E x \in {a, b} : \A y \in {a, b} : x <= y
    BY <1>2
  <2> QED BY <2>1 DEF Min
<1> QED BY <1>1, <1>2

\* Two parts of a sequence.
LEMMA Parts ==
    ASSUME NEW S, NEW s \in Seq(S), NEW k \in Nat, k <= Len(s)
    PROVE  /\ SubSeq(s, 1, k) \in Seq(S) /\ Len(SubSeq(s, 1, k)) = k
           /\ \A i \in 1..k : SubSeq(s, 1, k)[i] = s[i]
           /\ SubSeq(s, k + 1, Len(s)) \in Seq(S) /\ Len(SubSeq(s, k + 1, Len(s))) = Len(s) - k
           /\ \A i \in 1..Len(s) - k : k + i \in 1..Len(s) /\ SubSeq(s, k + 1, Len(s))[i] = s[k + i]
<1>1. Len(s) \in Nat /\ k + 1 \in Int /\ \A i \in 1..Len(s) : s[i] \in S
  OBVIOUS
<1>2. /\ SubSeq(s, 1, k) \in Seq(S)
      /\ Len(SubSeq(s, 1, k)) = IF 1 <= k THEN k - 1 + 1 ELSE 0
      /\ \A i \in 1..(k - 1 + 1) : SubSeq(s, 1, k)[i] = s[1 + i - 1]
  <2>1. \A i \in 1..k : s[i] \in S
    BY <1>1
  <2> QED BY <1>1, <2>1, SubSeqProperties
<1>3. /\ SubSeq(s, k + 1, Len(s)) \in Seq(S)
      /\ Len(SubSeq(s, k + 1, Len(s))) = IF k + 1 <= Len(s) THEN Len(s) - (k + 1) + 1 ELSE 0
      /\ \A i \in 1..(Len(s) - (k + 1) + 1) : SubSeq(s, k + 1, Len(s))[i] = s[(k + 1) + i - 1]
  <2>1. \A i \in (k + 1)..Len(s) : s[i] \in S
    BY <1>1
  <2> QED BY <1>1, <2>1, SubSeqProperties
<1>4. \A i \in 1..Len(s) - k : k + i \in 1..Len(s) /\ (k + 1) + i - 1 = k + i
  BY <1>1
<1>5. Len(s) - (k + 1) + 1 = Len(s) - k /\ k - 1 + 1 = k /\ \A i \in 1..k : 1 + i - 1 = i
  BY <1>1
<1> DEFINE a == SubSeq(s, 1, k)
           b == SubSeq(s, k + 1, Len(s))
<1> HIDE DEF a, b
<1>6. a \in Seq(S) /\ Len(a) = k /\ \A i \in 1..k : a[i] = s[i]
  BY <1>1, <1>2, <1>5 DEF a
<1>7. b \in Seq(S)
  BY <1>3 DEF b
<1>8. Len(b) = Len(s) - k
  <2>1. Len(b) = IF k + 1 <= Len(s) THEN Len(s) - (k + 1) + 1 ELSE 0
    BY <1>3 DEF b
  <2> QED BY <1>1, <2>1
<1>9. \A i \in 1..Len(s) - k : k + i \in 1..Len(s) /\ b[i] = s[k + i]
  <2> TAKE i \in 1..Len(s) - k
  <2>1. k + i \in 1..Len(s) /\ (k + 1) + i - 1 = k + i /\ i \in 1..(Len(s) - (k + 1) + 1)
    BY <1>4, <1>5
  <2>2. b[i] = s[(k + 1) + i - 1]
    BY <1>3, <2>1 DEF b
  <2> QED BY <2>1, <2>2
<1> QED BY <1>6, <1>7, <1>8, <1>9 DEF a, b

\* The elements of two sequences in a row.
LEMMA Joined ==
    ASSUME NEW S, NEW s \in Seq(S), NEW t \in Seq(S)
    PROVE  /\ s \o t \in Seq(S) /\ Len(s \o t) = Len(s) + Len(t)
           /\ \A i \in 1..Len(s) + Len(t) :
                IF i <= Len(s) THEN i \in 1..Len(s) /\ (s \o t)[i] = s[i]
                ELSE i - Len(s) \in 1..Len(t) /\ (s \o t)[i] = t[i - Len(s)]
<1>1. s \o t \in Seq(S) /\ Len(s \o t) = Len(s) + Len(t) /\ Len(s) \in Nat /\ Len(t) \in Nat
  OBVIOUS
<1>2. ASSUME NEW i \in 1..Len(s) + Len(t), i <= Len(s)
      PROVE  i \in 1..Len(s) /\ (s \o t)[i] = s[i]
  BY <1>1, <1>2
<1>3. ASSUME NEW i \in 1..Len(s) + Len(t), ~(i <= Len(s))
      PROVE  i - Len(s) \in 1..Len(t) /\ (s \o t)[i] = t[i - Len(s)]
  <2>1. \A c, d \in Nat : \A j \in 1..c + d : ~(j <= c) => j - c \in 1..d
    OBVIOUS
  <2> QED BY <1>1, <1>3, <2>1
<1> QED BY <1>1, <1>2, <1>3

\* The interrupt routine: what it moves from the ring to the device.
LEMMA IrqTx ==
    ASSUME UartInv, Irq
    PROVE  /\ txfifo' \in Seq(Nat) /\ Len(txfifo') <= FifoLen /\ tx_out' \in Slots
           /\ InTx' <= InTx /\ InTx' \in Nat
           /\ Len(hostGot') + Len(txfifo') + InTx' = Len(hostGot) + Len(txfifo) + InTx
           /\ \A i \in 1..Len(txfifo') : txfifo'[i] = Len(hostGot') + i
           /\ \A s \in Slots : Ahead(s, tx_out') < InTx' =>
                tx_buf'[s] = Len(hostGot') + Len(txfifo') + Ahead(s, tx_out') + 1
           /\ "WE" \in irq_enable => "WE" \in irq_enable' \/ tx_in' = tx_out'
<1> DEFINE m == Sent
           p == Pending(tx_buf, tx_in, tx_out)
           u == SubSeq(p, 1, m)
<1>1. /\ tx_buf \in [Slots -> Nat] /\ tx_in \in Slots /\ tx_out \in Slots
      /\ txfifo \in Seq(Nat) /\ Len(txfifo) \in Nat /\ Len(txfifo) <= FifoLen
      /\ hostGot \in Seq(Nat) /\ Len(hostGot) \in Nat /\ FifoLen \in Nat
      /\ \A i \in 1..Len(txfifo) : txfifo[i] = Len(hostGot) + i
      /\ \A s \in Slots : Ahead(s, tx_out) < InTx =>
           tx_buf[s] = Len(hostGot) + Len(txfifo) + Ahead(s, tx_out) + 1
  BY LengthsAssumption, SMTT(30) DEF UartInv, UartTypeOK, TxPlaced
<1>2. /\ InTx \in Nat /\ InTx < BufLen /\ (tx_in - tx_out) % BufLen = InTx /\ BufLen \in Nat
      /\ \A s \in Slots : Ahead(s, tx_out) \in Nat
  BY <1>1, RingArithmetic, SlotRange DEF InTx
<1>3. /\ m \in Nat /\ m <= InTx /\ m <= FifoLen - Len(txfifo)
      /\ "WE" \in SwitchedOff => m = InTx
  <2>1. CASE WritePending
    <3>1. m = Min({FifoLen - Len(txfifo), InTx})
      BY <1>2, <2>1 DEF Sent
    <3>2. FifoLen - Len(txfifo) \in Int /\ InTx \in Int
      BY <1>1, <1>2
    <3> HIDE DEF m
    <3>3. m \in {FifoLen - Len(txfifo), InTx} /\ m <= FifoLen - Len(txfifo) /\ m <= InTx
      BY <3>1, <3>2, MinOfTwo
    <3>4. "WE" \in SwitchedOff => m < FifoLen - Len(txfifo)
      BY DEF SwitchedOff, m
    <3> QED BY <1>1, <1>2, <3>3, <3>4
  <2>2. CASE ~WritePending
    BY <1>1, <1>2, <2>2 DEF Sent, SwitchedOff
  <2> QED BY <2>1, <2>2
<1>4. /\ txfifo' = txfifo \o u /\ tx_out' = (tx_out + m) % BufLen
      /\ irq_enable' = irq_enable \ SwitchedOff
      /\ UNCHANGED <<tx_buf, tx_in, hostGot>>
  BY DEF Irq, history
<1>5. /\ p \in Seq(Nat) /\ Len(p) = InTx
      /\ \A i \in 1..InTx : p[i] = Len(hostGot) + Len(txfifo) + i
  <2>1. /\ p \in Seq(Nat) /\ Len(p) = Ahead(tx_in, tx_out)
        /\ \A i \in 1..Ahead(tx_in, tx_out) :
             /\ Forward(tx_out, i - 1) \in Slots
             /\ Ahead(Forward(tx_out, i - 1), tx_out) = i - 1
             /\ p[i] = tx_buf[Forward(tx_out, i - 1)]
    BY <1>1, PendingFacts
  <2> HIDE DEF p
  <2>2. ASSUME NEW i \in 1..InTx PROVE p[i] = Len(hostGot) + Len(txfifo) + i
    <3>1. Ahead(Forward(tx_out, i - 1), tx_out) < InTx
      BY <1>2, <2>1 DEF InTx
    <3> QED BY <1>1, <1>2, <2>1, <3>1 DEF InTx
  <2> QED BY <2>1, <2>2 DEF InTx
<1> HIDE DEF m, p
<1>6. /\ u \in Seq(Nat) /\ Len(u) = m
      /\ \A i \in 1..m : u[i] = Len(hostGot) + Len(txfifo) + i
  <2>1. m <= Len(p)
    BY <1>3, <1>5
  <2>2. u \in Seq(Nat) /\ Len(u) = m /\ \A i \in 1..m : u[i] = p[i]
    BY <1>3, <1>5, <2>1, Parts
  <2>3. \A i \in 1..m : i \in 1..InTx
    BY <1>2, <1>3
  <2> HIDE DEF u
  <2> QED BY <1>5, <2>2, <2>3
<1> HIDE DEF u
<1>7. /\ txfifo' \in Seq(Nat) /\ Len(txfifo') = Len(txfifo) + m
      /\ \A i \in 1..Len(txfifo) + m :
           IF i <= Len(txfifo) THEN i \in 1..Len(txfifo) /\ txfifo'[i] = txfifo[i]
           ELSE i - Len(txfifo) \in 1..m /\ txfifo'[i] = u[i - Len(txfifo)]
  <2>1. txfifo' = txfifo \o u
    BY <1>4 DEF u
  <2>2. txfifo \in Seq(Nat) /\ u \in Seq(Nat) /\ Len(u) = m
    BY <1>1, <1>6
  <2> QED BY <2>1, <2>2, Joined
<1>8. \A i \in 1..Len(txfifo') : txfifo'[i] = Len(hostGot') + i
  <2> SUFFICES ASSUME NEW i \in 1..Len(txfifo) + m PROVE txfifo'[i] = Len(hostGot) + i
    BY <1>4, <1>7
  <2>1. CASE i <= Len(txfifo)
    BY <1>1, <1>7, <2>1
  <2>2. CASE ~(i <= Len(txfifo))
    <3>1. i - Len(txfifo) \in 1..m /\ txfifo'[i] = u[i - Len(txfifo)]
      BY <1>7, <2>2
    <3>2. u[i - Len(txfifo)] = Len(hostGot) + Len(txfifo) + (i - Len(txfifo))
      BY <1>6, <3>1
    <3> QED BY <1>1, <3>1, <3>2
  <2> QED BY <2>1, <2>2
<1>9. /\ tx_out' \in Slots /\ InTx' = InTx - m
      /\ \A s \in Slots : Ahead(s, tx_out') < InTx' =>
           Ahead(s, tx_out) = Ahead(s, tx_out') + m /\ Ahead(s, tx_out) < InTx
  <2>1. /\ Forward(tx_out, m) \in Slots /\ (tx_out + m) % BufLen = Forward(tx_out, m)
        /\ Ahead(tx_in, Forward(tx_out, m)) = Ahead(tx_in, tx_out) - m
        /\ \A s \in Slots : Ahead(s, Forward(tx_out, m)) < Ahead(tx_in, tx_out) - m =>
             /\ Ahead(s, tx_out) = Ahead(s, Forward(tx_out, m)) + m
             /\ Ahead(s, tx_out) < Ahead(tx_in, tx_out)
    BY <1>1, <1>3, RingShrinks DEF InTx
  <2>2. tx_out' = Forward(tx_out, m) /\ tx_in' = tx_in
    BY <1>4, <2>1
  <2>3. InTx' = Ahead(tx_in, Forward(tx_out, m))
    BY <2>2 DEF InTx
  <2> QED BY <2>1, <2>2, <2>3 DEF InTx
<1>10. \A s \in Slots : Ahead(s, tx_out') < InTx' =>
         tx_buf'[s] = Len(hostGot') + Len(txfifo') + Ahead(s, tx_out') + 1
  <2> SUFFICES ASSUME NEW s \in Slots, Ahead(s, tx_out') < InTx'
               PROVE  tx_buf'[s] = Len(hostGot') + Len(txfifo') + Ahead(s, tx_out') + 1
    OBVIOUS
  <2>1. Ahead(s, tx_out) = Ahead(s, tx_out') + m /\ Ahead(s, tx_out) < InTx
    BY <1>9
  <2>2. tx_buf[s] = Len(hostGot) + Len(txfifo) + Ahead(s, tx_out) + 1
    BY <1>1, <2>1
  <2>3. Ahead(s, tx_out') \in Nat
    BY <1>9, RingArithmetic, SlotRange
  <2> QED BY <1>1, <1>3, <1>4, <1>7, <2>1, <2>2, <2>3
<1>11. "WE" \in irq_enable => "WE" \in irq_enable' \/ tx_in' = tx_out'
  <2>1. "WE" \in SwitchedOff => InTx' = 0
    BY <1>2, <1>3, <1>9
  <2>2. InTx' = 0 => tx_in' = tx_out'
    BY <1>1, <1>4, <1>9, RingArithmetic DEF InTx
  <2> QED BY <1>4, <2>1, <2>2
<1> QED BY <1>1, <1>2, <1>3, <1>4, <1>7, <1>8, <1>9, <1>10, <1>11, SMTT(30)

\* And what it moves from the device to the ring.
LEMMA IrqRx ==
    ASSUME UartInv, Irq
    PROVE  /\ rxfifo' \in Seq(Nat) /\ Len(rxfifo') <= FifoLen
           /\ rx_buf' \in [Slots -> Nat] /\ rx_in' \in Slots
           /\ InRx' >= InRx /\ InRx' \in Nat
           /\ InRx' + Len(rxfifo') = InRx + Len(rxfifo)
           /\ \A s \in Slots : Ahead(s, rx_out) < InRx' =>
                rx_buf'[s] = Len(got) - Copied + Ahead(s, rx_out) + 1
           /\ \A i \in 1..Len(rxfifo') : rxfifo'[i] = Len(got) - Copied + InRx' + i
           /\ "RE" \in irq_enable => "RE" \in irq_enable' \/ Free(rx_in, rx_out)' = 0
<1> DEFINE r == Received
           base == Len(got) - Copied
<1>1. /\ rx_buf \in [Slots -> Nat] /\ rx_in \in Slots /\ rx_out \in Slots
      /\ rxfifo \in Seq(Nat) /\ Len(rxfifo) \in Nat /\ Len(rxfifo) <= FifoLen /\ FifoLen \in Nat
  BY LengthsAssumption DEF UartInv, UartTypeOK
<1>12. Copied \in Nat /\ Len(got) \in Nat
  BY DEF UartInv, UartTypeOK, Copied, CallType
<1>11. /\ base \in Int
       /\ \A s \in Slots : Ahead(s, rx_out) < InRx => rx_buf[s] = base + Ahead(s, rx_out) + 1
       /\ \A i \in 1..Len(rxfifo) : rxfifo[i] = base + InRx + i
  BY <1>12 DEF UartInv, RxPlaced
<1>2. /\ InRx \in Nat /\ InRx < BufLen /\ BufLen \in Nat
      /\ Free(rx_in, rx_out) = BufLen - 1 - InRx
      /\ \A s \in Slots : /\ Ahead(s, rx_out) \in Nat /\ Ahead(s, rx_in) \in Nat
                          /\ (s - rx_in) % BufLen = Ahead(s, rx_in)
  BY <1>1, RingArithmetic, SlotRange DEF InRx
<1>3. /\ r \in Nat /\ r <= Len(rxfifo) /\ InRx + r <= BufLen - 1
      /\ "RE" \in SwitchedOff => InRx + r = BufLen - 1
  <2>1. CASE ReadPending
    <3>1. r = Min({Len(rxfifo), BufLen - 1 - InRx})
      BY <1>2, <2>1 DEF Received
    <3>2. Len(rxfifo) \in Int /\ BufLen - 1 - InRx \in Int /\ BufLen - 1 - InRx >= 0
      BY <1>1, <1>2
    <3> HIDE DEF r
    <3>3. r \in {Len(rxfifo), BufLen - 1 - InRx} /\ r <= Len(rxfifo) /\ r <= BufLen - 1 - InRx
      BY <3>1, <3>2, MinOfTwo
    <3>4. "RE" \in SwitchedOff => r < Len(rxfifo)
      BY DEF SwitchedOff, r
    <3> QED BY <1>1, <1>2, <3>2, <3>3, <3>4
  <2>2. CASE ~ReadPending
    BY <1>1, <1>2, <2>2 DEF Received, SwitchedOff
  <2> QED BY <2>1, <2>2
<1>4. /\ rx_buf' = [s \in Slots |-> IF Ahead(s, rx_in) < r THEN rxfifo[Ahead(s, rx_in) + 1] ELSE rx_buf[s]]
      /\ rx_in' = (rx_in + r) % BufLen
      /\ rxfifo' = SubSeq(rxfifo, r + 1, Len(rxfifo))
      /\ irq_enable' = irq_enable \ SwitchedOff
      /\ rx_out' = rx_out
  <2>1. rx_buf' = [s \in Slots |-> LET i == (s - rx_in) % BufLen
                                   IN IF i < r THEN rxfifo[i + 1] ELSE rx_buf[s]]
    BY DEF Irq
  <2> QED BY <1>2, <2>1 DEF Irq
<1> HIDE DEF r, base
<1>5. /\ rxfifo' \in Seq(Nat) /\ Len(rxfifo') = Len(rxfifo) - r
      /\ \A i \in 1..Len(rxfifo) - r : r + i \in 1..Len(rxfifo) /\ rxfifo'[i] = rxfifo[r + i]
  <2>1. /\ SubSeq(rxfifo, r + 1, Len(rxfifo)) \in Seq(Nat)
        /\ Len(SubSeq(rxfifo, r + 1, Len(rxfifo))) = Len(rxfifo) - r
        /\ \A i \in 1..Len(rxfifo) - r :
             r + i \in 1..Len(rxfifo) /\ SubSeq(rxfifo, r + 1, Len(rxfifo))[i] = rxfifo[r + i]
    BY <1>1, <1>3, Parts
  <2> QED BY <1>4, <2>1
<1>6. /\ rx_in' \in Slots /\ InRx' = InRx + r
      /\ \A s \in Slots : Ahead(s, rx_out) < InRx + r =>
           IF Ahead(s, rx_out) < InRx THEN Ahead(s, rx_in) >= r
           ELSE Ahead(s, rx_in) = Ahead(s, rx_out) - InRx /\ Ahead(s, rx_in) < r
  <2>1. /\ Forward(rx_in, r) \in Slots /\ (rx_in + r) % BufLen = Forward(rx_in, r)
        /\ Ahead(Forward(rx_in, r), rx_out) = Ahead(rx_in, rx_out) + r
        /\ \A s \in Slots : IF Ahead(s, rx_out) < Ahead(rx_in, rx_out) + r
                            THEN IF Ahead(s, rx_out) < Ahead(rx_in, rx_out) THEN Ahead(s, rx_in) >= r
                                 ELSE /\ Ahead(s, rx_in) = Ahead(s, rx_out) - Ahead(rx_in, rx_out)
                                      /\ Ahead(s, rx_in) < r
                            ELSE Ahead(s, rx_in) >= r
    BY <1>1, <1>3, RingGrows DEF InRx
  <2>2. rx_in' = Forward(rx_in, r) /\ rx_out' = rx_out
    BY <1>4, <2>1
  <2>3. InRx' = Ahead(Forward(rx_in, r), rx_out)
    BY <2>2 DEF InRx
  <2> QED BY <2>1, <2>2, <2>3 DEF InRx
<1>7. rx_buf' \in [Slots -> Nat]
  <2>1. \A s \in Slots : Ahead(s, rx_in) < r => rxfifo[Ahead(s, rx_in) + 1] \in Nat
    <3>1. \A s \in Slots : Ahead(s, rx_in) < r => Ahead(s, rx_in) + 1 \in 1..Len(rxfifo)
      <4> TAKE s \in Slots
      <4>1. Ahead(s, rx_in) \in Nat
        BY <1>2
      <4> QED BY <1>1, <1>3, <4>1
    <3> QED BY <1>1, <3>1
  <2> QED BY <1>1, <1>4, <2>1
<1>8. \A s \in Slots : Ahead(s, rx_out) < InRx' => rx_buf'[s] = base + Ahead(s, rx_out) + 1
  <2> SUFFICES ASSUME NEW s \in Slots, Ahead(s, rx_out) < InRx + r
               PROVE  rx_buf'[s] = base + Ahead(s, rx_out) + 1
    BY <1>6
  <2>1. rx_buf'[s] = IF Ahead(s, rx_in) < r THEN rxfifo[Ahead(s, rx_in) + 1] ELSE rx_buf[s]
    BY <1>4
  <2>2. CASE Ahead(s, rx_out) < InRx
    <3>1. ~(Ahead(s, rx_in) < r)
      BY <1>2, <1>3, <1>6, <2>2
    <3> QED BY <1>11, <2>1, <2>2, <3>1
  <2>3. CASE ~(Ahead(s, rx_out) < InRx)
    <3>1. Ahead(s, rx_in) = Ahead(s, rx_out) - InRx /\ Ahead(s, rx_in) < r
      BY <1>6, <2>3
    <3>2. Ahead(s, rx_in) \in Nat /\ Ahead(s, rx_out) \in Nat /\ InRx \in Nat /\ base \in Int
      BY <1>2, <1>11
    <3>3. Ahead(s, rx_in) + 1 \in 1..Len(rxfifo)
      BY <1>1, <1>3, <3>1, <3>2, SMTT(30)
    <3>4. rxfifo[Ahead(s, rx_in) + 1] = base + InRx + (Ahead(s, rx_in) + 1)
      BY <1>11, <3>3
    <3> QED BY <2>1, <3>1, <3>2, <3>4
  <2> QED BY <2>2, <2>3
<1>9. \A i \in 1..Len(rxfifo') : rxfifo'[i] = base + InRx' + i
  <2> SUFFICES ASSUME NEW i \in 1..Len(rxfifo) - r PROVE rxfifo'[i] = base + InRx' + i
    BY <1>5
  <2>1. r + i \in 1..Len(rxfifo) /\ rxfifo'[i] = rxfifo[r + i]
    BY <1>5
  <2>2. rxfifo[r + i] = base + InRx + (r + i)
    BY <1>11, <2>1
  <2>3. base \in Int /\ InRx \in Nat /\ r \in Nat /\ i \in Int /\ InRx' = InRx + r
    BY <1>2, <1>3, <1>6, <1>11
  <2> QED BY <2>1, <2>2, <2>3
<1>10. "RE" \in irq_enable => "RE" \in irq_enable' \/ Free(rx_in, rx_out)' = 0
  <2>1. Free(rx_in', rx_out') = BufLen - 1 - Ahead(rx_in', rx_out')
    BY <1>1, <1>4, <1>6, RingArithmetic
  <2>2. Free(rx_in, rx_out)' = BufLen - 1 - InRx'
    BY <2>1 DEF InRx
  <2>3. "RE" \in SwitchedOff => Free(rx_in, rx_out)' = 0
    BY <1>2, <1>3, <1>6, <2>2
  <2> QED BY <1>4, <2>3
<1>13. InRx' \in Nat /\ InRx' >= InRx /\ Len(rxfifo') <= FifoLen
       /\ InRx' + Len(rxfifo') = InRx + Len(rxfifo)
  BY <1>1, <1>2, <1>3, <1>5, <1>6
<1> QED BY <1>5, <1>6, <1>7, <1>8, <1>9, <1>10, <1>13 DEF base

\* The fields of a call.
LEMMA CallFields ==
    ASSUME UartTypeOK
    PROVE  /\ call.at \in WriteLabels \cup ReadLabels \cup {"idle", "c_wait"}
           /\ call.nonblock \in BOOLEAN /\ call.left \in Nat /\ call.moved \in Nat
           /\ call.in \in Slots /\ call.out \in Slots /\ call.n \in Nat
           /\ Published \in Nat /\ Copied \in Nat /\ InTx \in Nat /\ InRx \in Nat
<1>1. call \in CallType /\ accepted \in Nat
      /\ tx_in \in Slots /\ tx_out \in Slots /\ rx_in \in Slots /\ rx_out \in Slots
  BY DEF UartTypeOK
<1>2. /\ call.at \in WriteLabels \cup ReadLabels \cup {"idle", "c_wait"}
      /\ call.nonblock \in BOOLEAN /\ call.left \in Nat /\ call.moved \in Nat
      /\ call.in \in Slots /\ call.out \in Slots /\ call.n \in Nat
  BY <1>1 DEF CallType
<1>3. Published \in Nat /\ Copied \in Nat
  BY <1>1, <1>2 DEF Published, Copied
<1>4. InTx \in Slots /\ InRx \in Slots
  BY <1>1, RingArithmetic DEF InTx, InRx
<1> QED BY <1>2, <1>3, <1>4, SlotRange

\* What a writer may fill without going round, and a reader may take.
LEMMA RoomFits ==
    ASSUME NEW in \in Slots, NEW out \in Slots
    PROVE  /\ Room(in, out) \in Nat
           /\ in + Room(in, out) <= BufLen /\ Room(in, out) + Ahead(in, out) <= BufLen - 1
           /\ Available(in, out) \in Nat
           /\ out + Available(in, out) <= BufLen /\ Available(in, out) <= Ahead(in, out)
<1>1. /\ BufLen \in Nat /\ in \in Nat /\ out \in Nat /\ in < BufLen /\ out < BufLen
  BY SlotRange
<1> QED BY <1>1 DEF Room, Available, Ahead

\* The characters of either direction, when a step leaves them where they are.
LEMMA TxKept ==
    ASSUME TxPlaced, UNCHANGED <<tx_buf, tx_in, tx_out, txfifo, hostGot>>, Published' = Published
    PROVE  TxPlaced'
<1>1. InTx' = InTx
  BY DEF InTx
<1> HIDE DEF Published, InTx
<1> QED BY <1>1 DEF TxPlaced

\* The same for the other direction.
LEMMA RxKept ==
    ASSUME RxPlaced, UNCHANGED <<rx_buf, rx_in, rx_out, rxfifo, got, hostSent>>, Copied' = Copied
    PROVE  RxPlaced'
<1>1. InRx' = InRx
  BY DEF InRx
<1> QED BY <1>1 DEF RxPlaced

\* A step of a call that moves no character.
LEMMA MovesNothing ==
    ASSUME UartInv, UNCHANGED <<rings, clock, device, hostGot, hostSent, got>>,
           irq_enable' \subseteq {"RE", "WE"}, call' \in CallType, accepted' \in Nat,
           Published' = Published, Copied' = Copied, TxHeld', RxHeld', NoStall'
    PROVE  UartInv'
<1>1. /\ UNCHANGED <<tx_buf, tx_in, tx_out, txfifo, hostGot>>
      /\ UNCHANGED <<rx_buf, rx_in, rx_out, rxfifo, got, hostSent>>
      /\ UNCHANGED <<host_inactive, timeout>>
  BY DEF rings, clock, device
<1>2. UartTypeOK'
  BY <1>1 DEF UartInv, UartTypeOK, INT_MAX
<1>3. TxPlaced' /\ RxPlaced'
  BY <1>1, TxKept, RxKept DEF UartInv
<1> QED BY <1>2, <1>3 DEF UartInv

\* A call that begins.
LEMMA StepBegin ==
    ASSUME UartInv, NEW label \in {"w_look", "r_look", "c_wait"}, NEW nonblock \in BOOLEAN,
           NEW left \in Nat, call.at = "idle",
           call' = [at |-> label, nonblock |-> nonblock, left |-> left, moved |-> 0,
                    in |-> 0, out |-> 0, n |-> 0],
           UNCHANGED <<rings, irq_enable, clock, device, history>>
    PROVE  UartInv'
<1>2. 0 \in Slots
  BY SlotRange
<1>3. call' \in CallType
  BY <1>2 DEF CallType, WriteLabels, ReadLabels
<1>4. accepted' = accepted /\ accepted \in Nat /\ UNCHANGED <<hostGot, hostSent, got>>
  BY DEF history, UartInv, UartTypeOK
<1>5. Published' = Published /\ Copied' = Copied
  <2>1. call'.at = label /\ call'.moved = 0
    OBVIOUS
  <2>2. Copied' = Copied
    BY <2>1 DEF Copied
  <2>3. Published' = accepted
    BY <1>4, <2>1 DEF Published
  <2>4. Published = accepted
    BY <1>4 DEF Published, WriteLabels
  <2> QED BY <2>2, <2>3, <2>4
<1>6. TxHeld' /\ RxHeld'
  BY DEF TxHeld, RxHeld
<1>7. NoStall'
  <2>1. UNCHANGED <<tx_in, tx_out, rx_in, rx_out>>
    BY DEF rings
  <2> QED BY <2>1 DEF UartInv, NoStall, Free
<1>8. irq_enable' \subseteq {"RE", "WE"}
  BY DEF UartInv, UartTypeOK
<1> QED BY <1>3, <1>4, <1>5, <1>6, <1>7, <1>8, MovesNothing

\* A step of a call that goes to another label and at most switches an interrupt on.
LEMMA StepGoto ==
    ASSUME UartInv, NEW label \in WriteLabels \cup ReadLabels,
           call.at \in WriteLabels \/ call.at \in ReadLabels,
           label \notin {"w_copy", "w_publish", "r_copy", "r_publish"},
           call.at \notin {"r_publish"},
           call.at \in WriteLabels <=> label \in WriteLabels,
           call' = Goto(label), irq_enable \subseteq irq_enable', irq_enable' \subseteq {"RE", "WE"},
           UNCHANGED <<rings, clock, device, history>>,
           "WE" \in irq_enable' \/ call.at \in {"w_wait"} \cup ReadLabels,
           "RE" \in irq_enable' \/ call.at \in {"r_wait"} \cup WriteLabels
    PROVE  UartInv'
<1>1. call \in CallType /\ accepted \in Nat /\ UNCHANGED <<accepted, hostGot, hostSent, got>>
  BY DEF history, UartInv, UartTypeOK
<1>2. call' \in CallType /\ call'.at = label /\ call'.moved = call.moved
  BY <1>1 DEF CallType, Goto
<1>3. Published' = Published
  BY <1>1, <1>2 DEF Published
<1>4. Copied' = Copied
  BY <1>2 DEF Copied
<1>5. TxHeld' /\ RxHeld'
  BY <1>2 DEF TxHeld, RxHeld
<1>6. UNCHANGED <<tx_in, tx_out, rx_in, rx_out>>
  BY DEF rings
<1>7. NoStall'
  BY <1>2, <1>6 DEF UartInv, NoStall, Free, WriteLabels, ReadLabels
<1> QED BY <1>1, <1>2, <1>3, <1>4, <1>5, <1>7, MovesNothing

\* The call ends.
LEMMA StepReturn ==
    ASSUME UartInv, call.at \in {"w_return", "r_return", "c_wait"}, call' = Idle,
           accepted' = Published, UNCHANGED <<rings, irq_enable, clock, device, hostGot, hostSent, got>>
    PROVE  UartInv'
<1>1. 0 \in Slots
  BY SlotRange
<1>2. call' \in CallType /\ call'.at = "idle"
  BY <1>1 DEF CallType, Idle
<1>3. accepted' \in Nat
  BY CallFields DEF UartInv
<1>4. Published' = Published /\ Copied' = Copied
  BY <1>2, <1>3 DEF Published, Copied, WriteLabels
<1>5. TxHeld' /\ RxHeld'
  BY <1>2 DEF TxHeld, RxHeld
<1>6. UNCHANGED <<tx_in, tx_out, rx_in, rx_out>>
  BY DEF rings
<1>7. NoStall'
  BY <1>6 DEF UartInv, NoStall, Free
<1>8. irq_enable' \subseteq {"RE", "WE"}
  BY DEF UartInv, UartTypeOK
<1> QED BY <1>2, <1>3, <1>4, <1>5, <1>7, <1>8, MovesNothing

\* The writer looks up how much it may fill.
LEMMA StepWriteLook ==
    ASSUME UartInv, WriteLook
    PROVE  UartInv'
<1> DEFINE n == Min({Room(tx_in, tx_out), call.left})
<1>1. /\ UartTypeOK /\ tx_in \in Slots /\ tx_out \in Slots /\ call \in CallType /\ call.left \in Nat
      /\ accepted \in Nat
  BY CallFields DEF UartInv, UartTypeOK
<1>2. n \in Nat /\ n <= call.left /\ n <= Room(tx_in, tx_out)
  <2>1. Room(tx_in, tx_out) \in Nat
    BY <1>1, RoomFits
  <2>2. n \in {Room(tx_in, tx_out), call.left} /\ n <= Room(tx_in, tx_out) /\ n <= call.left
    <3>1. call.left \in Int /\ Room(tx_in, tx_out) \in Int
      BY <1>1, <2>1
    <3> HIDE DEF n
    <3>2. n = Min({Room(tx_in, tx_out), call.left})
      BY DEF n
    <3> QED BY <3>1, <3>2, MinOfTwo
  <2> HIDE DEF n
  <2> QED BY <1>1, <2>1, <2>2
<1>3. /\ call' = [call EXCEPT !.at = IF n = 0 THEN "w_kick" ELSE "w_copy",
                             !.in = tx_in, !.out = tx_out, !.n = n]
      /\ call.at = "w_look"
      /\ UNCHANGED <<rings, irq_enable, clock, device, history>>
  BY DEF WriteLook
<1> HIDE DEF n
<1>4. /\ call' \in CallType /\ call'.at = (IF n = 0 THEN "w_kick" ELSE "w_copy")
      /\ call'.in = tx_in /\ call'.n = n /\ call'.left = call.left /\ call'.moved = call.moved
  <2>1. (IF n = 0 THEN "w_kick" ELSE "w_copy") \in WriteLabels
    BY DEF WriteLabels
  <2> QED BY <1>1, <1>2, <1>3, <2>1 DEF CallType
<1>5. UNCHANGED <<accepted, hostGot, hostSent, got>> /\ UNCHANGED <<tx_buf, tx_in, tx_out, rx_in, rx_out>>
  BY <1>3 DEF history, rings
<1>6. Published' = Published
  BY <1>3, <1>4, <1>5 DEF Published, WriteLabels
<1>7. Copied' = Copied
  BY <1>3, <1>4 DEF Copied
<1>8. TxHeld'
  <2>1. InTx' = InTx /\ InTx = Ahead(tx_in, tx_out)
    BY <1>5 DEF InTx
  <2>2. /\ tx_in + Room(tx_in, tx_out) <= BufLen
        /\ Room(tx_in, tx_out) + Ahead(tx_in, tx_out) <= BufLen - 1
        /\ Room(tx_in, tx_out) \in Nat
    BY <1>1, RoomFits
  <2>3. tx_in \in Nat /\ BufLen \in Nat /\ Ahead(tx_in, tx_out) \in Nat
    BY <1>1, SlotRange, RingArithmetic
  <2>4. tx_in + n <= BufLen /\ n + InTx' <= BufLen - 1
    BY <1>2, <2>1, <2>2, <2>3
  <2> QED BY <1>2, <1>4, <1>5, <2>4 DEF TxHeld
<1>9. RxHeld'
  BY <1>4 DEF RxHeld
<1>10. NoStall'
  BY <1>3, <1>4, <1>5 DEF UartInv, NoStall, Free
<1>11. irq_enable' \subseteq {"RE", "WE"}
  BY <1>3 DEF UartInv, UartTypeOK
<1> QED BY <1>1, <1>3, <1>4, <1>5, <1>6, <1>7, <1>8, <1>9, <1>10, <1>11, MovesNothing

\* The reader looks up how much it may take.
LEMMA StepReadLook ==
    ASSUME UartInv, ReadLook
    PROVE  UartInv'
<1> DEFINE n == Min({Available(rx_in, rx_out), call.left})
           label == IF n > 0 THEN "r_copy"
                    ELSE IF call.moved > 0 THEN "r_enable"
                    ELSE IF call.nonblock THEN "r_return" ELSE "r_wait"
<1>1. /\ UartTypeOK /\ rx_in \in Slots /\ rx_out \in Slots /\ call \in CallType /\ call.left \in Nat
      /\ accepted \in Nat /\ call.moved \in Nat
  BY CallFields DEF UartInv, UartTypeOK
<1>2. n \in Nat /\ n <= call.left /\ n <= Available(rx_in, rx_out)
  <2>1. Available(rx_in, rx_out) \in Nat
    BY <1>1, RoomFits
  <2>2. n \in {Available(rx_in, rx_out), call.left} /\ n <= Available(rx_in, rx_out) /\ n <= call.left
    <3>1. call.left \in Int /\ Available(rx_in, rx_out) \in Int
      BY <1>1, <2>1
    <3> HIDE DEF n
    <3>2. n = Min({Available(rx_in, rx_out), call.left})
      BY DEF n
    <3> QED BY <3>1, <3>2, MinOfTwo
  <2> HIDE DEF n
  <2> QED BY <1>1, <2>1, <2>2
<1>3. /\ call' = [call EXCEPT !.in = rx_in, !.out = rx_out, !.n = n, !.at = label]
      /\ call.at = "r_look"
      /\ UNCHANGED <<rings, irq_enable, clock, device, history>>
  BY DEF ReadLook
<1> HIDE DEF n
<1>4. /\ call' \in CallType /\ call'.at = label
      /\ call'.out = rx_out /\ call'.n = n /\ call'.left = call.left /\ call'.moved = call.moved
  <2>1. label \in ReadLabels
    BY DEF ReadLabels
  <2> HIDE DEF label
  <2> QED BY <1>1, <1>2, <1>3, <2>1 DEF CallType
<1>5. UNCHANGED <<accepted, hostGot, hostSent, got>> /\ UNCHANGED <<tx_buf, tx_in, tx_out, rx_in, rx_out>>
  BY <1>3 DEF history, rings
<1>6. Published' = Published
  BY <1>3, <1>4, <1>5 DEF Published, WriteLabels
<1>7. Copied' = Copied
  BY <1>3, <1>4 DEF Copied
<1>8. RxHeld'
  <2>1. InRx' = InRx /\ InRx = Ahead(rx_in, rx_out)
    BY <1>5 DEF InRx
  <2>2. /\ rx_out + Available(rx_in, rx_out) <= BufLen
        /\ Available(rx_in, rx_out) <= Ahead(rx_in, rx_out)
        /\ Available(rx_in, rx_out) \in Nat
    BY <1>1, RoomFits
  <2>3. rx_out \in Nat /\ BufLen \in Nat /\ Ahead(rx_in, rx_out) \in Nat
    BY <1>1, SlotRange, RingArithmetic
  <2>4. rx_out + n <= BufLen /\ n <= InRx'
    BY <1>2, <2>1, <2>2, <2>3
  <2> QED BY <1>2, <1>4, <1>5, <2>4 DEF RxHeld
<1>9. TxHeld'
  BY <1>4 DEF TxHeld
<1>10. NoStall'
  BY <1>1, <1>2, <1>3, <1>4, <1>5 DEF UartInv, NoStall, Free
<1>11. irq_enable' \subseteq {"RE", "WE"}
  BY <1>3 DEF UartInv, UartTypeOK
<1> QED BY <1>1, <1>3, <1>4, <1>5, <1>6, <1>7, <1>8, <1>9, <1>10, <1>11, MovesNothing

\* The writer fills slots that are not in the ring yet.
LEMMA StepWriteCopy ==
    ASSUME UartInv, WriteCopy
    PROVE  UartInv'
<1> DEFINE n == call.n
<1>1. /\ tx_buf \in [Slots -> Nat] /\ tx_in \in Slots /\ tx_out \in Slots /\ call \in CallType
      /\ accepted \in Nat /\ call.moved \in Nat /\ n \in Nat /\ InTx \in Nat /\ Published \in Nat
  BY CallFields DEF UartInv, UartTypeOK
<1>2. /\ tx_buf' = [s \in Slots |-> IF s \in call.in .. call.in + n - 1
                                    THEN accepted + call.moved + 1 + s - call.in ELSE tx_buf[s]]
      /\ call' = Goto("w_publish") /\ call.at = "w_copy"
      /\ UNCHANGED <<tx_in, tx_out, rx_buf, rx_in, rx_out, irq_enable>>
      /\ UNCHANGED <<host_inactive, timeout, txfifo, rxfifo, accepted, hostGot, hostSent, got>>
  BY DEF WriteCopy, clock, device, history
<1>3. /\ call.in = tx_in /\ n >= 1 /\ n <= call.left
      /\ call.in + n <= BufLen /\ n + InTx <= BufLen - 1
  BY <1>2 DEF UartInv, TxHeld
<1>4. /\ BufLen \in Nat /\ tx_in \in Nat /\ \A s \in Slots : s \in Nat /\ s < BufLen
      /\ \A s \in Slots : Ahead(s, tx_out) \in Nat /\ Ahead(s, tx_in) \in Nat
  BY <1>1, SlotRange, RingArithmetic
<1>5. /\ call' \in CallType /\ call'.at = "w_publish" /\ call'.moved = call.moved
      /\ call'.in = call.in /\ call'.n = n /\ call'.left = call.left
  BY <1>1, <1>2 DEF CallType, Goto, WriteLabels
<1>6. Published = accepted + call.moved /\ Published' = Published /\ Copied' = Copied
  BY <1>2, <1>5 DEF Published, Copied, WriteLabels
<1>7. tx_buf' \in [Slots -> Nat]
  <2>1. ASSUME NEW s \in Slots, s \in call.in .. call.in + n - 1
        PROVE  accepted + call.moved + 1 + s - call.in \in Nat
    BY <1>1, <1>3, <1>4, <2>1
  <2> QED BY <1>1, <1>2, <2>1
<1>8. UartTypeOK'
  BY <1>2, <1>5, <1>7 DEF UartInv, UartTypeOK, INT_MAX
<1>9. TxPlaced'
  <2>1. InTx' = InTx
    BY <1>2 DEF InTx
  <2>2. ASSUME NEW s \in Slots, Ahead(s, tx_out) < InTx PROVE tx_buf'[s] = tx_buf[s]
    <3>1. Ahead(tx_in, tx_out) + n <= BufLen - 1
      BY <1>1, <1>3, <1>4 DEF InTx
    <3>2. Ahead(s, tx_out) < Ahead(tx_in, tx_out) /\ Ahead(tx_in, tx_out) \in Nat
      BY <1>1, <2>2 DEF InTx
    <3>3. Ahead(s, tx_in) >= n
      BY <1>1, <1>4, <3>1, <3>2, RingGrows
    <3>4. ~(s \in call.in .. call.in + n - 1)
      BY <1>1, <1>3, <1>4, <3>3 DEF Ahead
    <3> QED BY <1>2, <3>4
  <2>3. Published' = Published /\ UNCHANGED <<hostGot, txfifo, tx_in, tx_out>>
    BY <1>2, <1>6
  <2> HIDE DEF Published, InTx
  <2> QED BY <2>1, <2>2, <2>3 DEF UartInv, TxPlaced
<1>10. TxHeld'
  <2>1. InTx' = InTx
    BY <1>2 DEF InTx
  <2>2. ASSUME NEW s \in Slots, call.in <= s, s < call.in + n
        PROVE  tx_buf'[s] = Published + 1 + s - call.in
    <3>1. s \in call.in .. call.in + n - 1
      BY <1>1, <1>3, <1>4, <2>2
    <3> QED BY <1>2, <1>6, <3>1
  <2> QED BY <1>2, <1>3, <1>5, <1>6, <2>1, <2>2 DEF TxHeld
<1>11. RxPlaced'
  BY <1>2, <1>6, RxKept DEF UartInv
<1>12. RxHeld'
  BY <1>5 DEF RxHeld
<1>13. NoStall'
  BY <1>2, <1>5 DEF UartInv, NoStall, Free
<1> QED BY <1>8, <1>9, <1>10, <1>11, <1>12, <1>13 DEF UartInv

\* The writer gives the slots it filled to the interrupt routine.
LEMMA StepWritePublish ==
    ASSUME UartInv, WritePublish
    PROVE  UartInv'
<1> DEFINE n == call.n
<1>1. /\ tx_buf \in [Slots -> Nat] /\ tx_in \in Slots /\ tx_out \in Slots /\ call \in CallType
      /\ accepted \in Nat /\ call.moved \in Nat /\ n \in Nat /\ InTx \in Nat /\ Published \in Nat
      /\ call.left \in Nat
  BY CallFields DEF UartInv, UartTypeOK
<1>2. /\ tx_in' = (call.in + n) % BufLen
      /\ call' = [call EXCEPT !.at = IF call.left > n THEN "w_look" ELSE "w_kick",
                              !.left = @ - n, !.moved = @ + n]
      /\ call.at = "w_publish"
      /\ UNCHANGED <<tx_buf, tx_out, rx_buf, rx_in, rx_out, irq_enable>>
      /\ UNCHANGED <<host_inactive, timeout, txfifo, rxfifo, accepted, hostGot, hostSent, got>>
  BY DEF WritePublish, clock, device, history
<1>3. /\ call.in = tx_in /\ n >= 1 /\ n <= call.left
      /\ call.in + n <= BufLen /\ n + InTx <= BufLen - 1
      /\ \A s \in Slots : call.in <= s /\ s < call.in + n => tx_buf[s] = Published + 1 + s - call.in
  BY <1>2 DEF UartInv, TxHeld
<1>4. /\ BufLen \in Nat /\ tx_in \in Nat /\ \A s \in Slots : s \in Nat /\ s < BufLen
      /\ \A s \in Slots : Ahead(s, tx_out) \in Nat /\ Ahead(s, tx_in) \in Nat
  BY <1>1, SlotRange, RingArithmetic
<1>5. /\ call' \in CallType /\ call'.at \in {"w_look", "w_kick"} /\ call'.moved = call.moved + n
  <2>1. call.left - n \in Nat /\ call.moved + n \in Nat
    BY <1>1, <1>3
  <2>2. (IF call.left > n THEN "w_look" ELSE "w_kick") \in {"w_look", "w_kick"}
    OBVIOUS
  <2> QED BY <1>1, <1>2, <2>1, <2>2 DEF CallType, WriteLabels
<1>6. /\ Published = accepted + call.moved /\ Published' = accepted + (call.moved + n)
      /\ Copied' = Copied
  BY <1>2, <1>5 DEF Published, Copied, WriteLabels
<1>7. /\ tx_in' \in Slots /\ InTx' = InTx + n
      /\ \A s \in Slots : Ahead(s, tx_out) < InTx + n =>
           \/ Ahead(s, tx_out) < InTx
           \/ Ahead(s, tx_in) = Ahead(s, tx_out) - InTx /\ Ahead(s, tx_in) < n
  <2>1. Ahead(tx_in, tx_out) + n <= BufLen - 1
    BY <1>1, <1>3, <1>4 DEF InTx
  <2>2. /\ Forward(tx_in, n) \in Slots /\ (tx_in + n) % BufLen = Forward(tx_in, n)
        /\ Ahead(Forward(tx_in, n), tx_out) = Ahead(tx_in, tx_out) + n
        /\ \A s \in Slots : IF Ahead(s, tx_out) < Ahead(tx_in, tx_out) + n
                            THEN IF Ahead(s, tx_out) < Ahead(tx_in, tx_out) THEN Ahead(s, tx_in) >= n
                                 ELSE /\ Ahead(s, tx_in) = Ahead(s, tx_out) - Ahead(tx_in, tx_out)
                                      /\ Ahead(s, tx_in) < n
                            ELSE Ahead(s, tx_in) >= n
    BY <1>1, <2>1, RingGrows
  <2>3. tx_in' = Forward(tx_in, n) /\ tx_out' = tx_out
    BY <1>2, <1>3, <2>2
  <2>4. InTx' = Ahead(Forward(tx_in, n), tx_out)
    BY <2>3 DEF InTx
  <2> QED BY <2>2, <2>3, <2>4 DEF InTx
<1>8. UartTypeOK'
  BY <1>2, <1>5, <1>7 DEF UartInv, UartTypeOK, INT_MAX
<1>9. TxPlaced'
  <2>1. /\ Published = Len(hostGot) + Len(txfifo) + InTx
        /\ \A s \in Slots : Ahead(s, tx_out) < InTx =>
             tx_buf[s] = Len(hostGot) + Len(txfifo) + Ahead(s, tx_out) + 1
        /\ \A i \in 1..Len(hostGot) : hostGot[i] = i
        /\ \A i \in 1..Len(txfifo) : txfifo[i] = Len(hostGot) + i
    BY DEF UartInv, TxPlaced
  <2>2. Len(hostGot) \in Nat /\ Len(txfifo) \in Nat
    BY DEF UartInv, UartTypeOK
  <2>3. ASSUME NEW s \in Slots, Ahead(s, tx_out) < InTx + n
        PROVE  tx_buf[s] = Len(hostGot) + Len(txfifo) + Ahead(s, tx_out) + 1
    <3>1. CASE Ahead(s, tx_out) < InTx
      BY <2>1, <3>1
    <3>2. CASE Ahead(s, tx_in) = Ahead(s, tx_out) - InTx /\ Ahead(s, tx_in) < n
      <4>1. tx_in <= s /\ s < tx_in + n /\ Ahead(s, tx_in) = s - tx_in
        BY <1>1, <1>3, <1>4, <3>2 DEF Ahead
      <4>2. tx_buf[s] = Published + 1 + s - tx_in
        BY <1>3, <4>1
      <4>3. Ahead(s, tx_out) \in Nat /\ s \in Nat
        BY <1>4
      <4>4. Ahead(s, tx_out) = InTx + (s - tx_in) /\ tx_in \in Nat /\ InTx \in Nat
        BY <1>1, <1>4, <3>2, <4>1, <4>3
      <4>5. Published = Len(hostGot) + Len(txfifo) + InTx
        BY <2>1
      <4> HIDE DEF Published, InTx
      <4> QED BY <2>2, <4>2, <4>3, <4>4, <4>5
    <3> QED BY <1>7, <2>3, <3>1, <3>2
  <2>4. Published' = Len(hostGot) + Len(txfifo) + InTx'
    <3>1. /\ Published = Len(hostGot) + Len(txfifo) + InTx /\ Published = accepted + call.moved
          /\ Published' = accepted + (call.moved + n) /\ InTx' = InTx + n
      BY <1>6, <1>7, <2>1
    <3> HIDE DEF n
    <3> QED BY <1>1, <2>2, <3>1, SMTT(30)
  <2>5. UNCHANGED <<hostGot, txfifo, tx_out, tx_buf>>
    BY <1>2
  <2> HIDE DEF Published, InTx
  <2> QED BY <1>7, <2>1, <2>3, <2>4, <2>5 DEF TxPlaced
<1>10. TxHeld'
  BY <1>5 DEF TxHeld
<1>11. RxPlaced'
  BY <1>2, <1>6, RxKept DEF UartInv
<1>12. RxHeld'
  BY <1>5 DEF RxHeld
<1>13. NoStall'
  BY <1>2, <1>5 DEF UartInv, NoStall, Free
<1> QED BY <1>8, <1>9, <1>10, <1>11, <1>12, <1>13 DEF UartInv

\* The reader copies characters that stay in the ring.
LEMMA StepReadCopy ==
    ASSUME UartInv, ReadCopy
    PROVE  UartInv'
<1> DEFINE n == call.n
           taken == [i \in 1 .. n |-> rx_buf[call.out + i - 1]]
<1>1. /\ rx_buf \in [Slots -> Nat] /\ rx_in \in Slots /\ rx_out \in Slots /\ call \in CallType
      /\ got \in Seq(Nat) /\ n \in Nat /\ InRx \in Nat /\ Len(got) \in Nat
  <2>1. UartTypeOK
    BY DEF UartInv
  <2>2. n \in Nat /\ InRx \in Nat
    BY <2>1, CallFields
  <2> QED BY <2>1, <2>2, SMTT(30) DEF UartTypeOK
<1>2. /\ got' = got \o taken
      /\ call' = Goto("r_publish") /\ call.at = "r_copy"
      /\ UNCHANGED <<tx_buf, tx_in, tx_out, rx_buf, rx_in, rx_out, irq_enable>>
      /\ UNCHANGED <<host_inactive, timeout, txfifo, rxfifo, accepted, hostGot, hostSent>>
  BY DEF ReadCopy, rings, clock, device
<1>3. call.out = rx_out /\ n >= 1 /\ n <= call.left /\ call.out + n <= BufLen /\ n <= InRx
  BY <1>2 DEF UartInv, RxHeld
<1>4. /\ BufLen \in Nat /\ rx_out \in Nat /\ \A s \in Slots : Ahead(s, rx_out) \in Nat
  BY <1>1, SlotRange, RingArithmetic
<1>5. /\ call' \in CallType /\ call'.at = "r_publish" /\ call'.moved = call.moved
      /\ call'.out = call.out /\ call'.n = n /\ call'.left = call.left
  BY <1>1, <1>2 DEF CallType, Goto, ReadLabels
<1>6. Published' = Published /\ Copied = 0 /\ Copied' = n
  BY <1>2, <1>5 DEF Published, Copied, WriteLabels
<1>7. /\ hostSent = Len(got) + InRx + Len(rxfifo)
      /\ \A i \in 1..Len(got) : got[i] = i
      /\ \A s \in Slots : Ahead(s, rx_out) < InRx => rx_buf[s] = Len(got) + Ahead(s, rx_out) + 1
      /\ \A i \in 1..Len(rxfifo) : rxfifo[i] = Len(got) + InRx + i
  <2>1. Len(got) - Copied = Len(got)
    BY <1>1, <1>6
  <2> QED BY <2>1 DEF UartInv, RxPlaced
<1>8. \A i \in 1..n : rx_buf[call.out + i - 1] = Len(got) + i
  <2> TAKE i \in 1..n
  <2> DEFINE s == call.out + i - 1
  <2>1. s \in Int /\ 0 <= s /\ s < BufLen /\ s >= rx_out
    BY <1>1, <1>3, <1>4
  <2>2. s \in Slots
    BY <2>1, SlotRange
  <2>3. Ahead(s, rx_out) = i - 1 /\ i - 1 < InRx
    BY <1>1, <1>3, <1>4, <2>1 DEF Ahead
  <2>4. rx_buf[s] = Len(got) + Ahead(s, rx_out) + 1
    BY <1>7, <2>2, <2>3
  <2> HIDE DEF s
  <2>5. rx_buf[s] = Len(got) + i
    BY <1>1, <2>3, <2>4
  <2> QED BY <2>5 DEF s
<1>9. taken \in Seq(Nat) /\ Len(taken) = n /\ \A i \in 1..n : taken[i] = Len(got) + i
  <2>1. \A k \in Nat : \A f \in [1..k -> Nat] : f \in Seq(Nat) /\ Len(f) = k
    OBVIOUS
  <2>2. \A i \in 1..n : taken[i] = Len(got) + i /\ Len(got) + i \in Nat
    BY <1>1, <1>8
  <2>3. taken \in [1..n -> Nat]
    BY <1>8, <2>2
  <2> HIDE DEF taken
  <2> QED BY <1>1, <2>1, <2>2, <2>3
<1> HIDE DEF taken
<1>10. /\ got' \in Seq(Nat) /\ Len(got') = Len(got) + n
       /\ \A i \in 1..Len(got) + n :
            IF i <= Len(got) THEN i \in 1..Len(got) /\ got'[i] = got[i]
            ELSE i - Len(got) \in 1..n /\ got'[i] = taken[i - Len(got)]
  <2>1. got \in Seq(Nat) /\ taken \in Seq(Nat) /\ Len(taken) = n /\ got' = got \o taken
    BY <1>1, <1>2, <1>9 DEF taken
  <2>2. /\ got \o taken \in Seq(Nat) /\ Len(got \o taken) = Len(got) + Len(taken)
        /\ \A i \in 1..Len(got) + Len(taken) :
             IF i <= Len(got) THEN i \in 1..Len(got) /\ (got \o taken)[i] = got[i]
             ELSE i - Len(got) \in 1..Len(taken) /\ (got \o taken)[i] = taken[i - Len(got)]
    BY <2>1, Joined
  <2> HIDE DEF n
  <2> QED BY <2>1, <2>2
<1>11. \A i \in 1..Len(got') : got'[i] = i
  <2> SUFFICES ASSUME NEW i \in 1..Len(got) + n PROVE got'[i] = i
    BY <1>10
  <2>1. CASE i <= Len(got)
    BY <1>7, <1>10, <2>1
  <2>2. CASE ~(i <= Len(got))
    <3>1. i - Len(got) \in 1..n /\ got'[i] = taken[i - Len(got)]
      BY <1>10, <2>2
    <3>2. taken[i - Len(got)] = Len(got) + (i - Len(got))
      BY <1>9, <3>1
    <3> QED BY <1>1, <3>1, <3>2
  <2> QED BY <2>1, <2>2
<1>12. UartTypeOK'
  BY <1>2, <1>5, <1>10 DEF UartInv, UartTypeOK, INT_MAX
<1>13. TxPlaced'
  BY <1>2, <1>6, TxKept DEF UartInv
<1>14. TxHeld'
  BY <1>5 DEF TxHeld
<1>15. RxPlaced'
  <2>1. Len(got') - Copied' = Len(got)
    BY <1>1, <1>6, <1>10
  <2>2. InRx' = InRx
    BY <1>2 DEF InRx
  <2>3. UNCHANGED <<rx_buf, rx_out, rxfifo, hostSent>>
    BY <1>2
  <2> QED BY <1>7, <1>11, <2>1, <2>2, <2>3 DEF RxPlaced
<1>16. RxHeld'
  <2>1. InRx' = InRx
    BY <1>2 DEF InRx
  <2> QED BY <1>2, <1>3, <1>5, <2>1 DEF RxHeld
<1>17. NoStall'
  BY <1>2, <1>5 DEF UartInv, NoStall, Free
<1> QED BY <1>12, <1>13, <1>14, <1>15, <1>16, <1>17 DEF UartInv

\* The reader gives the slots of its characters back.
LEMMA StepReadPublish ==
    ASSUME UartInv, ReadPublish
    PROVE  UartInv'
<1> DEFINE n == call.n
<1>1. /\ rx_buf \in [Slots -> Nat] /\ rx_in \in Slots /\ rx_out \in Slots /\ call \in CallType
      /\ got \in Seq(Nat) /\ n \in Nat /\ InRx \in Nat /\ Len(got) \in Nat
      /\ call.left \in Nat /\ call.moved \in Nat /\ Len(rxfifo) \in Nat
  <2>1. UartTypeOK
    BY DEF UartInv
  <2>2. n \in Nat /\ InRx \in Nat /\ call.left \in Nat /\ call.moved \in Nat
    BY <2>1, CallFields
  <2> QED BY <2>1, <2>2, SMTT(30) DEF UartTypeOK
<1>2. /\ rx_out' = (call.out + n) % BufLen
      /\ call' = [call EXCEPT !.at = IF call.left > n THEN "r_look" ELSE "r_enable",
                              !.left = @ - n, !.moved = @ + n]
      /\ call.at = "r_publish"
      /\ UNCHANGED <<tx_buf, tx_in, tx_out, rx_buf, rx_in, irq_enable>>
      /\ UNCHANGED <<host_inactive, timeout, txfifo, rxfifo, accepted, hostGot, hostSent, got>>
  BY DEF ReadPublish, clock, device, history
<1>3. call.out = rx_out /\ n >= 1 /\ n <= call.left /\ n <= InRx
  BY <1>2 DEF UartInv, RxHeld
<1>4. /\ call' \in CallType /\ call'.at \in {"r_look", "r_enable"} /\ call'.moved = call.moved + n
  <2>1. call.left - n \in Nat /\ call.moved + n \in Nat
    BY <1>1, <1>3, SMTT(30)
  <2>2. (IF call.left > n THEN "r_look" ELSE "r_enable") \in {"r_look", "r_enable"}
    OBVIOUS
  <2> QED BY <1>1, <1>2, <2>1, <2>2 DEF CallType, ReadLabels
<1>5. Published' = Published /\ Copied = n /\ Copied' = 0
  BY <1>2, <1>4 DEF Published, Copied, WriteLabels
<1>6. /\ rx_out' \in Slots /\ InRx' = InRx - n
      /\ \A s \in Slots : Ahead(s, rx_out') < InRx - n =>
           Ahead(s, rx_out) = Ahead(s, rx_out') + n /\ Ahead(s, rx_out) < InRx
  <2>1. /\ Forward(rx_out, n) \in Slots /\ (rx_out + n) % BufLen = Forward(rx_out, n)
        /\ Ahead(rx_in, Forward(rx_out, n)) = Ahead(rx_in, rx_out) - n
        /\ \A s \in Slots : Ahead(s, Forward(rx_out, n)) < Ahead(rx_in, rx_out) - n =>
             /\ Ahead(s, rx_out) = Ahead(s, Forward(rx_out, n)) + n
             /\ Ahead(s, rx_out) < Ahead(rx_in, rx_out)
    BY <1>1, <1>3, RingShrinks DEF InRx
  <2>2. rx_out' = Forward(rx_out, n) /\ rx_in' = rx_in
    BY <1>2, <1>3, <2>1
  <2>3. InRx' = Ahead(rx_in, Forward(rx_out, n))
    BY <2>2 DEF InRx
  <2> QED BY <2>1, <2>2, <2>3 DEF InRx
<1>7. UartTypeOK'
  BY <1>2, <1>4, <1>6 DEF UartInv, UartTypeOK, INT_MAX
<1>8. TxPlaced'
  BY <1>2, <1>5, TxKept DEF UartInv
<1>9. TxHeld'
  BY <1>4 DEF TxHeld
<1>10. RxPlaced'
  <2>1. /\ hostSent = Len(got) - n + InRx + Len(rxfifo)
        /\ \A i \in 1..Len(got) : got[i] = i
        /\ \A s \in Slots : Ahead(s, rx_out) < InRx => rx_buf[s] = Len(got) - n + Ahead(s, rx_out) + 1
        /\ \A i \in 1..Len(rxfifo) : rxfifo[i] = Len(got) - n + InRx + i
    BY <1>5 DEF UartInv, RxPlaced
  <2>2. hostSent = Len(got) - 0 + (InRx - n) + Len(rxfifo)
    BY <1>1, <2>1
  <2>3. ASSUME NEW s \in Slots, Ahead(s, rx_out') < InRx - n
        PROVE  rx_buf[s] = Len(got) - 0 + Ahead(s, rx_out') + 1
    <3>1. Ahead(s, rx_out) = Ahead(s, rx_out') + n /\ rx_buf[s] = Len(got) - n + Ahead(s, rx_out) + 1
      BY <1>6, <2>1, <2>3
    <3>2. Ahead(s, rx_out') \in Nat
      BY <1>6, RingArithmetic, SlotRange
    <3> QED BY <1>1, <3>1, <3>2
  <2>4. ASSUME NEW i \in 1..Len(rxfifo) PROVE rxfifo[i] = Len(got) - 0 + (InRx - n) + i
    <3>1. rxfifo[i] = Len(got) - n + InRx + i
      BY <2>1
    <3> QED BY <1>1, <3>1
  <2>5. UNCHANGED <<rx_buf, rxfifo, hostSent, got>>
    BY <1>2
  <2> QED BY <1>5, <1>6, <2>1, <2>2, <2>3, <2>4, <2>5 DEF RxPlaced
<1>11. RxHeld'
  BY <1>4 DEF RxHeld
<1>12. NoStall'
  <2>1. call'.moved > 0
    BY <1>1, <1>3, <1>4
  <2> QED BY <1>2, <1>4, <2>1 DEF UartInv, NoStall, Free
<1> QED BY <1>7, <1>8, <1>9, <1>10, <1>11, <1>12 DEF UartInv

\* The interrupt routine cuts in.
LEMMA StepIrq ==
    ASSUME UartInv, Irq
    PROVE  UartInv'
<1>1. /\ irq_enable' = irq_enable \ SwitchedOff
      /\ UNCHANGED <<tx_buf, tx_in, rx_out, host_inactive, timeout, call>>
      /\ UNCHANGED <<accepted, hostGot, hostSent, got>>
  BY DEF Irq, clock, history
<1>2. /\ txfifo' \in Seq(Nat) /\ Len(txfifo') <= FifoLen /\ tx_out' \in Slots
      /\ InTx' <= InTx /\ InTx' \in Nat
      /\ Len(hostGot') + Len(txfifo') + InTx' = Len(hostGot) + Len(txfifo) + InTx
      /\ \A i \in 1..Len(txfifo') : txfifo'[i] = Len(hostGot') + i
      /\ \A s \in Slots : Ahead(s, tx_out') < InTx' =>
           tx_buf'[s] = Len(hostGot') + Len(txfifo') + Ahead(s, tx_out') + 1
      /\ "WE" \in irq_enable => "WE" \in irq_enable' \/ tx_in' = tx_out'
  BY IrqTx
<1>3. /\ rxfifo' \in Seq(Nat) /\ Len(rxfifo') <= FifoLen
      /\ rx_buf' \in [Slots -> Nat] /\ rx_in' \in Slots
      /\ InRx' >= InRx /\ InRx' \in Nat
      /\ InRx' + Len(rxfifo') = InRx + Len(rxfifo)
      /\ \A s \in Slots : Ahead(s, rx_out) < InRx' =>
           rx_buf'[s] = Len(got) - Copied + Ahead(s, rx_out) + 1
      /\ \A i \in 1..Len(rxfifo') : rxfifo'[i] = Len(got) - Copied + InRx' + i
      /\ "RE" \in irq_enable => "RE" \in irq_enable' \/ Free(rx_in, rx_out)' = 0
  BY IrqRx
<1>4. /\ UartTypeOK /\ TxPlaced /\ TxHeld /\ RxPlaced /\ RxHeld /\ NoStall
  BY DEF UartInv
<1>5. /\ call.n \in Nat /\ InTx \in Nat /\ InRx \in Nat /\ Copied \in Nat
  BY <1>4, CallFields
<1>6. UartTypeOK'
  BY <1>1, <1>2, <1>3, <1>4 DEF UartTypeOK, INT_MAX
<1>7. Published' = Published /\ Copied' = Copied
  BY <1>1 DEF Published, Copied
<1>8. TxPlaced'
  <2>1. \A i \in 1..Len(hostGot') : hostGot'[i] = i
    BY <1>1, <1>4 DEF TxPlaced
  <2>2. Published' = Len(hostGot') + Len(txfifo') + InTx'
    BY <1>2, <1>4, <1>7 DEF TxPlaced
  <2> HIDE DEF InTx, Published
  <2> QED BY <1>2, <2>1, <2>2 DEF TxPlaced
<1>9. TxHeld'
  <2>1. BufLen \in Nat
    BY SlotRange
  <2>2. \A n \in Nat : n + InTx <= BufLen - 1 => n + InTx' <= BufLen - 1
    <3>1. InTx' <= InTx /\ InTx' \in Nat
      BY <1>2
    <3>2. \A a, b, c, n \in Nat : b <= a /\ n + a <= c - 1 => n + b <= c - 1
      OBVIOUS
    <3> QED BY <1>5, <2>1, <3>1, <3>2
  <2> HIDE DEF InTx, Published
  <2> QED BY <1>1, <1>4, <1>5, <1>7, <2>2 DEF TxHeld
<1>10. RxPlaced'
  <2>1. hostSent = Len(got) - Copied + InRx + Len(rxfifo)
    BY <1>4 DEF RxPlaced
  <2>2. Len(got) \in Nat /\ Len(rxfifo) \in Nat /\ Len(rxfifo') \in Nat
    <3>1. Len(got) \in Nat /\ Len(rxfifo) \in Nat
      BY <1>4 DEF UartTypeOK
    <3> QED BY <1>3, <3>1
  <2>3. hostSent' = Len(got') - Copied' + InRx' + Len(rxfifo')
    BY <1>1, <1>3, <1>5, <1>7, <2>1, <2>2, SMTT(30)
  <2>4. \A i \in 1..Len(got') : got'[i] = i
    BY <1>1, <1>4 DEF RxPlaced
  <2> HIDE DEF InRx, Copied
  <2> QED BY <1>1, <1>3, <1>7, <2>3, <2>4 DEF RxPlaced
<1>11. RxHeld'
  <2>1. \A n \in Nat : n <= InRx => n <= InRx'
    BY <1>3, <1>5
  <2> HIDE DEF InRx
  <2> QED BY <1>1, <1>4, <1>5, <2>1 DEF RxHeld
<1>12. NoStall'
  <2>1. tx_in = tx_out => tx_in' = tx_out'
    <3>1. tx_in = tx_out => InTx = 0
      BY <1>4, RingArithmetic DEF InTx, UartTypeOK
    <3>2. InTx = 0 => InTx' = 0
      BY <1>2, <1>5
    <3>3. InTx' = Ahead(tx_in', tx_out')
      BY DEF InTx
    <3>4. Ahead(tx_in', tx_out') = 0 => tx_in' = tx_out'
      BY <1>6, RingArithmetic DEF UartTypeOK
    <3> QED BY <3>1, <3>2, <3>3, <3>4
  <2>2. Free(rx_in, rx_out) = 0 => Free(rx_in, rx_out)' = 0
    <3>1. Free(rx_in, rx_out) = BufLen - 1 - InRx
      BY <1>4, RingArithmetic DEF InRx, UartTypeOK
    <3>2. Free(rx_in', rx_out') = BufLen - 1 - Ahead(rx_in', rx_out') /\ Ahead(rx_in', rx_out') \in Slots
      BY <1>6, RingArithmetic DEF UartTypeOK
    <3>3. Free(rx_in, rx_out)' = BufLen - 1 - InRx' /\ InRx' < BufLen
      BY <3>2, SlotRange DEF InRx
    <3>4. InRx' >= InRx /\ InRx' \in Nat /\ InRx \in Nat /\ BufLen \in Nat
      BY <1>3, <1>5, SlotRange
    <3>5. \A a, b, c \in Nat : c - 1 - a = 0 /\ b >= a /\ b < c => c - 1 - b = 0
      OBVIOUS
    <3>6. BufLen - 1 - InRx = 0 => BufLen - 1 - InRx' = 0
      BY <3>3, <3>4, <3>5
    <3> QED BY <3>1, <3>3, <3>6
  <2>3. "WE" \notin irq_enable' =>
          tx_in' = tx_out' \/ call'.at \in {"w_look", "w_publish", "w_copy", "w_kick"}
    BY <1>1, <1>2, <1>4, <2>1 DEF NoStall
  <2>4. "RE" \notin irq_enable' =>
          \/ Free(rx_in, rx_out)' = 0
          \/ call'.at \in {"r_look", "r_copy", "r_publish", "r_enable"} /\ call'.moved > 0
    BY <1>1, <1>3, <1>4, <2>2 DEF NoStall
  <2> QED BY <2>3, <2>4 DEF NoStall
<1> QED BY <1>6, <1>8, <1>9, <1>10, <1>11, <1>12 DEF UartInv

\* The clock's routine and the timeout of the application move nothing.
LEMMA StepClock ==
    ASSUME UartInv, Timeout \/ \E t \in {0, DefaultTimeout} : SetTimeout(t)
    PROVE  UartInv'
<1>1. UNCHANGED <<rings, irq_enable, txfifo, rxfifo, call, history>>
  BY DEF Timeout, SetTimeout, device
<1>2. /\ UNCHANGED <<tx_buf, tx_in, tx_out, rx_buf, rx_in, rx_out, irq_enable, txfifo, rxfifo, call>>
      /\ UNCHANGED <<accepted, hostGot, hostSent, got>>
  BY <1>1 DEF rings, history
<1>3. InactiveMax \in Nat /\ DefaultTimeout \in Nat
      /\ host_inactive \in 0..InactiveMax /\ timeout \in 1..INT_MAX
  BY TimeoutAssumption DEF UartInv, UartTypeOK
<1>4. host_inactive' \in 0..InactiveMax /\ timeout' \in 1..INT_MAX
  <2>1. CASE Timeout
    BY <1>3, <2>1 DEF Timeout
  <2>2. CASE \E t \in {0, DefaultTimeout} : SetTimeout(t)
    <3>1. PICK t \in {0, DefaultTimeout} : SetTimeout(t)
      BY <2>2
    <3> QED BY <1>3, <3>1 DEF SetTimeout, INT_MAX
  <2> QED BY <2>1, <2>2
<1>5. UartTypeOK'
  BY <1>2, <1>4 DEF UartInv, UartTypeOK, INT_MAX
<1>6. Published' = Published /\ Copied' = Copied
  BY <1>2 DEF Published, Copied
<1>7. TxPlaced' /\ RxPlaced'
  BY <1>2, <1>6, TxKept, RxKept DEF UartInv
<1>8. InTx' = InTx /\ InRx' = InRx
  BY <1>2 DEF InTx, InRx
<1>9. TxHeld' /\ RxHeld'
  <2> HIDE DEF InTx, InRx, Published
  <2> QED BY <1>2, <1>6, <1>8 DEF UartInv, TxHeld, RxHeld
<1>10. NoStall'
  BY <1>2 DEF UartInv, NoStall, Free
<1> QED BY <1>5, <1>7, <1>9, <1>10 DEF UartInv

\* The host takes a character from the device.
LEMMA StepHostReads ==
    ASSUME UartInv, HostReads
    PROVE  UartInv'
<1>1. /\ txfifo # <<>> /\ hostGot' = Append(hostGot, Head(txfifo)) /\ txfifo' = Tail(txfifo)
      /\ UNCHANGED <<tx_buf, tx_in, tx_out, rx_buf, rx_in, rx_out, irq_enable, rxfifo, call>>
      /\ UNCHANGED <<host_inactive, timeout, accepted, hostSent, got>>
  BY DEF HostReads, rings, clock
<1>2. /\ txfifo \in Seq(Nat) /\ hostGot \in Seq(Nat) /\ Len(txfifo) \in Nat /\ Len(hostGot) \in Nat
      /\ Len(txfifo) <= FifoLen /\ FifoLen \in Nat /\ tx_out \in Slots
  BY LengthsAssumption, SMTT(30) DEF UartInv, UartTypeOK
<1>3. /\ Published = Len(hostGot) + Len(txfifo) + InTx
      /\ \A i \in 1..Len(hostGot) : hostGot[i] = i
      /\ \A i \in 1..Len(txfifo) : txfifo[i] = Len(hostGot) + i
      /\ \A s \in Slots : Ahead(s, tx_out) < InTx =>
           tx_buf[s] = Len(hostGot) + Len(txfifo) + Ahead(s, tx_out) + 1
  BY DEF UartInv, TxPlaced
<1>4. /\ Len(txfifo) >= 1 /\ Head(txfifo) = txfifo[1] /\ 1 \in 1..Len(txfifo)
      /\ Tail(txfifo) \in Seq(Nat) /\ Len(Tail(txfifo)) = Len(txfifo) - 1
      /\ \A i \in 1..Len(txfifo) - 1 : Tail(txfifo)[i] = txfifo[i + 1] /\ i + 1 \in 1..Len(txfifo)
  <2>1. Len(txfifo) >= 1
    BY <1>1, <1>2
  <2> QED BY <1>1, <1>2, <2>1
<1>5. Head(txfifo) = Len(hostGot) + 1 /\ Head(txfifo) \in Nat
  BY <1>2, <1>3, <1>4
<1>6. /\ hostGot' \in Seq(Nat) /\ Len(hostGot') = Len(hostGot) + 1
      /\ \A i \in 1..Len(hostGot) + 1 : hostGot'[i] = i
  <2>1. hostGot' \in Seq(Nat) /\ Len(hostGot') = Len(hostGot) + 1
    BY <1>1, <1>2, <1>5
  <2>2. ASSUME NEW i \in 1..Len(hostGot) + 1 PROVE hostGot'[i] = i
    <3>1. CASE i = Len(hostGot) + 1
      BY <1>1, <1>2, <1>5, <3>1
    <3>2. CASE i \in 1..Len(hostGot)
      BY <1>1, <1>2, <1>3, <1>5, <3>2
    <3> QED BY <1>2, <3>1, <3>2
  <2> QED BY <2>1, <2>2
<1>7. UartTypeOK'
  <2>1. txfifo' \in Seq(Nat) /\ Len(txfifo') <= FifoLen
    BY <1>1, <1>2, <1>4
  <2> QED BY <1>1, <1>6, <2>1 DEF UartInv, UartTypeOK, INT_MAX
<1>8. Published' = Published /\ Copied' = Copied
  BY <1>1 DEF Published, Copied
<1>9. InTx' = InTx /\ InRx' = InRx
  BY <1>1 DEF InTx, InRx
<1>10. Len(hostGot') + Len(txfifo') = Len(hostGot) + Len(txfifo)
  BY <1>1, <1>2, <1>4, <1>6
<1>11. TxPlaced'
  <2>1. ASSUME NEW i \in 1..Len(txfifo) - 1 PROVE Tail(txfifo)[i] = Len(hostGot) + 1 + i
    <3>1. Tail(txfifo)[i] = txfifo[i + 1] /\ i + 1 \in 1..Len(txfifo)
      BY <1>4
    <3>2. txfifo[i + 1] = Len(hostGot) + (i + 1)
      BY <1>3, <3>1
    <3> QED BY <1>2, <3>1, <3>2
  <2>2. \A i \in 1..Len(txfifo') : txfifo'[i] = Len(hostGot') + i
    BY <1>1, <1>4, <1>6, <2>1
  <2>3. \A i \in 1..Len(hostGot') : hostGot'[i] = i
    BY <1>6
  <2>4. UNCHANGED <<tx_buf, tx_out>>
    BY <1>1
  <2>5. Published' = Len(hostGot') + Len(txfifo') + InTx'
    BY <1>3, <1>8, <1>9, <1>10
  <2>6. ASSUME NEW s \in Slots, Ahead(s, tx_out') < InTx'
        PROVE  tx_buf'[s] = Len(hostGot') + Len(txfifo') + Ahead(s, tx_out') + 1
    BY <1>3, <1>9, <1>10, <2>4, <2>6
  <2> HIDE DEF InTx, Published
  <2> QED BY <2>2, <2>3, <2>5, <2>6 DEF TxPlaced
<1>12. RxPlaced'
  BY <1>1, <1>8, RxKept DEF UartInv
<1>13. TxHeld' /\ RxHeld'
  <2> HIDE DEF InTx, InRx, Published
  <2> QED BY <1>1, <1>8, <1>9 DEF UartInv, TxHeld, RxHeld
<1>14. NoStall'
  BY <1>1 DEF UartInv, NoStall, Free
<1> QED BY <1>7, <1>11, <1>12, <1>13, <1>14 DEF UartInv

\* The host puts a character into the device.
LEMMA StepHostSends ==
    ASSUME UartInv, HostSends
    PROVE  UartInv'
<1>1. /\ Len(rxfifo) < FifoLen /\ hostSent' = hostSent + 1 /\ rxfifo' = Append(rxfifo, hostSent + 1)
      /\ UNCHANGED <<tx_buf, tx_in, tx_out, rx_buf, rx_in, rx_out, irq_enable, txfifo, call>>
      /\ UNCHANGED <<host_inactive, timeout, accepted, hostGot, got>>
  BY DEF HostSends, rings, clock
<1>2. /\ rxfifo \in Seq(Nat) /\ Len(rxfifo) \in Nat /\ Len(got) \in Nat /\ hostSent \in Nat
      /\ FifoLen \in Nat /\ Copied \in Nat /\ InRx \in Nat
  <2>1. UartTypeOK
    BY DEF UartInv
  <2>2. Copied \in Nat /\ InRx \in Nat
    BY <2>1, CallFields
  <2> QED BY <2>1, <2>2, LengthsAssumption, SMTT(30) DEF UartTypeOK
<1>3. /\ hostSent = Len(got) - Copied + InRx + Len(rxfifo)
      /\ \A i \in 1..Len(got) : got[i] = i
      /\ \A s \in Slots : Ahead(s, rx_out) < InRx =>
           rx_buf[s] = Len(got) - Copied + Ahead(s, rx_out) + 1
      /\ \A i \in 1..Len(rxfifo) : rxfifo[i] = Len(got) - Copied + InRx + i
  BY DEF UartInv, RxPlaced
<1>4. Published' = Published /\ Copied' = Copied
  BY <1>1 DEF Published, Copied
<1>5. InTx' = InTx /\ InRx' = InRx
  BY <1>1 DEF InTx, InRx
<1>6. rxfifo' \in Seq(Nat) /\ Len(rxfifo') = Len(rxfifo) + 1
  BY <1>1, <1>2
<1>7. ASSUME NEW i \in 1..Len(rxfifo) + 1
      PROVE  rxfifo'[i] = Len(got) - Copied + InRx + i
  <2>1. CASE i = Len(rxfifo) + 1
    <3>1. rxfifo'[i] = hostSent + 1
      BY <1>1, <1>2, <2>1
    <3> QED BY <1>2, <1>3, <2>1, <3>1
  <2>2. CASE i \in 1..Len(rxfifo)
    <3>1. rxfifo'[i] = rxfifo[i]
      BY <1>1, <1>2, <2>2
    <3> QED BY <1>3, <2>2, <3>1
  <2> QED BY <1>2, <2>1, <2>2
<1>8. UartTypeOK'
  <2>1. Len(rxfifo') <= FifoLen /\ hostSent' \in Nat
    BY <1>1, <1>2, <1>6
  <2> QED BY <1>1, <1>6, <2>1 DEF UartInv, UartTypeOK, INT_MAX
<1>9. TxPlaced'
  BY <1>1, <1>4, TxKept DEF UartInv
<1>10. RxPlaced'
  <2>1. hostSent' = Len(got) - Copied + InRx + Len(rxfifo')
    BY <1>1, <1>2, <1>3, <1>6
  <2>2. UNCHANGED <<got, rx_buf, rx_out>>
    BY <1>1
  <2> HIDE DEF InRx, Copied
  <2> QED BY <1>3, <1>4, <1>5, <1>6, <1>7, <2>1, <2>2 DEF RxPlaced
<1>11. TxHeld' /\ RxHeld'
  <2> HIDE DEF InTx, InRx, Published
  <2> QED BY <1>1, <1>4, <1>5 DEF UartInv, TxHeld, RxHeld
<1>12. NoStall'
  BY <1>1 DEF UartInv, NoStall, Free
<1> QED BY <1>8, <1>9, <1>10, <1>11, <1>12 DEF UartInv

\* UartInv holds in every state of the driver, whatever the lengths.
LEMMA UartInvInvariant == Init /\ [][Next]_vars => []UartInv
<1>1. Init => UartInv
  <2> SUFFICES ASSUME Init PROVE UartInv
    OBVIOUS
  <2>1. /\ tx_buf = [s \in Slots |-> 0] /\ tx_in = 0 /\ tx_out = 0
        /\ rx_buf = [s \in Slots |-> 0] /\ rx_in = 0 /\ rx_out = 0
        /\ irq_enable = {"RE"} /\ host_inactive = 0 /\ timeout \in {DefaultTimeout, INT_MAX}
        /\ txfifo = <<>> /\ rxfifo = <<>>
        /\ call = [at |-> "idle", nonblock |-> FALSE, left |-> 0, moved |-> 0, in |-> 0, out |-> 0, n |-> 0]
        /\ accepted = 0 /\ hostGot = <<>> /\ hostSent = 0 /\ got = <<>>
    BY DEF Init, Idle
  <2>2. /\ 0 \in Slots /\ FifoLen \in Nat
        /\ DefaultTimeout \in Nat /\ DefaultTimeout # 0 /\ InactiveMax \in Nat /\ DefaultTimeout <= InactiveMax
    BY SlotRange, LengthsAssumption, TimeoutAssumption
  <2>3. timeout \in 1..INT_MAX /\ host_inactive \in 0..InactiveMax
    BY <2>1, <2>2 DEF INT_MAX
  <2>4. call \in CallType /\ call.at = "idle" /\ call.moved = 0
    BY <2>1, <2>2 DEF CallType
  <2>5. <<>> \in Seq(Nat) /\ Len(<<>>) = 0
    OBVIOUS
  <2>6. UartTypeOK
    BY <2>1, <2>2, <2>3, <2>4, <2>5 DEF UartTypeOK
  <2>7. InTx = 0 /\ InRx = 0
    BY <2>1, <2>2, RingArithmetic DEF InTx, InRx
  <2>8. Published = 0 /\ Copied = 0
    BY <2>1, <2>4 DEF Published, Copied, WriteLabels
  <2>9. \A s \in Slots : Ahead(s, 0) \in Nat
    BY <2>2, RingArithmetic, SlotRange
  <2>10. TxPlaced /\ RxPlaced
    BY <2>1, <2>5, <2>7, <2>8, <2>9 DEF TxPlaced, RxPlaced
  <2>11. TxHeld /\ RxHeld
    BY <2>4 DEF TxHeld, RxHeld
  <2>12. NoStall
    BY <2>1 DEF NoStall
  <2> QED BY <2>6, <2>10, <2>11, <2>12 DEF UartInv
<1>2. UartInv /\ [Next]_vars => UartInv'
  <2> SUFFICES ASSUME UartInv, [Next]_vars PROVE UartInv'
    OBVIOUS
  <2>1. CASE Irq
    BY <2>1, StepIrq
  <2>2. CASE Timeout \/ \E t \in {0, DefaultTimeout} : SetTimeout(t)
    BY <2>2, StepClock
  <2>3. ASSUME NEW count \in Counts, NEW nonblock \in BOOLEAN, Write(count, nonblock) \/ Read(count, nonblock)
        PROVE  UartInv'
    <3>1. count \in Nat
      BY CountsAssumption
    <3>2. CASE Write(count, nonblock)
      <4>1. /\ call.at = "idle"
            /\ call' = [at |-> "w_look", nonblock |-> nonblock, left |-> count, moved |-> 0, in |-> 0, out |-> 0, n |-> 0]
            /\ UNCHANGED <<rings, irq_enable, clock, device, history>>
        BY <3>2 DEF Write, Idle
      <4>2. "w_look" \in {"w_look", "r_look", "c_wait"}
        OBVIOUS
      <4> QED BY <3>1, <4>1, <4>2, StepBegin
    <3>3. CASE Read(count, nonblock)
      <4>1. /\ call.at = "idle"
            /\ call' = [at |-> "r_look", nonblock |-> nonblock, left |-> count, moved |-> 0, in |-> 0, out |-> 0, n |-> 0]
            /\ UNCHANGED <<rings, irq_enable, clock, device, history>>
        BY <3>3 DEF Read, Idle
      <4>2. "r_look" \in {"w_look", "r_look", "c_wait"}
        OBVIOUS
      <4> QED BY <3>1, <4>1, <4>2, StepBegin
    <3> QED BY <2>3, <3>2, <3>3
  <2>4. ASSUME NEW nonblock \in BOOLEAN, Close(nonblock) PROVE UartInv'
    <3>1. /\ call.at = "idle"
          /\ call' = [at |-> "c_wait", nonblock |-> nonblock, left |-> 0, moved |-> 0, in |-> 0, out |-> 0, n |-> 0]
          /\ UNCHANGED <<rings, irq_enable, clock, device, history>>
      BY <2>4 DEF Close, Idle
    <3>2. "c_wait" \in {"w_look", "r_look", "c_wait"} /\ 0 \in Nat
      OBVIOUS
    <3> QED BY <3>1, <3>2, StepBegin
  <2>5. CASE WriteLook
    BY <2>5, StepWriteLook
  <2>6. CASE WriteCopy
    BY <2>6, StepWriteCopy
  <2>7. CASE WritePublish
    BY <2>7, StepWritePublish
  <2>8. irq_enable \subseteq {"RE", "WE"}
    BY DEF UartInv, UartTypeOK
  <2>9. CASE WriteKick
    <3> DEFINE label == IF call.left > 0 /\ ~call.nonblock THEN "w_wait" ELSE "w_return"
    <3>1. /\ call.at = "w_kick" /\ call' = Goto(label) /\ irq_enable' = irq_enable \cup {"WE"}
          /\ UNCHANGED <<rings, clock, device, history>>
      BY <2>9 DEF WriteKick
    <3>2. label \in {"w_wait", "w_return"}
      OBVIOUS
    <3> HIDE DEF label
    <3> QED BY <2>8, <3>1, <3>2, StepGoto DEF WriteLabels, ReadLabels
  <2>10. CASE WriteWait
    <3> DEFINE label == IF host_inactive # 0 THEN "w_return" ELSE "w_look"
    <3>1. /\ call.at = "w_wait" /\ call' = Goto(label) /\ irq_enable' = irq_enable
          /\ UNCHANGED <<rings, clock, device, history>>
      BY <2>10 DEF WriteWait
    <3>2. label \in {"w_look", "w_return"}
      OBVIOUS
    <3> HIDE DEF label
    <3> QED BY <2>8, <3>1, <3>2, StepGoto DEF WriteLabels, ReadLabels
  <2>11. CASE WriteReturn
    <3>1. Published = accepted + call.moved
      BY <2>11 DEF WriteReturn, Published, WriteLabels
    <3> QED BY <2>11, <3>1, StepReturn DEF WriteReturn
  <2>12. CASE ReadLook
    BY <2>12, StepReadLook
  <2>13. CASE ReadCopy
    BY <2>13, StepReadCopy
  <2>14. CASE ReadPublish
    BY <2>14, StepReadPublish
  <2>15. CASE ReadWait
    <3> DEFINE label == IF call.in = rx_in THEN "r_return" ELSE "r_look"
    <3>1. /\ call.at = "r_wait" /\ call' = Goto(label) /\ irq_enable' = irq_enable
          /\ UNCHANGED <<rings, clock, device, history>>
      BY <2>15 DEF ReadWait
    <3>2. label \in {"r_look", "r_return"}
      OBVIOUS
    <3> HIDE DEF label
    <3> QED BY <2>8, <3>1, <3>2, StepGoto DEF WriteLabels, ReadLabels
  <2>16. CASE ReadEnable
    <3>1. /\ call.at = "r_enable" /\ call' = Goto("r_return") /\ irq_enable' = irq_enable \cup {"RE"}
          /\ UNCHANGED <<rings, clock, device, history>>
      BY <2>16 DEF ReadEnable
    <3> QED BY <2>8, <3>1, StepGoto DEF WriteLabels, ReadLabels
  <2>17. CASE ReadReturn \/ CloseWait
    <3>1. /\ call.at \in {"r_return", "c_wait"} /\ call' = Idle
          /\ UNCHANGED <<rings, irq_enable, clock, device, history>>
      BY <2>17 DEF ReadReturn, CloseWait
    <3>2. accepted' = Published
      <4>1. accepted \in Nat /\ accepted' = accepted
        BY <3>1 DEF history, UartInv, UartTypeOK
      <4> QED BY <3>1, <4>1 DEF Published, WriteLabels
    <3>3. UNCHANGED <<hostGot, hostSent, got>>
      BY <3>1 DEF history
    <3> QED BY <3>1, <3>2, <3>3, StepReturn
  <2>18. CASE HostReads
    BY <2>18, StepHostReads
  <2>19. CASE HostSends
    BY <2>19, StepHostSends
  <2>20. CASE UNCHANGED vars
    <3>1. /\ UNCHANGED <<rings, clock, device, hostGot, hostSent, got>>
          /\ UNCHANGED <<irq_enable, call, accepted>> /\ UNCHANGED <<tx_buf, tx_in, tx_out, rx_in, rx_out>>
      BY <2>20 DEF vars, history, rings
    <3>2. Published' = Published /\ Copied' = Copied
      BY <3>1 DEF Published, Copied
    <3>3. InTx' = InTx /\ InRx' = InRx
      BY <3>1 DEF InTx, InRx
    <3>4. TxHeld' /\ RxHeld' /\ NoStall'
      <4>1. NoStall'
        BY <3>1 DEF UartInv, NoStall, Free
      <4> HIDE DEF InTx, InRx, Published
      <4> QED BY <3>1, <3>2, <3>3, <4>1 DEF UartInv, TxHeld, RxHeld
    <3> QED BY <2>8, <3>1, <3>2, <3>4, MovesNothing DEF UartInv, UartTypeOK
  <2> QED BY <2>1, <2>2, <2>3, <2>4, <2>5, <2>6, <2>7, <2>9, <2>10, <2>11, <2>12, <2>13, <2>14,
            <2>15, <2>16, <2>17, <2>18, <2>19, <2>20 DEF Next, CallStep
<1> QED BY <1>1, <1>2, PTL

\* Two sequences of which the second counts on from the first.
LEMMA CountsOn ==
    ASSUME NEW s \in Seq(Nat), NEW t \in Seq(Nat),
           \A i \in 1..Len(s) : s[i] = i, \A i \in 1..Len(t) : t[i] = Len(s) + i
    PROVE  /\ s \o t \in Seq(Nat) /\ Len(s \o t) = Len(s) + Len(t)
           /\ \A i \in 1..Len(s) + Len(t) : (s \o t)[i] = i
<1>1. Len(s) \in Nat /\ Len(t) \in Nat
  OBVIOUS
<1>2. /\ s \o t \in Seq(Nat) /\ Len(s \o t) = Len(s) + Len(t)
      /\ \A i \in 1..Len(s) + Len(t) :
           IF i <= Len(s) THEN i \in 1..Len(s) /\ (s \o t)[i] = s[i]
           ELSE i - Len(s) \in 1..Len(t) /\ (s \o t)[i] = t[i - Len(s)]
  BY Joined
<1>3. ASSUME NEW i \in 1..Len(s) + Len(t) PROVE (s \o t)[i] = i
  <2>1. CASE i <= Len(s)
    BY <1>2, <2>1
  <2>2. CASE ~(i <= Len(s))
    <3>1. i - Len(s) \in 1..Len(t) /\ (s \o t)[i] = t[i - Len(s)]
      BY <1>2, <2>2
    <3>2. t[i - Len(s)] = Len(s) + (i - Len(s))
      BY <3>1
    <3> QED BY <1>1, <3>1, <3>2
  <2> QED BY <2>1, <2>2
<1> QED BY <1>2, <1>3

\* Three sequences that count on from each other.
LEMMA CountsToEnd ==
    ASSUME NEW s \in Seq(Nat), NEW t \in Seq(Nat), NEW u \in Seq(Nat),
           \A i \in 1..Len(s) : s[i] = i,
           \A i \in 1..Len(t) : t[i] = Len(s) + i,
           \A i \in 1..Len(u) : u[i] = Len(s) + Len(t) + i
    PROVE  s \o t \o u = UpTo(Len(s) + Len(t) + Len(u))
<1> DEFINE n == Len(s) + Len(t) + Len(u)
<1>1. /\ s \o t \in Seq(Nat) /\ Len(s \o t) = Len(s) + Len(t)
      /\ \A i \in 1..Len(s) + Len(t) : (s \o t)[i] = i
  BY CountsOn
<1>2. /\ \A i \in 1..Len(s \o t) : (s \o t)[i] = i
      /\ \A i \in 1..Len(u) : u[i] = Len(s \o t) + i
  BY <1>1
<1>3. /\ (s \o t) \o u \in Seq(Nat) /\ Len((s \o t) \o u) = Len(s \o t) + Len(u)
      /\ \A i \in 1..Len(s \o t) + Len(u) : ((s \o t) \o u)[i] = i
  BY <1>1, <1>2, CountsOn
<1>4. (s \o t) \o u \in Seq(Nat) /\ Len((s \o t) \o u) = n /\ \A i \in 1..n : ((s \o t) \o u)[i] = i
  BY <1>1, <1>3
<1>5. n \in Nat
  OBVIOUS
<1> HIDE DEF n
<1>6. UpTo(n) \in Seq(Nat) /\ Len(UpTo(n)) = n /\ \A i \in 1..n : UpTo(n)[i] = i
  <2>1. \A k \in Nat : \A f \in [1..k -> Nat] : f \in Seq(Nat) /\ Len(f) = k
    OBVIOUS
  <2>2. UpTo(n) \in [1..n -> Nat] /\ \A i \in 1..n : UpTo(n)[i] = i
    BY <1>5 DEF UpTo
  <2> QED BY <1>5, <2>1, <2>2
<1>7. (s \o t) \o u = UpTo(n)
  BY <1>4, <1>6, SeqEqual
<1> QED BY <1>7 DEF n

\* The places of the characters say that each direction is in order and complete.
LEMMA UartInvInOrder == UartInv => TxInOrder /\ RxInOrder
<1>1. ASSUME UartInv PROVE TxInOrder
  <2> DEFINE ring == Pending(tx_buf, tx_in, tx_out)
  <2>1. /\ tx_buf \in [Slots -> Nat] /\ tx_in \in Slots /\ tx_out \in Slots
        /\ hostGot \in Seq(Nat) /\ txfifo \in Seq(Nat)
    BY <1>1 DEF UartInv, UartTypeOK
  <2>2. /\ Published = Len(hostGot) + Len(txfifo) + InTx
        /\ \A i \in 1..Len(hostGot) : hostGot[i] = i
        /\ \A i \in 1..Len(txfifo) : txfifo[i] = Len(hostGot) + i
        /\ \A s \in Slots : Ahead(s, tx_out) < InTx =>
             tx_buf[s] = Len(hostGot) + Len(txfifo) + Ahead(s, tx_out) + 1
    BY <1>1 DEF UartInv, TxPlaced
  <2>3. /\ ring \in Seq(Nat) /\ Len(ring) = InTx
        /\ \A i \in 1..InTx : /\ Forward(tx_out, i - 1) \in Slots
                              /\ Ahead(Forward(tx_out, i - 1), tx_out) = i - 1
                              /\ ring[i] = tx_buf[Forward(tx_out, i - 1)]
    BY <2>1, PendingFacts DEF InTx
  <2> HIDE DEF ring
  <2>4. Len(hostGot) \in Nat /\ Len(txfifo) \in Nat /\ InTx \in Nat
    BY <2>1, <2>3
  <2>5. \A i \in 1..Len(ring) : ring[i] = Len(hostGot) + Len(txfifo) + i
    <3> TAKE i \in 1..Len(ring)
    <3>1. i \in 1..InTx /\ i \in Nat /\ i - 1 < InTx
      BY <2>3, <2>4
    <3>2. ring[i] = Len(hostGot) + Len(txfifo) + (i - 1) + 1
      BY <2>2, <2>3, <3>1
    <3> QED BY <2>4, <3>1, <3>2
  <2>6. hostGot \o txfifo \o ring = UpTo(Len(hostGot) + Len(txfifo) + Len(ring))
    BY <2>1, <2>2, <2>3, <2>5, CountsToEnd
  <2>7. Len(hostGot) + Len(txfifo) + Len(ring) = Published
    BY <2>2, <2>3
  <2> QED BY <2>6, <2>7 DEF TxInOrder, ring
<1>2. ASSUME UartInv PROVE RxInOrder
  <2> DEFINE ring == Pending(rx_buf, rx_in, rx_out)
             rest == SubSeq(ring, Copied + 1, Len(ring))
  <2>1. /\ rx_buf \in [Slots -> Nat] /\ rx_in \in Slots /\ rx_out \in Slots
        /\ got \in Seq(Nat) /\ rxfifo \in Seq(Nat)
    BY <1>2 DEF UartInv, UartTypeOK
  <2>2. /\ hostSent = Len(got) - Copied + InRx + Len(rxfifo)
        /\ \A i \in 1..Len(got) : got[i] = i
        /\ \A s \in Slots : Ahead(s, rx_out) < InRx =>
             rx_buf[s] = Len(got) - Copied + Ahead(s, rx_out) + 1
        /\ \A i \in 1..Len(rxfifo) : rxfifo[i] = Len(got) - Copied + InRx + i
    BY <1>2 DEF UartInv, RxPlaced
  <2>3. /\ ring \in Seq(Nat) /\ Len(ring) = InRx
        /\ \A i \in 1..InRx : /\ Forward(rx_out, i - 1) \in Slots
                              /\ Ahead(Forward(rx_out, i - 1), rx_out) = i - 1
                              /\ ring[i] = rx_buf[Forward(rx_out, i - 1)]
    BY <2>1, PendingFacts DEF InRx
  <2> HIDE DEF ring
  <2>4. Len(got) \in Nat /\ Len(rxfifo) \in Nat /\ InRx \in Nat /\ Copied \in Nat /\ Copied <= InRx
    <3>1. UartTypeOK /\ RxHeld
      BY <1>2 DEF UartInv
    <3>2. Copied \in Nat /\ InRx \in Nat
      BY <3>1, CallFields
    <3> QED BY <2>1, <3>1, <3>2 DEF RxHeld, Copied
  <2>5. ASSUME NEW i \in 1..InRx PROVE ring[i] = Len(got) - Copied + i
    <3>1. i \in Nat /\ i - 1 < InRx
      BY <2>4
    <3>2. ring[i] = Len(got) - Copied + (i - 1) + 1
      BY <2>2, <2>3, <3>1
    <3> QED BY <2>4, <3>1, <3>2
  <2>6. /\ rest \in Seq(Nat) /\ Len(rest) = InRx - Copied
        /\ \A i \in 1..InRx - Copied : Copied + i \in 1..InRx /\ rest[i] = ring[Copied + i]
    BY <2>3, <2>4, Parts
  <2> HIDE DEF rest
  <2>7. \A i \in 1..Len(rest) : rest[i] = Len(got) + i
    <3> TAKE i \in 1..Len(rest)
    <3>1. Copied + i \in 1..InRx /\ rest[i] = ring[Copied + i]
      BY <2>6
    <3>2. rest[i] = Len(got) - Copied + (Copied + i)
      BY <2>5, <3>1
    <3> QED BY <2>4, <2>6, <3>2
  <2>8. \A i \in 1..Len(rxfifo) : rxfifo[i] = Len(got) + Len(rest) + i
    BY <2>2, <2>4, <2>6
  <2>9. got \o rest \o rxfifo = UpTo(Len(got) + Len(rest) + Len(rxfifo))
    BY <2>1, <2>2, <2>6, <2>7, <2>8, CountsToEnd
  <2>10. Len(got) + Len(rest) + Len(rxfifo) = hostSent
    BY <2>2, <2>4, <2>6
  <2> QED BY <2>9, <2>10 DEF RxInOrder, ring, rest, Copied
<1> QED BY <1>1, <1>2

\* What the application wrote is with the host, in the device or in the ring, in order
\* and once each.
THEOREM TransmitsInOrder == Spec => []TxInOrder
BY UartInvInOrder, UartInvInvariant, PTL DEF Spec

\* What the host sent is with the application, in the ring or in the device, in order and
\* once each.
THEOREM ReceivesInOrder == Spec => []RxInOrder
BY UartInvInOrder, UartInvInvariant, PTL DEF Spec

\* Interrupts that are off are about to be switched on, or have nothing to do.
THEOREM NoWakeUpLost == Spec => []NoStall
<1>1. UartInv => NoStall
  BY DEF UartInv
<1> QED BY <1>1, UartInvInvariant, PTL DEF Spec

\* The indices stay in the rings, and the device never holds more than its FIFOs.
THEOREM UartTypes == Spec => []TypeOK
<1>1. UartInv => TypeOK
  BY DEF UartInv, UartTypeOK, TypeOK, CallType
<1> QED BY <1>1, UartInvInvariant, PTL DEF Spec

-----------------------------------------------------------------------------
(* The descriptors *)

\* A nonempty set of natural numbers has a least member.
LEMMA LeastOf ==
    ASSUME NEW S, S \subseteq Nat, S # {}
    PROVE  \E x \in S : \A y \in S : x <= y
<1>1. PICK x \in S : \A y \in S : ~(<<y, x>> \in OpToRel(<, Nat))
  BY NatLessThanWellFounded, WFMin
<1>2. ASSUME NEW y \in S PROVE x <= y
  <2>1. ~(y < x)
    BY <1>1 DEF OpToRel
  <2> QED BY <2>1
<1> QED BY <1>2

\* The fields of a descriptor.
IsDescriptor(d) == d = [dev |-> d.dev, excl |-> d.excl, isdev |-> d.isdev, access |-> d.access]

\* The pool of descriptors: one that is free is empty, the standard streams are never
\* free, the mark covers the others, and before main nothing is open or locked.
Registered == Device \in Fd!Range(Fd!Entries(dev_list))

FdInv ==
    /\ fd_list = [fd \in Fd!Fds |-> fd_list[fd]]
    /\ \A fd \in Fd!Fds : IsDescriptor(fd_list[fd]) /\ (~Fd!InUse(fd) => fd_list[fd] = Fd!FREE)
    /\ \A fd \in Fd!StdFds : Fd!InUse(fd)
    /\ max_fd \in -1..ALT_MAX_FD - 1
    /\ \A fd \in Fd!Fds \ Fd!StdFds : Fd!InUse(fd) => fd <= max_fd
    /\ stage \in {"sys_init", "stdout", "stdin", "stderr", "main"}
    /\ stage # "main" =>
         /\ result.call = "none"
         /\ \A fd \in Fd!Fds : fd_list[fd].excl = FALSE /\ (fd \notin Fd!StdFds => ~Fd!InUse(fd))
    /\ Registered =>
         /\ stage \in {"stdin", "stderr", "main"} => fd_list[1].dev = Device
         /\ stage \in {"stderr", "main"} => fd_list[0].dev = Device
         /\ stage = "main" => fd_list[2].dev = Device

\* Descriptors are numbers, and there are more than the standard ones.
LEMMA Descriptors ==
    /\ ALT_MAX_FD \in Nat /\ ALT_MAX_FD > 3
    /\ \A fd \in Fd!Fds : fd \in Nat /\ fd < ALT_MAX_FD
    /\ \A fd \in Int : 0 <= fd /\ fd < ALT_MAX_FD => fd \in Fd!Fds
    /\ \A fd \in Fd!Fds : fd \in Fd!StdFds <=> fd <= 2
    /\ Fd!StdFds = {0, 1, 2} /\ Fd!StdFds \subseteq Fd!Fds
<1>1. ALT_MAX_FD \in Nat /\ ALT_MAX_FD > 3
  BY PoolAssumption
<1>2. Fd!StdFds = {0, 1, 2}
  BY DEF Fd!StdFds
<1> QED BY <1>1, <1>2 DEF Fd!Fds

\* alt_get_fd finds a free descriptor that is none of the standard ones.
LEMMA GetFd ==
    ASSUME FdInv
    PROVE  \/ Fd!get_fd = Fd!FAILED /\ \A fd \in Fd!Fds : Fd!InUse(fd)
           \/ Fd!get_fd \in Fd!Fds /\ Fd!get_fd > 2 /\ ~Fd!InUse(Fd!get_fd)
<1>1. CASE \A fd \in Fd!Fds : Fd!InUse(fd)
  BY <1>1 DEF Fd!get_fd
<1>2. CASE ~\A fd \in Fd!Fds : Fd!InUse(fd)
  <2> DEFINE S == {fd \in Fd!Fds : ~Fd!InUse(fd)}
  <2>1. S \subseteq Nat /\ S # {}
    BY <1>2, Descriptors
  <2>2. \E x \in S : \A y \in S : x <= y
    <3> HIDE DEF S
    <3> QED BY <2>1, LeastOf
  <2>3. Fd!get_fd = Fd!Min(S)
    BY <1>2 DEF Fd!get_fd
  <2>4. Fd!Min(S) \in S
    <3> HIDE DEF S
    <3> QED BY <2>2 DEF Fd!Min
  <2>5. Fd!get_fd \in Fd!Fds /\ ~Fd!InUse(Fd!get_fd)
    BY <2>3, <2>4
  <2>6. Fd!get_fd \notin Fd!StdFds
    BY <2>5 DEF FdInv
  <2> QED BY <2>5, <2>6, Descriptors
<1> QED BY <1>1, <1>2

\* The larger of two numbers.
LEMMA MaxOfTwo ==
    ASSUME NEW a \in Int, NEW b \in Int
    PROVE  Fd!Max({a, b}) \in {a, b} /\ Fd!Max({a, b}) >= a /\ Fd!Max({a, b}) >= b
<1>1. CASE a <= b
  <2>1. \E x \in {a, b} : \A y \in {a, b} : x >= y
    BY <1>1
  <2> QED BY <2>1 DEF Fd!Max
<1>2. CASE b <= a
  <2>1. \E x \in {a, b} : \A y \in {a, b} : x >= y
    BY <1>2
  <2> QED BY <2>1 DEF Fd!Max
<1> QED BY <1>1, <1>2

\* The new mark covers the descriptor that is given out, and everything it covered.
LEMMA MarkFacts ==
    ASSUME FdInv, NEW fd \in Fd!Fds
    PROVE  Fd!Mark(fd) \in -1..ALT_MAX_FD - 1 /\ Fd!Mark(fd) >= fd /\ Fd!Mark(fd) >= max_fd
<1>1. max_fd \in Int /\ fd \in Int /\ fd \in -1..ALT_MAX_FD - 1 /\ max_fd \in -1..ALT_MAX_FD - 1
  BY Descriptors DEF FdInv
<1>2. /\ Fd!Max({max_fd, fd}) \in {max_fd, fd}
      /\ Fd!Max({max_fd, fd}) >= max_fd /\ Fd!Max({max_fd, fd}) >= fd
  BY <1>1, MaxOfTwo
<1> QED BY <1>1, <1>2 DEF Fd!Mark

\* What open decides.
LEMMA OpeningFacts ==
    ASSUME FdInv, NEW name, NEW accepts \in BOOLEAN
    PROVE  LET o == Fd!Opening(name, accepts)
           IN /\ \/ o.fd = Fd!FAILED
                 \/ o.fd \in Fd!Fds /\ o.fd > 2 /\ ~Fd!InUse(o.fd) /\ o.dev # Fd!NULL
              /\ o.granted => o.fd # Fd!FAILED
              /\ o.granted /\ ~o.isafs => ~Fd!file_locked(o.fd, o.dev)
              /\ o.isafs \in BOOLEAN
<1> DEFINE dev == Fd!FindDev(dev_list, name)
           isafs == dev = Fd!NULL
           owner == IF isafs THEN Fd!FindFile(fs_list, name) ELSE dev
           fd == IF owner = Fd!NULL THEN Fd!FAILED ELSE Fd!get_fd
           granted == fd # Fd!FAILED /\ (IF isafs THEN accepts ELSE ~Fd!file_locked(fd, owner))
           o == Fd!Opening(name, accepts)
<1>1. o = [dev |-> owner, isafs |-> isafs, fd |-> fd, granted |-> granted]
  BY DEF Fd!Opening
<1>2. o.dev = owner /\ o.isafs = isafs /\ o.fd = fd /\ o.granted = granted
  BY <1>1
<1>3. \/ fd = Fd!FAILED
      \/ fd \in Fd!Fds /\ fd > 2 /\ ~Fd!InUse(fd) /\ owner # Fd!NULL
  BY GetFd
<1> HIDE DEF o, dev, owner, fd
<1> QED BY <1>2, <1>3 DEF o

\* alt_release_fd leaves a standard stream, and no descriptor, alone.
LEMMA AfterOpenFacts ==
    ASSUME FdInv, NEW o, NEW access, o.granted => o.fd # Fd!FAILED,
           \/ o.fd = Fd!FAILED
           \/ o.fd \in Fd!Fds /\ o.fd > 2 /\ ~Fd!InUse(o.fd) /\ o.dev # Fd!NULL
    PROVE  /\ ~o.granted => Fd!AfterOpen(o, access) = fd_list
           /\ o.granted => Fd!AfterOpen(o, access) =
                [fd_list EXCEPT ![o.fd] = [dev |-> o.dev, excl |-> FALSE, isdev |-> ~o.isafs, access |-> access]]
<1>1. CASE o.granted
  BY <1>1 DEF Fd!AfterOpen, Fd!Opened
<1>2. CASE ~o.granted /\ o.fd = Fd!FAILED
  <2>1. ~(o.fd > 2)
    BY <1>2 DEF Fd!FAILED
  <2> QED BY <1>2, <2>1 DEF Fd!AfterOpen, Fd!Opened, Fd!release_fd
<1>3. CASE ~o.granted /\ o.fd # Fd!FAILED
  <2> DEFINE r == [dev |-> o.dev, excl |-> FALSE, isdev |-> ~o.isafs, access |-> access]
             n == o.fd
  <2>1. n \in Fd!Fds /\ n > 2 /\ fd_list[n] = Fd!FREE
    BY <1>3 DEF FdInv
  <2>2. Fd!AfterOpen(o, access) = [[fd_list EXCEPT ![n] = r] EXCEPT ![n] = Fd!FREE]
    BY <1>3, <2>1 DEF Fd!AfterOpen, Fd!Opened, Fd!release_fd
  <2>3. fd_list = [fd \in Fd!Fds |-> fd_list[fd]]
    BY DEF FdInv
  <2> HIDE DEF r, n
  <2>4. [[fd_list EXCEPT ![n] = r] EXCEPT ![n] = Fd!FREE] = [fd \in Fd!Fds |-> fd_list[fd]]
    BY <2>1, <2>3
  <2> QED BY <1>3, <2>2, <2>3, <2>4
<1> QED BY <1>1, <1>2, <1>3

\* What start-up leaves in a standard descriptor.
LEMMA RedirectFacts ==
    ASSUME FdInv, NEW from \in {"stdout", "stdin", "stderr"}, NEW k \in Fd!StdFds, NEW access, NEW to,
           Fd!Redirect(from, k, access, to)
    PROVE  /\ fd_list' = [fd \in Fd!Fds |-> fd_list'[fd]]
           /\ \A fd \in Fd!Fds : fd # k => fd_list'[fd] = fd_list[fd]
           /\ IsDescriptor(fd_list'[k]) /\ fd_list'[k].dev # Fd!NULL /\ fd_list'[k].excl = FALSE
           /\ Registered => fd_list'[k].dev = Device
           /\ max_fd' \in -1..ALT_MAX_FD - 1 /\ max_fd' >= max_fd
           /\ dev_list' = dev_list /\ result' = result
           /\ stage = from /\ stage' = to
<1>1. PICK accepts \in BOOLEAN :
        LET o == Fd!Opening(Device, accepts)
            pool == Fd!AfterOpen(o, access)
        IN /\ fd_list' = IF o.granted THEN Fd!release_fd([pool EXCEPT ![k] = pool[o.fd]], o.fd) ELSE pool
           /\ max_fd' = IF o.fd = Fd!FAILED THEN max_fd ELSE Fd!Mark(o.fd)
  BY DEF Fd!Redirect
<1> DEFINE o == Fd!Opening(Device, accepts)
           pool == Fd!AfterOpen(o, access)
           r == [dev |-> o.dev, excl |-> FALSE, isdev |-> ~o.isafs, access |-> access]
           n == o.fd
<1>2. stage = from /\ stage' = to /\ dev_list' = dev_list /\ result' = result
  BY DEF Fd!Redirect, Fd!lists
<1>3. /\ \/ n = Fd!FAILED
         \/ n \in Fd!Fds /\ n > 2 /\ ~Fd!InUse(n) /\ o.dev # Fd!NULL
      /\ o.granted => n # Fd!FAILED
  BY OpeningFacts
<1>4. /\ ~o.granted => pool = fd_list
      /\ o.granted => pool = [fd_list EXCEPT ![n] = r]
  <2> HIDE DEF o
  <2> QED BY <1>3, AfterOpenFacts
<1>5. /\ fd_list' = IF o.granted THEN Fd!release_fd([pool EXCEPT ![k] = pool[n]], n) ELSE pool
      /\ max_fd' = IF n = Fd!FAILED THEN max_fd ELSE Fd!Mark(n)
  BY <1>1
<1>6. Registered => o.dev = Device /\ o.granted
  <2>1. SUFFICES ASSUME Registered PROVE o.dev = Device /\ o.granted
    OBVIOUS
  <2>2. Fd!FindDev(dev_list, Device) = Device /\ Device # Fd!NULL
    BY <2>1 DEF Registered, Fd!FindDev, Fd!NULL, Device
  <2>3. 3 \in Fd!Fds /\ 3 \notin Fd!StdFds
    BY Descriptors
  <2>4. ~Fd!InUse(3) /\ \A fd \in Fd!Fds : fd_list[fd].excl = FALSE
    BY <1>2, <2>3 DEF FdInv
  <2>5. Fd!get_fd # Fd!FAILED
    <3>1. -1 \notin Fd!Fds
      BY Descriptors
    <3> QED BY <2>3, <2>4, <3>1, GetFd DEF Fd!FAILED
  <2>6. ~Fd!file_locked(Fd!get_fd, Device)
    BY <2>4 DEF Fd!file_locked
  <2> QED BY <2>2, <2>5, <2>6 DEF Fd!Opening
<1>7. fd_list = [fd \in Fd!Fds |-> fd_list[fd]] /\ max_fd \in -1..ALT_MAX_FD - 1
  BY DEF FdInv
<1>8. k \in Fd!Fds /\ k <= 2 /\ \A fd \in Fd!Fds : fd \in Nat
  BY Descriptors
<1> HIDE DEF o, pool, r, n
<1>9. max_fd' \in -1..ALT_MAX_FD - 1 /\ max_fd' >= max_fd
  <2>1. CASE n = Fd!FAILED
    BY <1>5, <1>7, <2>1
  <2>2. CASE n # Fd!FAILED
    BY <1>3, <1>5, <2>2, MarkFacts
  <2> QED BY <2>1, <2>2
<1>10. CASE o.granted
  <2>1. n \in Fd!Fds /\ n > 2 /\ fd_list[n] = Fd!FREE /\ o.dev # Fd!NULL
    BY <1>3, <1>10 DEF FdInv
  <2>2. fd_list' = [[pool EXCEPT ![k] = pool[n]] EXCEPT ![n] = Fd!FREE]
    BY <1>5, <1>10, <2>1 DEF Fd!release_fd
  <2>3. pool = [fd_list EXCEPT ![n] = r] /\ pool[n] = r
    BY <1>4, <1>7, <1>10, <2>1
  <2>4. fd_list' = [fd \in Fd!Fds |-> IF fd = k THEN r ELSE fd_list[fd]]
    <3>1. fd_list' = [[[fd_list EXCEPT ![n] = r] EXCEPT ![k] = r] EXCEPT ![n] = Fd!FREE]
      BY <2>2, <2>3
    <3>2. k # n
      BY <1>8, <2>1
    <3> QED BY <1>7, <1>8, <2>1, <3>1, <3>2
  <2>5. fd_list'[k] = r /\ \A fd \in Fd!Fds : fd # k => fd_list'[fd] = fd_list[fd]
    BY <1>8, <2>4
  <2>6. r.dev = o.dev /\ r.excl = FALSE /\ IsDescriptor(r)
    BY DEF r, IsDescriptor
  <2>7. fd_list' = [fd \in Fd!Fds |-> fd_list'[fd]]
    BY <2>4
  <2> QED BY <1>2, <1>6, <1>9, <2>1, <2>5, <2>6, <2>7
<1>11. CASE ~o.granted
  <2>1. fd_list' = fd_list
    BY <1>4, <1>5, <1>11
  <2>2. IsDescriptor(fd_list[k]) /\ fd_list[k].dev # Fd!NULL /\ fd_list[k].excl = FALSE
    BY <1>2, <1>8 DEF FdInv, Fd!InUse
  <2> QED BY <1>2, <1>6, <1>7, <1>9, <1>11, <2>1, <2>2
<1> QED BY <1>10, <1>11

\* Start-up fills the standard descriptors.
LEMMA StepRedirect ==
    ASSUME FdInv, Fd!IoRedirect
    PROVE  FdInv'
<1>1. PICK from \in {"stdout", "stdin", "stderr"}, k \in Fd!StdFds, access \in {"r", "w"},
           to \in {"stdin", "stderr", "main"} :
        /\ Fd!Redirect(from, k, access, to)
        /\ \/ from = "stdout" /\ k = 1 /\ to = "stdin"
           \/ from = "stdin" /\ k = 0 /\ to = "stderr"
           \/ from = "stderr" /\ k = 2 /\ to = "main"
  <2>1. 0 \in Fd!StdFds /\ 1 \in Fd!StdFds /\ 2 \in Fd!StdFds
    BY Descriptors
  <2> QED BY <2>1 DEF Fd!IoRedirect
<1>2. /\ fd_list' = [fd \in Fd!Fds |-> fd_list'[fd]]
      /\ \A fd \in Fd!Fds : fd # k => fd_list'[fd] = fd_list[fd]
      /\ IsDescriptor(fd_list'[k]) /\ fd_list'[k].dev # Fd!NULL /\ fd_list'[k].excl = FALSE
      /\ Registered => fd_list'[k].dev = Device
      /\ max_fd' \in -1..ALT_MAX_FD - 1 /\ max_fd' >= max_fd
      /\ dev_list' = dev_list /\ result' = result
      /\ stage = from /\ stage' = to
  BY <1>1, RedirectFacts
<1>3. /\ k \in Fd!Fds /\ 0 \in Fd!Fds /\ 1 \in Fd!Fds /\ 2 \in Fd!Fds
      /\ \A fd \in Fd!Fds : fd \in Nat
  BY Descriptors
<1>4. /\ result.call = "none" /\ \A fd \in Fd!Fds : fd_list[fd].excl = FALSE
      /\ \A fd \in Fd!Fds : fd \notin Fd!StdFds => ~Fd!InUse(fd)
  BY <1>2 DEF FdInv
<1>5. \A fd \in Fd!Fds : fd # k => Fd!InUse(fd)' = Fd!InUse(fd)
  BY <1>2 DEF Fd!InUse
<1>6. Fd!InUse(k)'
  BY <1>2 DEF Fd!InUse
<1>7. /\ \A fd \in Fd!Fds : IsDescriptor(fd_list[fd])' /\ (~Fd!InUse(fd)' => fd_list'[fd] = Fd!FREE)
      /\ \A fd \in Fd!StdFds : Fd!InUse(fd)'
  <2>1. \A fd \in Fd!Fds : IsDescriptor(fd_list'[fd])
    BY <1>2 DEF FdInv
  <2> QED BY <1>2, <1>5, <1>6, <2>1, Descriptors DEF FdInv, IsDescriptor
<1>8. \A fd \in Fd!Fds \ Fd!StdFds : ~Fd!InUse(fd)'
  BY <1>4, <1>5
<1>9. Registered' = Registered
  BY <1>2 DEF Registered
<1>10. Registered =>
         /\ to \in {"stdin", "stderr", "main"} => fd_list'[1].dev = Device
         /\ to \in {"stderr", "main"} => fd_list'[0].dev = Device
         /\ to = "main" => fd_list'[2].dev = Device
  <2> SUFFICES ASSUME Registered
               PROVE  /\ to \in {"stdin", "stderr", "main"} => fd_list'[1].dev = Device
                      /\ to \in {"stderr", "main"} => fd_list'[0].dev = Device
                      /\ to = "main" => fd_list'[2].dev = Device
    OBVIOUS
  <2>1. /\ stage \in {"stdin", "stderr", "main"} => fd_list[1].dev = Device
        /\ stage \in {"stderr", "main"} => fd_list[0].dev = Device
    BY DEF FdInv
  <2> QED BY <1>1, <1>2, <1>3, <2>1
<1>11. \A fd \in Fd!Fds : fd_list'[fd].excl = FALSE
  BY <1>2, <1>4
<1> QED BY <1>1, <1>2, <1>4, <1>7, <1>8, <1>9, <1>10, <1>11 DEF FdInv

\* What a call of open does: nothing to the pool, or it fills a free descriptor with a
\* device that none has for itself.
LEMMA OpenFacts ==
    ASSUME FdInv, NEW name, NEW access, NEW accepts \in BOOLEAN, Fd!Open(name, access, accepts)
    PROVE  /\ stage = "main" /\ stage' = "main" /\ dev_list' = dev_list
           /\ max_fd' \in -1..ALT_MAX_FD - 1 /\ max_fd' >= max_fd
           /\ \/ fd_list' = fd_list /\ result' = Fd!Done("open", Fd!FAILED)
              \/ \E n, owner, isdev :
                   /\ n \in Fd!Fds /\ n > 2 /\ ~Fd!InUse(n) /\ owner # Fd!NULL /\ n <= max_fd'
                   /\ isdev => ~Fd!file_locked(n, owner)
                   /\ fd_list' = [fd_list EXCEPT ![n] = [dev |-> owner, excl |-> FALSE,
                                                         isdev |-> isdev, access |-> access]]
                   /\ result' = Fd!Done("open", n)
<1> DEFINE o == Fd!Opening(name, accepts)
           n == o.fd
<1>1. /\ stage = "main" /\ stage' = "main" /\ dev_list' = dev_list
      /\ fd_list' = Fd!AfterOpen(o, access)
      /\ max_fd' = IF n = Fd!FAILED THEN max_fd ELSE Fd!Mark(n)
      /\ result' = Fd!Done("open", IF o.granted THEN n ELSE Fd!FAILED)
  BY DEF Fd!Open, Fd!lists
<1>2. /\ \/ n = Fd!FAILED
         \/ n \in Fd!Fds /\ n > 2 /\ ~Fd!InUse(n) /\ o.dev # Fd!NULL
      /\ o.granted => n # Fd!FAILED
      /\ o.granted /\ ~o.isafs => ~Fd!file_locked(n, o.dev)
      /\ o.isafs \in BOOLEAN
  BY OpeningFacts
<1>3. /\ ~o.granted => Fd!AfterOpen(o, access) = fd_list
      /\ o.granted => Fd!AfterOpen(o, access) =
           [fd_list EXCEPT ![n] = [dev |-> o.dev, excl |-> FALSE, isdev |-> ~o.isafs, access |-> access]]
  <2> HIDE DEF o
  <2> QED BY <1>2, AfterOpenFacts
<1> HIDE DEF o, n
<1>4. max_fd \in -1..ALT_MAX_FD - 1
  BY DEF FdInv
<1>5. max_fd' \in -1..ALT_MAX_FD - 1 /\ max_fd' >= max_fd /\ (n # Fd!FAILED => n <= max_fd')
  <2>1. CASE n = Fd!FAILED
    BY <1>1, <1>4, <2>1
  <2>2. CASE n # Fd!FAILED
    <3>1. n \in Fd!Fds /\ n \in Nat
      BY <1>2, <2>2, Descriptors
    <3> QED BY <1>1, <2>2, <3>1, MarkFacts
  <2> QED BY <2>1, <2>2
<1>6. CASE ~o.granted
  BY <1>1, <1>3, <1>5, <1>6
<1>7. CASE o.granted
  <2>1. n \in Fd!Fds /\ n > 2 /\ ~Fd!InUse(n) /\ o.dev # Fd!NULL /\ n <= max_fd'
    BY <1>2, <1>5, <1>7
  <2>2. ~o.isafs => ~Fd!file_locked(n, o.dev)
    BY <1>2, <1>7
  <2>3. /\ fd_list' = [fd_list EXCEPT ![n] = [dev |-> o.dev, excl |-> FALSE,
                                              isdev |-> ~o.isafs, access |-> access]]
        /\ result' = Fd!Done("open", n)
    BY <1>1, <1>3, <1>7
  <2> QED BY <1>1, <1>5, <2>1, <2>2, <2>3
<1> QED BY <1>6, <1>7

\* An open fills one free descriptor or none.
LEMMA StepOpen ==
    ASSUME FdInv, NEW name, NEW access, NEW accepts \in BOOLEAN, Fd!Open(name, access, accepts)
    PROVE  FdInv'
<1>1. /\ stage = "main" /\ stage' = "main" /\ dev_list' = dev_list
      /\ max_fd' \in -1..ALT_MAX_FD - 1 /\ max_fd' >= max_fd
  BY OpenFacts
<1>2. Registered' = Registered
  BY <1>1 DEF Registered
<1>3. CASE fd_list' = fd_list
  BY <1>1, <1>2, <1>3, Descriptors DEF FdInv, Fd!InUse, IsDescriptor
<1>4. CASE \E n, owner, isdev :
             /\ n \in Fd!Fds /\ n > 2 /\ owner # Fd!NULL /\ n <= max_fd'
             /\ fd_list' = [fd_list EXCEPT ![n] = [dev |-> owner, excl |-> FALSE,
                                                   isdev |-> isdev, access |-> access]]
  <2>1. PICK n, owner, isdev :
             /\ n \in Fd!Fds /\ n > 2 /\ owner # Fd!NULL /\ n <= max_fd'
             /\ fd_list' = [fd_list EXCEPT ![n] = [dev |-> owner, excl |-> FALSE,
                                                   isdev |-> isdev, access |-> access]]
    BY <1>4
  <2> DEFINE r == [dev |-> owner, excl |-> FALSE, isdev |-> isdev, access |-> access]
  <2>2. r.dev = owner /\ IsDescriptor(r)
    BY DEF IsDescriptor
  <2> HIDE DEF r
  <2>3. fd_list = [fd \in Fd!Fds |-> fd_list[fd]]
    BY DEF FdInv
  <2>4. /\ fd_list' = [fd \in Fd!Fds |-> fd_list'[fd]]
        /\ fd_list'[n] = r /\ \A fd \in Fd!Fds : fd # n => fd_list'[fd] = fd_list[fd]
    BY <2>1, <2>3 DEF r
  <2>5. \A fd \in Fd!Fds : Fd!InUse(fd)' <=> fd = n \/ Fd!InUse(fd)
    BY <2>1, <2>2, <2>4 DEF Fd!InUse
  <2>6. 0 \in Fd!Fds /\ 1 \in Fd!Fds /\ 2 \in Fd!Fds /\ Fd!StdFds \subseteq Fd!Fds
    BY Descriptors
  <2>7. \A fd \in Fd!Fds : IsDescriptor(fd_list[fd])' /\ (~Fd!InUse(fd)' => fd_list'[fd] = Fd!FREE)
    <3>1. \A fd \in Fd!Fds : IsDescriptor(fd_list'[fd])
      BY <2>2, <2>4 DEF FdInv
    <3> QED BY <2>4, <2>5, <3>1 DEF FdInv, IsDescriptor
  <2>8. \A fd \in Fd!StdFds : Fd!InUse(fd)'
    BY <2>5, <2>6 DEF FdInv
  <2>9. \A fd \in Fd!Fds \ Fd!StdFds : Fd!InUse(fd)' => fd <= max_fd'
    <3>1. \A fd \in Fd!Fds : fd \in Nat
      BY Descriptors
    <3>2. max_fd \in Int /\ max_fd' \in Int
      BY <1>1 DEF FdInv
    <3> QED BY <1>1, <2>1, <2>5, <3>1, <3>2 DEF FdInv
  <2>10. Registered => fd_list'[1].dev = Device /\ fd_list'[0].dev = Device /\ fd_list'[2].dev = Device
    BY <1>1, <2>1, <2>4, <2>6 DEF FdInv
  <2> QED BY <1>1, <1>2, <2>4, <2>7, <2>8, <2>9, <2>10 DEF FdInv
<1> QED BY <1>3, <1>4, OpenFacts

\* Calls that only give a descriptor back or change whether it is exclusive.
LEMMA StepOthers ==
    ASSUME FdInv, NEW k \in Fd!Fds,
           \/ Fd!Close(k) \/ Fd!IoctlExcl(k) \/ Fd!IoctlNxcl(k)
           \/ \E c \in {"read", "write"} : Fd!Transfer(k, c)
    PROVE  FdInv' /\ result'.call # "open" /\ stage = "main"
<1>1. stage = "main" /\ UNCHANGED <<dev_list, max_fd, stage>>
  BY DEF Fd!Close, Fd!IoctlExcl, Fd!IoctlNxcl, Fd!Transfer, Fd!lists
<1>2. result'.call # "open"
  BY DEF Fd!Close, Fd!IoctlExcl, Fd!IoctlNxcl, Fd!Transfer, Fd!Done
<1>3. Registered' = Registered
  BY <1>1 DEF Registered
<1>4. fd_list = [fd \in Fd!Fds |-> fd_list[fd]]
  BY DEF FdInv
<1>5. /\ \A fd \in Fd!Fds : fd \in Nat
      /\ 0 \in Fd!Fds /\ 1 \in Fd!Fds /\ 2 \in Fd!Fds
      /\ Fd!StdFds = {0, 1, 2} /\ Fd!StdFds \subseteq Fd!Fds
  BY Descriptors
<1>6. CASE fd_list' = fd_list
  BY <1>1, <1>2, <1>3, <1>5, <1>6 DEF FdInv, Fd!InUse, IsDescriptor
<1>7. CASE k > 2 /\ fd_list' = [fd_list EXCEPT ![k] = Fd!FREE]
  <2>1. /\ fd_list' = [fd \in Fd!Fds |-> fd_list'[fd]]
        /\ fd_list'[k] = Fd!FREE /\ \A fd \in Fd!Fds : fd # k => fd_list'[fd] = fd_list[fd]
    BY <1>4, <1>7
  <2>2. Fd!FREE.dev = Fd!NULL /\ IsDescriptor(Fd!FREE)
    BY DEF Fd!FREE, IsDescriptor
  <2>3. \A fd \in Fd!Fds : Fd!InUse(fd)' <=> fd # k /\ Fd!InUse(fd)
    BY <2>1, <2>2 DEF Fd!InUse
  <2>4. \A fd \in Fd!StdFds : fd # k
    BY <1>5, <1>7
  <2>5. \A fd \in Fd!Fds : IsDescriptor(fd_list[fd])' /\ (~Fd!InUse(fd)' => fd_list'[fd] = Fd!FREE)
    <3>1. \A fd \in Fd!Fds : IsDescriptor(fd_list'[fd])
      BY <2>1, <2>2 DEF FdInv
    <3> QED BY <2>1, <2>3, <3>1 DEF FdInv, IsDescriptor
  <2> QED BY <1>1, <1>2, <1>3, <1>5, <2>1, <2>3, <2>4, <2>5 DEF FdInv
<1>8. CASE Fd!InUse(k) /\ \E b : fd_list' = [fd_list EXCEPT ![k].excl = b]
  <2>1. PICK b : fd_list' = [fd_list EXCEPT ![k].excl = b]
    BY <1>8
  <2>2. /\ fd_list' = [fd \in Fd!Fds |-> fd_list'[fd]]
        /\ fd_list'[k] = [fd_list[k] EXCEPT !.excl = b]
        /\ \A fd \in Fd!Fds : fd # k => fd_list'[fd] = fd_list[fd]
    BY <1>4, <2>1
  <2> DEFINE d == fd_list[k]
  <2>3. IsDescriptor(d)
    BY DEF FdInv
  <2>4. [d EXCEPT !.excl = b] = [dev |-> d.dev, excl |-> b, isdev |-> d.isdev, access |-> d.access]
    <3> HIDE DEF d
    <3>1. [[dev |-> d.dev, excl |-> d.excl, isdev |-> d.isdev, access |-> d.access] EXCEPT !.excl = b] =
            [dev |-> d.dev, excl |-> b, isdev |-> d.isdev, access |-> d.access]
      OBVIOUS
    <3> QED BY <2>3, <3>1 DEF IsDescriptor
  <2>5. fd_list'[k].dev = fd_list[k].dev /\ IsDescriptor(fd_list'[k])
    BY <2>2, <2>4 DEF IsDescriptor
  <2>6. \A fd \in Fd!Fds : Fd!InUse(fd)' = Fd!InUse(fd) /\ fd_list'[fd].dev = fd_list[fd].dev
    BY <2>2, <2>5 DEF Fd!InUse
  <2>7. \A fd \in Fd!Fds : IsDescriptor(fd_list[fd])' /\ (~Fd!InUse(fd)' => fd_list'[fd] = Fd!FREE)
    <3>1. \A fd \in Fd!Fds : IsDescriptor(fd_list'[fd])
      BY <2>2, <2>5 DEF FdInv
    <3> QED BY <1>8, <2>2, <2>6, <3>1 DEF FdInv, IsDescriptor
  <2> QED BY <1>1, <1>2, <1>3, <1>5, <2>2, <2>6, <2>7 DEF FdInv
<1>9. \/ fd_list' = fd_list
      \/ k > 2 /\ fd_list' = [fd_list EXCEPT ![k] = Fd!FREE]
      \/ Fd!InUse(k) /\ \E b : fd_list' = [fd_list EXCEPT ![k].excl = b]
  BY DEF Fd!Close, Fd!IoctlExcl, Fd!IoctlNxcl, Fd!Transfer, Fd!release_fd, Fd!lists
<1> QED BY <1>6, <1>7, <1>8, <1>9

\* Devices and file systems are registered while the pool is untouched.
LEMMA StepRegister ==
    ASSUME FdInv, \/ \E d \in {Device} : Fd!DevReg(d)
                  \/ \E fs \in {Disk} : Fd!FsReg(fs)
                  \/ Fd!SysInitDone
    PROVE  FdInv' /\ stage # "main" /\ UNCHANGED <<fd_list, result>>
<1>1. /\ stage = "sys_init" /\ stage' \in {"sys_init", "stdout"}
      /\ UNCHANGED <<fd_list, max_fd, result>>
  BY DEF Fd!DevReg, Fd!FsReg, Fd!SysInitDone
<1> QED BY <1>1 DEF FdInv, Fd!InUse, IsDescriptor

\* The steps of the descriptors, as the proofs below take them.
LEMMA FdSteps ==
    ASSUME Fd!Next
    PROVE  \/ \E d \in {Device} : Fd!DevReg(d)
           \/ \E fs \in {Disk} : Fd!FsReg(fs)
           \/ Fd!SysInitDone
           \/ Fd!IoRedirect
           \/ \E name, access : \E accepts \in BOOLEAN : Fd!Open(name, access, accepts)
           \/ \E k \in Fd!Fds : \/ Fd!Close(k) \/ Fd!IoctlExcl(k) \/ Fd!IoctlNxcl(k)
                                \/ \E c \in {"read", "write"} : Fd!Transfer(k, c)
<1> DEFINE Opens == \E name, access : \E accepts \in BOOLEAN : Fd!Open(name, access, accepts)
           Others == \E k \in Fd!Fds : \/ Fd!Close(k) \/ Fd!IoctlExcl(k) \/ Fd!IoctlNxcl(k)
                                       \/ \E c \in {"read", "write"} : Fd!Transfer(k, c)
           Names == {Device, <<"dev", "null">>, <<"fs", "file">>, <<"dev", "none">>}
<1>1. \/ Fd!Boot
      \/ \E name \in Names, access \in {"r", "w"}, accepts \in BOOLEAN : Fd!Open(name, access, accepts)
      \/ Others
  BY DEF Fd!Next
<1>2. (\E name \in Names, access \in {"r", "w"}, accepts \in BOOLEAN : Fd!Open(name, access, accepts)) => Opens
  <2> HIDE DEF Names
  <2> QED OBVIOUS
<1> HIDE DEF Opens, Others
<1>3. CASE Fd!Boot
  BY <1>3 DEF Fd!Boot
<1> QED BY <1>1, <1>2, <1>3 DEF Opens, Others

\* The pool before the devices are registered.
LEMMA FdInvInitially == Fd!Init => FdInv
<1> SUFFICES ASSUME Fd!Init PROVE FdInv
  OBVIOUS
<1> DEFINE std == [Fd!FREE EXCEPT !.dev = Fd!DevNull, !.access = "r"]
<1>1. /\ fd_list = [fd \in Fd!Fds |-> IF fd \in Fd!StdFds THEN std ELSE Fd!FREE]
      /\ max_fd = -1 /\ stage = "sys_init" /\ result = Fd!Done("none", 0)
  BY DEF Fd!Init
<1>2. std = [dev |-> Fd!DevNull, excl |-> FALSE, isdev |-> FALSE, access |-> "r"]
  <2>1. Fd!FREE = [dev |-> Fd!NULL, excl |-> FALSE, isdev |-> FALSE, access |-> "none"]
    BY DEF Fd!FREE
  <2>2. ASSUME NEW a, NEW b, NEW c,
               c = [[dev |-> a, excl |-> FALSE, isdev |-> FALSE, access |-> "none"] EXCEPT !.dev = b, !.access = "r"]
        PROVE  c = [dev |-> b, excl |-> FALSE, isdev |-> FALSE, access |-> "r"]
    BY <2>2
  <2> QED BY <2>1, <2>2
<1>3. Fd!DevNull # Fd!NULL
  BY DEF Fd!DevNull, Fd!NULL
<1> HIDE DEF std
<1>4. /\ std.dev # Fd!NULL /\ std.excl = FALSE /\ IsDescriptor(std)
      /\ Fd!FREE.dev = Fd!NULL /\ Fd!FREE.excl = FALSE /\ IsDescriptor(Fd!FREE)
  BY <1>2, <1>3 DEF Fd!FREE, IsDescriptor
<1>5. result.call = "none"
  BY <1>1 DEF Fd!Done
<1>6. -1 \in -1..ALT_MAX_FD - 1 /\ Fd!StdFds \subseteq Fd!Fds
  BY Descriptors
<1>7. \A fd \in Fd!Fds : /\ IsDescriptor(fd_list[fd]) /\ fd_list[fd].excl = FALSE
                         /\ fd \in Fd!StdFds => Fd!InUse(fd)
                         /\ fd \notin Fd!StdFds => ~Fd!InUse(fd) /\ fd_list[fd] = Fd!FREE
  BY <1>1, <1>4 DEF Fd!InUse
<1>8. fd_list = [fd \in Fd!Fds |-> fd_list[fd]]
  BY <1>1
<1> QED BY <1>1, <1>5, <1>6, <1>7, <1>8 DEF FdInv

\* Every step of start-up and every system call keeps the invariant of the pool.
LEMMA FdInvStep == FdInv /\ [Fd!Next]_(Fd!vars) => FdInv'
<1> SUFFICES ASSUME FdInv, [Fd!Next]_(Fd!vars) PROVE FdInv'
  OBVIOUS
<1>1. CASE Fd!Next
  <2>1. CASE \/ \E d \in {Device} : Fd!DevReg(d)
             \/ \E fs \in {Disk} : Fd!FsReg(fs)
             \/ Fd!SysInitDone
    BY <2>1, StepRegister
  <2>2. CASE Fd!IoRedirect
    BY <2>2, StepRedirect
  <2>3. CASE \E name, access : \E accepts \in BOOLEAN : Fd!Open(name, access, accepts)
    BY <2>3, StepOpen
  <2>4. CASE \E k \in Fd!Fds : \/ Fd!Close(k) \/ Fd!IoctlExcl(k) \/ Fd!IoctlNxcl(k)
                               \/ \E c \in {"read", "write"} : Fd!Transfer(k, c)
    BY <2>4, StepOthers
  <2> QED BY <1>1, <2>1, <2>2, <2>3, <2>4, FdSteps
<1>2. CASE UNCHANGED Fd!vars
  <2>1. UNCHANGED <<dev_list, fd_list, max_fd, stage, result>>
    BY <1>2 DEF Fd!vars
  <2> QED BY <2>1 DEF FdInv, Fd!InUse, Registered, IsDescriptor
<1> QED BY <1>1, <1>2

\* FdInv holds in every state, whatever the size of the pool.
LEMMA FdInvInvariant == Fd!Spec => []FdInv
BY FdInvInitially, FdInvStep, PTL DEF Fd!Spec

\* The mark and the streams, from the invariant.
LEMMA FdInvCovers == FdInv => StdioNeverLost /\ MarkCoversPool
<1>1. FdInv => MarkCoversPool
  BY DEF FdInv, MarkCoversPool, Fd!MarkCoversPool
<1>2. FdInv => StdioNeverLost
  <2> SUFFICES ASSUME FdInv, NEW fd \in Fd!StdFds
               PROVE  /\ Fd!InUse(fd)
                      /\ stage = "main" /\ Registered => fd_list[fd].dev = Device
    BY DEF StdioNeverLost, Fd!StdioNeverLost, Registered
  <2>1. fd \in {0, 1, 2}
    BY Descriptors
  <2> QED BY <2>1 DEF FdInv
<1> QED BY <1>1, <1>2

\* The searches that stop at the mark see every descriptor that was taken from the pool.
THEOREM PoolIsCovered == Fd!Spec => []MarkCoversPool
BY FdInvCovers, FdInvInvariant, PTL

\* The standard streams lead somewhere, and in main to the device meant for them.
THEOREM StreamsNeverLost == Fd!Spec => []StdioNeverLost
BY FdInvCovers, FdInvInvariant, PTL

\* An open that fails leaves the pool as it was.
THEOREM FailedOpensLeaveNothing == Fd!Spec => FailedOpenLeavesNothing
<1> DEFINE A == result'.call = "open" /\ result'.fd = Fd!FAILED => fd_list' = fd_list
<1>1. FdInv /\ [Fd!Next]_(Fd!vars) => [A]_(Fd!vars)
  <2> SUFFICES ASSUME FdInv, Fd!Next, result'.call = "open", result'.fd = Fd!FAILED
               PROVE  fd_list' = fd_list
    BY DEF Fd!vars
  <2>1. CASE \/ \E d \in {Device} : Fd!DevReg(d)
             \/ \E fs \in {Disk} : Fd!FsReg(fs)
             \/ Fd!SysInitDone
    BY <2>1, StepRegister
  <2>2. CASE Fd!IoRedirect
    <3>1. result' = result /\ stage # "main"
      BY <2>2 DEF Fd!IoRedirect, Fd!Redirect
    <3> QED BY <3>1 DEF FdInv
  <2>3. CASE \E name, access : \E accepts \in BOOLEAN : Fd!Open(name, access, accepts)
    <3>1. PICK name, access : \E accepts \in BOOLEAN : Fd!Open(name, access, accepts)
      BY <2>3
    <3>2. \/ fd_list' = fd_list
          \/ \E n \in Fd!Fds : result' = Fd!Done("open", n)
      BY <3>1, OpenFacts
    <3>3. \A n \in Fd!Fds : Fd!Done("open", n).fd # Fd!FAILED
      BY Descriptors DEF Fd!Done, Fd!FAILED
    <3> QED BY <3>2, <3>3
  <2>4. CASE \E k \in Fd!Fds : \/ Fd!Close(k) \/ Fd!IoctlExcl(k) \/ Fd!IoctlNxcl(k)
                               \/ \E c \in {"read", "write"} : Fd!Transfer(k, c)
    BY <2>4, StepOthers
  <2> QED BY <2>1, <2>2, <2>3, <2>4, FdSteps
<1>2. Fd!Spec => [][A]_(Fd!vars)
  BY <1>1, FdInvInvariant, PTL DEF Fd!Spec
<1> QED BY <1>2 DEF FailedOpenLeavesNothing, Fd!FailedOpenLeavesNothing

\* No open succeeds on a device that another descriptor has for itself.
THEOREM LocksAreRespected == Fd!Spec => NoOpenWhileLocked
<1> DEFINE A == \A fd \in Fd!Fds :
                  result'.call = "open" /\ result'.fd = fd /\ fd_list[fd] = Fd!FREE /\ fd_list'[fd].isdev =>
                    ~\E i \in Fd!Fds \ {fd} : fd_list[i].dev = fd_list'[fd].dev /\ fd_list[i].excl
<1>1. FdInv /\ [Fd!Next]_(Fd!vars) => [A]_(Fd!vars)
  <2> SUFFICES ASSUME FdInv, Fd!Next, NEW fd \in Fd!Fds,
                      result'.call = "open", result'.fd = fd, fd_list[fd] = Fd!FREE, fd_list'[fd].isdev,
                      NEW i \in Fd!Fds \ {fd}, fd_list[i].dev = fd_list'[fd].dev, fd_list[i].excl
               PROVE  FALSE
    BY DEF Fd!vars
  <2>1. CASE \E name, access : \E accepts \in BOOLEAN : Fd!Open(name, access, accepts)
    <3>1. PICK name, access : \E accepts \in BOOLEAN : Fd!Open(name, access, accepts)
      BY <2>1
    <3>2. \/ fd_list' = fd_list
          \/ \E n, owner, isdev :
               /\ n \in Fd!Fds /\ n > 2 /\ owner # Fd!NULL
               /\ isdev => ~Fd!file_locked(n, owner)
               /\ fd_list' = [fd_list EXCEPT ![n] = [dev |-> owner, excl |-> FALSE,
                                                     isdev |-> isdev, access |-> access]]
               /\ result' = Fd!Done("open", n)
      BY <3>1, OpenFacts
    <3>3. fd_list' # fd_list
      BY DEF Fd!FREE
    <3>4. PICK n, owner, isdev :
            /\ n \in Fd!Fds /\ n > 2 /\ owner # Fd!NULL
            /\ isdev => ~Fd!file_locked(n, owner)
            /\ fd_list' = [fd_list EXCEPT ![n] = [dev |-> owner, excl |-> FALSE,
                                                  isdev |-> isdev, access |-> access]]
            /\ result' = Fd!Done("open", n)
      BY <3>2, <3>3
    <3>5. n = fd
      BY <3>4 DEF Fd!Done
    <3>6. fd_list'[fd] = [dev |-> owner, excl |-> FALSE, isdev |-> isdev, access |-> access]
      BY <3>4, <3>5 DEF FdInv
    <3>7. isdev /\ fd_list[i].dev = owner
      BY <3>6
    <3>8. Fd!InUse(i)
      BY <3>4, <3>7 DEF Fd!InUse
    <3>9. i <= Fd!Max({max_fd, fd})
      <4>1. max_fd \in Int /\ fd \in Int /\ i \in Int
        BY Descriptors DEF FdInv
      <4>2. i <= max_fd \/ i <= 2
        BY <3>8, Descriptors DEF FdInv
      <4>3. Fd!Max({max_fd, fd}) \in {max_fd, fd} /\ Fd!Max({max_fd, fd}) >= max_fd /\ Fd!Max({max_fd, fd}) >= fd
        BY <4>1, MaxOfTwo
      <4>4. fd > 2
        BY <3>4, <3>5
      <4> QED BY <4>1, <4>2, <4>3, <4>4
    <3>10. Fd!file_locked(fd, owner)
      BY <3>7, <3>9 DEF Fd!file_locked
    <3> QED BY <3>4, <3>5, <3>7, <3>10
  <2>2. CASE \/ \E d \in {Device} : Fd!DevReg(d)
             \/ \E fs \in {Disk} : Fd!FsReg(fs)
             \/ Fd!SysInitDone
    <3>1. fd_list' = fd_list
      BY <2>2, StepRegister
    <3> QED BY <3>1 DEF Fd!FREE
  <2>3. CASE Fd!IoRedirect
    <3>1. result' = result /\ stage # "main"
      BY <2>3 DEF Fd!IoRedirect, Fd!Redirect
    <3> QED BY <3>1 DEF FdInv
  <2>4. CASE \E k \in Fd!Fds : \/ Fd!Close(k) \/ Fd!IoctlExcl(k) \/ Fd!IoctlNxcl(k)
                               \/ \E c \in {"read", "write"} : Fd!Transfer(k, c)
    BY <2>4, StepOthers
  <2> QED BY <2>1, <2>2, <2>3, <2>4, FdSteps
<1>2. Fd!Spec => [][A]_(Fd!vars)
  BY <1>1, FdInvInvariant, PTL DEF Fd!Spec
<1> QED BY <1>2 DEF NoOpenWhileLocked, Fd!NoOpenWhileLocked

\* A behaviour of the run is one of each of its two blocks, up to the driver's fairness.
LEMMA StdioRunsBlocks == StdioSpec => Init /\ [][Next]_vars /\ Fd!Spec
<1>1. StdioInit => Init /\ Fd!Init
  BY DEF StdioInit
<1>2. [StdioNext]_<<block, vars, fdVars>> => [Next]_vars /\ [Fd!Next]_(Fd!vars)
  BY DEF StdioNext, fdVars, Fd!vars
<1> QED BY <1>1, <1>2, PTL DEF StdioSpec, Fd!Spec

\* What the run checks, for any sizes: the streams of characters keep their order, no
\* wake-up is lost, and the descriptors of the streams and of the pool are kept.
THEOREM StdioSafe == StdioSpec => [](TxInOrder /\ RxInOrder /\ NoStall /\ StdioNeverLost /\ MarkCoversPool)
<1>1. UartInv => TxInOrder /\ RxInOrder /\ NoStall
  BY UartInvInOrder DEF UartInv
<1>2. FdInv => StdioNeverLost /\ MarkCoversPool
  BY FdInvCovers
<1> QED BY <1>1, <1>2, UartInvInvariant, FdInvInvariant, StdioRunsBlocks, PTL
=============================================================================
