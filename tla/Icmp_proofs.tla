------------------------------ MODULE Icmp_proofs ------------------------------
(***************************************************************************)
(* The safety of the components that turn an echo request into a reply.    *)
(* First the arithmetic, then how a component reads its input; then, for   *)
(* each component, an inductive invariant that says which beat of the      *)
(* stream each register holds and what the component has made of it so     *)
(* far.  All of it holds for frames short enough for the 8-bit index.      *)
(***************************************************************************)
EXTENDS MCIcmp, L8Stream_proofs

-----------------------------------------------------------------------------
(* The checksum arithmetic of icmp_proc.cpp, for every word and every      *)
(* header sum.                                                             *)

\* The values of a 16-bit word.
LEMMA WordBounds ==
    /\ \A c \in Word16 : c \in Int /\ 0 <= c /\ c <= 65535
    /\ \A c \in Int : 0 <= c /\ c <= 65535 => c \in Word16
<1>1. W - 1 = 65535 /\ W - 1 \in Int
  BY SMT DEF W
<1>2. \A m \in Int : \A x : x \in 0..m <=> x \in Int /\ 0 <= x /\ x <= m
  BY SMT
<1>3. \A c : c \in Word16 <=> c \in Int /\ 0 <= c /\ c <= W - 1
  BY <1>1, <1>2 DEF Word16
<1> QED BY <1>1, <1>3

\* icmp_proc_param's correction (icmp_proc.cpp:261-265) in closed form: the
\* checksum of the reply is the one of the request and the type word 0x0800,
\* added with an end-around carry.
LEMMA ReplyChecksumClosed ==
    ASSUME NEW c \in Word16
    PROVE  ReplyChecksum(c) =
             IF c + 2048 <= 65535 THEN c + 2048 ELSE c + 2048 - 65535
<1>1. c \in Int /\ 0 <= c /\ c <= 65535
  BY WordBounds
<1>2. CASE c + 2048 <= 65535
  <2>1. (65535 - c - 2048) % 65536 = 65535 - c - 2048
    BY <1>1, <1>2, SMT
  <2>2. ReplyChecksum(c) = 65535 - ((65535 - c - 2048) % 65536)
    BY <1>1, <1>2, SMT DEF ReplyChecksum, Not16, W, ECHO_REQUEST
  <2> QED BY <1>1, <1>2, <2>1, <2>2, SMT
<1>3. CASE c + 2048 > 65535
  <2>1. ReplyChecksum(c) = 65535 - ((((65535 - c - 1) % 65536) - 2048) % 65536)
    BY <1>1, <1>3, SMT DEF ReplyChecksum, Not16, W, ECHO_REQUEST
  <2>2. CASE c >= 65535
    <3>1. (65535 - c - 1) % 65536 = 65535
      BY <1>1, <2>2, SMT
    <3>2. (65535 - 2048) % 65536 = 63487
      BY SMT
    <3> QED BY <1>1, <2>1, <2>2, <3>1, <3>2, SMT
  <2>3. CASE c < 65535
    <3>1. (65535 - c - 1) % 65536 = 65534 - c
      BY <1>1, <2>3, SMT
    <3>2. (65534 - c - 2048) % 65536 = 65534 - c - 2048 + 65536
      BY <1>1, <1>3, <2>3, SMT
    <3> QED BY <1>1, <1>3, <2>1, <3>1, <3>2, SMT
  <2> QED BY <1>1, <2>2, <2>3, SMT
<1> QED BY <1>1, <1>2, <1>3, SMT

\* The reply is accepted by its receiver exactly if the request, with the type
\* word 0x0800 in front, would have been: the correction keeps a right checksum
\* right and does not hide a wrong one, for every checksum and every content.
THEOREM ReplyAsGoodAsRequest ==
    ASSUME NEW c \in Word16, NEW rest \in Nat
    PROVE  Accepted(ReplyChecksum(c) + rest) <=> Accepted(ECHO_REQUEST + c + rest)
<1>1. c \in Int /\ 0 <= c /\ c <= 65535
  BY WordBounds
<1>2. CASE c + 2048 <= 65535
  <2>1. ReplyChecksum(c) + rest = 2048 + c + rest
    BY <1>1, <1>2, ReplyChecksumClosed, SMT
  <2> QED BY <2>1, SMT DEF ECHO_REQUEST
<1>3. CASE c + 2048 > 65535
  <2>1. ReplyChecksum(c) + rest = 2048 + c + rest - 65535
    BY <1>1, <1>3, ReplyChecksumClosed, SMT
  <2>2. OnesSum(2048 + c + rest) = ((2048 + c + rest - 1) % 65535) + 1
    BY <1>1, SMT DEF OnesSum
  <2>3. OnesSum(2048 + c + rest - 65535) = ((2048 + c + rest - 65535 - 1) % 65535) + 1
    BY <1>1, <1>3, SMT DEF OnesSum
  <2>4. (2048 + c + rest - 65535 - 1) % 65535 = (2048 + c + rest - 1) % 65535
    BY <1>1, SMT
  <2> QED BY <2>1, <2>2, <2>3, <2>4, SMT DEF Accepted, ECHO_REQUEST
<1> QED BY <1>1, <1>2, <1>3, SMT

\* The sum of the nine words of an IPv4 header without its checksum.
LEMMA FoldOnceRange ==
    ASSUME NEW s \in Nat, 0 < s, s <= 589815
    PROVE  /\ FoldOnce(s) \in Int /\ 0 < FoldOnce(s) /\ FoldOnce(s) <= 65543
           /\ OnesSum(s) = IF FoldOnce(s) <= 65535 THEN FoldOnce(s) ELSE FoldOnce(s) - 65535
<1>1. PICK hi, lo \in Int : /\ hi = s \div 65536 /\ lo = s % 65536
  BY SMT
<1>2. s = 65536 * hi + lo /\ 0 <= lo /\ lo <= 65535 /\ 0 <= hi /\ hi <= 8
  BY <1>1, SMT
<1>3. FoldOnce(s) = lo + hi /\ 0 < lo + hi /\ lo + hi <= 65543
  BY <1>1, <1>2, SMT DEF FoldOnce, W
<1>4. OnesSum(s) = ((65535 * hi + (lo + hi - 1)) % 65535) + 1
  BY <1>2, SMT DEF OnesSum
<1>5. CASE lo + hi <= 65535
  <2>1. (65535 * hi + (lo + hi - 1)) % 65535 = lo + hi - 1
    BY <1>2, <1>3, <1>5, SMT
  <2> QED BY <1>2, <1>3, <1>4, <1>5, <2>1, SMT
<1>6. CASE lo + hi > 65535
  <2>1. (65535 * hi + (lo + hi - 1)) % 65535 = lo + hi - 1 - 65535
    BY <1>2, <1>3, <1>6, SMT
  <2> QED BY <1>2, <1>3, <1>4, <1>6, <2>1, SMT
<1> QED BY <1>2, <1>3, <1>5, <1>6, SMT

\* The header checksum of icmp_proc_ipv4chksum (icmp_proc.cpp:369-370) is the
\* internet checksum exactly for the headers whose sum does not carry again
\* when it is folded: the single fold is wrong for all the others.
THEOREM HeaderChecksumRightUnlessCarry ==
    ASSUME NEW s \in Nat, 0 < s, s <= 589815
    PROVE  HeaderChecksum(s) = InternetChecksum(s) <=> FoldOnce(s) < W
<1>1. /\ FoldOnce(s) \in Int /\ 0 < FoldOnce(s) /\ FoldOnce(s) <= 65543
      /\ OnesSum(s) = IF FoldOnce(s) <= 65535 THEN FoldOnce(s) ELSE FoldOnce(s) - 65535
  BY FoldOnceRange, SMT
<1>2. CASE FoldOnce(s) <= 65535
  <2>1. FoldOnce(s) % 65536 = FoldOnce(s)
    BY <1>1, <1>2, SMT
  <2> QED BY <1>1, <1>2, <2>1, SMT DEF HeaderChecksum, InternetChecksum, Not16, W
<1>3. CASE FoldOnce(s) > 65535
  <2>1. FoldOnce(s) % 65536 = FoldOnce(s) - 65536
    BY <1>1, <1>3, SMT
  <2> QED BY <1>1, <1>3, <2>1, SMT DEF HeaderChecksum, InternetChecksum, Not16, W
<1> QED BY <1>1, <1>2, <1>3, SMT

-----------------------------------------------------------------------------
(* How a component reads: idx_counter goes with the place in the stream.   *)

\* A beat of a frame for which the index does not come round.
Indexed(b) ==
    /\ b.n \in Nat \ {0} /\ b.pkt.beats \in Nat
    /\ b.n <= b.pkt.beats /\ b.pkt.beats <= 256

\* The buffer q holds the end of the stream s, in its order, and idx is the
\* index, from 0, of the next beat to be read.
Reads(s, q, idx) ==
    /\ Len(q) <= Len(s)
    /\ \A i \in 1..Len(q) : q[i] = s[Len(s) - Len(q) + i]
    /\ idx = IF Len(s) - Len(q) = 0 \/ Eop(s[Len(s) - Len(q)]) THEN 0
             ELSE s[Len(s) - Len(q)].n

\* What is written goes to the end of both.
LEMMA WriteReads ==
    ASSUME NEW S, NEW s \in Seq(S), NEW q \in Seq(S), NEW idx, Reads(s, q, idx), NEW b \in S
    PROVE  Reads(Append(s, b), Append(q, b), idx)
<1> DEFINE n == Len(s)
           c == Len(q)
           t == Append(s, b)
           r == Append(q, b)
<1>1. /\ Len(t) = n + 1 /\ t[n + 1] = b /\ \A i \in 1..n : t[i] = s[i]
      /\ Len(r) = c + 1 /\ r[c + 1] = b /\ \A i \in 1..c : r[i] = q[i]
      /\ n \in Nat /\ c \in Nat
  OBVIOUS
<1>2. /\ c <= n /\ \A i \in 1..c : q[i] = s[n - c + i]
      /\ idx = IF n - c = 0 \/ Eop(s[n - c]) THEN 0 ELSE s[n - c].n
  BY DEF Reads
<1> HIDE DEF n, c, t, r
<1>3. Len(t) - Len(r) = n - c /\ Len(r) <= Len(t) /\ (n - c # 0 => n - c \in 1..n)
  BY <1>1, <1>2
<1>4. ASSUME NEW i \in 1..Len(r) PROVE r[i] = t[Len(t) - Len(r) + i]
  <2>1. CASE i \in 1..c
    <3>1. n - c + i \in 1..n
      BY <1>1, <1>2, <2>1
    <3> QED BY <1>1, <1>2, <1>3, <2>1, <3>1
  <2>2. CASE i = c + 1
    <3>1. n - c + i = n + 1
      BY <1>1, <2>2
    <3> QED BY <1>1, <1>3, <2>2, <3>1
  <2> QED BY <1>1, <2>1, <2>2
<1>5. idx = IF Len(t) - Len(r) = 0 \/ Eop(t[Len(t) - Len(r)]) THEN 0 ELSE t[Len(t) - Len(r)].n
  <2>1. n - c # 0 => t[n - c] = s[n - c]
    BY <1>1, <1>3
  <2> QED BY <1>2, <1>3, <2>1
<1>6. Reads(t, r, idx)
  BY <1>3, <1>4, <1>5 DEF Reads
<1> QED BY <1>6 DEF t, r

\* The beat that is read next has the index the counter says, and the counter
\* goes on to the beat after it.
LEMMA ReadNext ==
    ASSUME NEW S, NEW s \in Seq(S), NEW q \in Seq(S), NEW idx, Framed(s), Reads(s, q, idx),
           q # <<>>, \A b \in S : Indexed(b)
    PROVE  /\ Len(s) - Len(q) + 1 \in 1..Len(s) /\ q[1] = s[Len(s) - Len(q) + 1]
           /\ q[1] \in S /\ idx = q[1].n - 1
           /\ Reads(s, Tail(q), IF Eop(q[1]) THEN 0 ELSE (idx + 1) % 256)
<1> DEFINE n == Len(s)
           c == Len(q)
           t == Tail(q)
           read == n - c
           next == IF Eop(q[1]) THEN 0 ELSE (idx + 1) % 256
<1>1. /\ n \in Nat /\ c \in Nat /\ c # 0 /\ t \in Seq(S) /\ Len(t) = c - 1
      /\ \A i \in 1..c - 1 : t[i] = q[i + 1]
  OBVIOUS
<1>2. /\ c <= n /\ \A i \in 1..c : q[i] = s[read + i]
      /\ idx = IF read = 0 \/ Eop(s[read]) THEN 0 ELSE s[read].n
  BY DEF Reads
<1>3. \A i \in 1..n : s[i] \in S
  OBVIOUS
<1>4. (s # <<>> => Sop(s[1])) /\ \A i \in 1..n - 1 : Follows(s[i], s[i + 1])
  BY DEF Framed, Contiguous
<1>5. s = <<>> => n = 0
  OBVIOUS
<1> HIDE DEF n, c, t, next
<1>6. read \in Nat /\ read + 1 \in 1..n /\ 1 \in 1..c
  BY <1>1, <1>2
<1>7. q[1] = s[read + 1] /\ q[1] \in S
  BY <1>2, <1>3, <1>6
<1>8. Indexed(q[1])
  BY <1>7
<1>9. idx = q[1].n - 1
  <2>1. CASE read = 0
    <3>1. q[1].n = 1
      BY <1>4, <1>5, <1>6, <1>7, <2>1 DEF Sop
    <3> QED BY <1>2, <2>1, <3>1
  <2>2. CASE read # 0
    <3>1. read \in 1..n - 1
      BY <1>1, <1>6, <2>2
    <3>2. Follows(s[read], q[1]) /\ s[read] \in S
      <4>1. read \in 1..n
        BY <1>1, <3>1
      <4>2. Follows(s[read], s[read + 1])
        BY <1>4, <3>1
      <4> HIDE DEF read
      <4> QED BY <1>3, <1>7, <4>1, <4>2
    <3>3. Eop(s[read]) => q[1].n = 1
      BY <3>2 DEF Follows, Sop
    <3>4. ~Eop(s[read]) => q[1].n = s[read].n + 1 /\ s[read].n \in Nat
      BY <3>2 DEF Follows, Indexed
    <3> QED BY <1>2, <2>2, <3>3, <3>4
  <2> QED BY <2>1, <2>2
<1>10. Reads(s, t, next)
  <2>1. n - Len(t) = read + 1 /\ Len(t) <= n
    BY <1>1, <1>2
  <2>2. ASSUME NEW i \in 1..Len(t) PROVE t[i] = s[(read + 1) + i]
    <3>1. i + 1 \in 1..c /\ i \in 1..c - 1 /\ read + (i + 1) = (read + 1) + i
      BY <1>1, <1>6
    <3> QED BY <1>1, <1>2, <3>1
  <2>3. next = IF Eop(s[read + 1]) THEN 0 ELSE s[read + 1].n
    <3>1. CASE Eop(q[1])
      BY <1>7, <3>1 DEF next
    <3>2. CASE ~Eop(q[1])
      <4>1. q[1].n \in Nat /\ q[1].n < 256
        BY <1>8, <3>2 DEF Indexed, Eop
      <4>2. \A k \in Nat : k < 256 => ((k - 1) + 1) % 256 = k
        OBVIOUS
      <4> QED BY <1>7, <1>9, <3>2, <4>1, <4>2 DEF next
    <3> QED BY <3>1, <3>2
  <2>4. read + 1 # 0
    BY <1>6
  <2> QED BY <2>1, <2>2, <2>3, <2>4 DEF Reads, n
<1> QED BY <1>6, <1>7, <1>9, <1>10 DEF n, c, t, next
-----------------------------------------------------------------------------
(* icmp_proc_param: replies as good as the requests.                       *)

\* The frames for which the index does not come round.
ShortFrames == \A p \in Packets : p.beats <= IdxMod

\* A beat as it was read, and as it leaves.
AsRead(o) == o.idx = o.n - 1 /\ o.type = TypeIn(o) /\ o.chksum = ChksumIn(o)

AsSent(o) ==
    IF o.n = 5 THEN o.type = 0 /\ o.chksum = ReplyChecksum(o.pkt.chksum)
    ELSE o.type = o.pkt.fill /\ o.chksum = o.pkt.fill

ItemsRight ==
    /\ stage0 # <<>> => AsRead(stage0[1])
    /\ stage1 # <<>> => AsSent(stage1[1])
    /\ \A i \in 1..Len(out) : AsSent(out[i])

ParamInv == TypeOK /\ Framed(sent) /\ Reads(sent, ch_in, idx_counter) /\ ItemsRight

\* The correction stays within 16 bits.
LEMMA ReplyChecksumWord == ASSUME NEW c \in Word16 PROVE ReplyChecksum(c) \in Word16
<1>1. c \in Int /\ 0 <= c /\ c <= 65535
  BY WordBounds
<1>2. /\ ReplyChecksum(c) \in Int
      /\ 0 <= ReplyChecksum(c) /\ ReplyChecksum(c) <= 65535
  BY <1>1, ReplyChecksumClosed, SMT
<1> QED BY <1>2, WordBounds

\* A beat of a message has a type byte and a checksum word.
LEMMA FieldsTyped ==
    ASSUME NEW b \in Beats
    PROVE  TypeIn(b) \in 0..255 /\ ChksumIn(b) \in Word16
<1>1. b.pkt \in Packets
  BY BeatFacts
<1>2. \A x \in 0..255 : x \in Word16
  <2>1. \A x \in 0..255 : x \in Int /\ 0 <= x /\ x <= 65535
    OBVIOUS
  <2> QED BY <2>1, WordBounds
<1> QED BY <1>1, <1>2, MessageAssumption DEF TypeIn, ChksumIn

\* A register of items is empty or holds one.
LEMMA ParamSlotFacts ==
    ASSUME NEW s \in ItemSlot
    PROVE  s \in Seq(Item) /\ (s # <<>> => s[1] \in Item /\ Len(s) = 1)
<1>1. s \in Seq(Item) /\ Len(s) <= 1 /\ Len(s) \in Nat
  BY DEF ItemSlot
<1>2. s # <<>> => Len(s) # 0
  BY <1>1
<1>3. \A n \in Nat : n <= 1 /\ n # 0 => n = 1
  OBVIOUS
<1>4. s # <<>> => Len(s) = 1
  BY <1>1, <1>2, <1>3
<1>5. s # <<>> => s[1] \in Item
  BY <1>1, <1>4
<1> QED BY <1>1, <1>4, <1>5

\* What the rewriting stage makes of an item.
LEMMA RewrittenFacts ==
    ASSUME NEW o \in Item
    PROVE  /\ Rewritten(o) \in Item
           /\ AsRead(o) => AsSent(Rewritten(o))
<1>1. /\ o.pkt \in Packets /\ o.n \in Nat \ {0} /\ o.idx \in 0..IdxMod - 1
      /\ o.type \in 0..255 /\ o.chksum \in Word16
  BY DEF Item
<1>2. CASE o.idx = 4
  <2>1. Rewritten(o) = [o EXCEPT !.type = 0, !.chksum = ReplyChecksum(o.chksum)]
    BY <1>2 DEF Rewritten
  <2>2. ReplyChecksum(o.chksum) \in Word16 /\ 0 \in 0..255
    BY <1>1, ReplyChecksumWord
  <2>3. Rewritten(o) \in Item
    <3>1. o = [pkt |-> o.pkt, n |-> o.n, idx |-> o.idx, type |-> o.type, chksum |-> o.chksum]
      BY DEF Item
    <3>2. Rewritten(o) = [pkt |-> o.pkt, n |-> o.n, idx |-> o.idx, type |-> 0,
                          chksum |-> ReplyChecksum(o.chksum)]
      BY <2>1, <3>1
    <3> QED BY <1>1, <2>2, <3>2 DEF Item
  <2>4. /\ Rewritten(o).pkt = o.pkt /\ Rewritten(o).n = o.n
        /\ Rewritten(o).type = 0 /\ Rewritten(o).chksum = ReplyChecksum(o.chksum)
    BY <2>1 DEF Item
  <2>5. AsRead(o) => o.n = 5 /\ o.chksum = o.pkt.chksum
    BY <1>1, <1>2 DEF AsRead, ChksumIn
  <2> QED BY <2>3, <2>4, <2>5 DEF AsSent
<1>3. CASE o.idx # 4
  <2>1. Rewritten(o) = o
    BY <1>3 DEF Rewritten
  <2>2. AsRead(o) => o.n # 5
    BY <1>1, <1>3 DEF AsRead
  <2> QED BY <2>1, <2>2 DEF AsRead, AsSent, TypeIn, ChksumIn
<1> QED BY <1>2, <1>3

\* A write of the stage before keeps the types.
LEMMA ParamSupplyTypes ==
    ASSUME TypeOK, NEW b \in NextBeats(sent), Supply(b)
    PROVE  TypeOK'
<1>1. b \in Beats
  BY NextBeatsAreBeats DEF TypeOK
<1>2. ch_in' \in Seq(Beats) /\ Len(ch_in') <= BufDepth /\ sent' \in Seq(Beats)
  BY <1>1, DepthAssumption DEF Supply, TypeOK
<1> QED BY <1>2 DEF Supply, TypeOK

\* The moves of an invocation.
Move0(accepting) == stage0 # <<>> /\ Free(accepting)
Read(accepting) == ch_in # <<>> /\ (stage0 = <<>> \/ Move0(accepting))

MessageItem(b) == [pkt |-> b.pkt, n |-> b.n, idx |-> idx_counter,
              type |-> TypeIn(b), chksum |-> ChksumIn(b)]

\* What an invocation leaves in the registers.
LEMMA ParamRegisters ==
    ASSUME NEW accepting, Invoke(accepting)
    PROVE  /\ Move0(accepting) => stage1' = <<Rewritten(stage0[1])>>
           /\ ~Move0(accepting) => stage1' = <<>> \/ stage1' = stage1
           /\ Read(accepting) =>
                /\ stage0' = <<MessageItem(ch_in[1])>>
                /\ idx_counter' = IF Eop(ch_in[1]) THEN 0 ELSE (idx_counter + 1) % IdxMod
                /\ ch_in' = Tail(ch_in)
           /\ ~Read(accepting) =>
                /\ stage0' = <<>> \/ stage0' = stage0
                /\ idx_counter' = idx_counter /\ ch_in' = ch_in
           /\ sent' = sent
           /\ out' = out \/ out' = out \o stage1
BY DEF Invoke, Move0, Read, MessageItem

\* The first beat of the buffer becomes an item.
LEMMA MessageItemTyped ==
    ASSUME TypeOK, ch_in # <<>>
    PROVE  ch_in[1] \in Beats /\ MessageItem(ch_in[1]) \in Item
<1>1. ch_in[1] \in Beats
  BY DEF TypeOK
<1>2. ch_in[1].pkt \in Packets /\ ch_in[1].n \in Nat \ {0}
  BY <1>1, BeatFacts
<1>3. TypeIn(ch_in[1]) \in 0..255 /\ ChksumIn(ch_in[1]) \in Word16
  BY <1>1, FieldsTyped
<1>4. idx_counter \in 0..IdxMod - 1
  BY DEF TypeOK
<1> QED BY <1>1, <1>2, <1>3, <1>4 DEF MessageItem, Item

\* An invocation keeps the types.
LEMMA ParamInvokeTypes ==
    ASSUME TypeOK, NEW accepting \in BOOLEAN, Invoke(accepting)
    PROVE  TypeOK'
<1>1. \A o \in Item : <<o>> \in ItemSlot
  BY DEF ItemSlot
<1>2. <<>> \in ItemSlot
  BY DEF ItemSlot
<1>3. stage0' \in ItemSlot
  <2>1. CASE Read(accepting)
    BY <1>1, <2>1, ParamRegisters, MessageItemTyped DEF Read
  <2>2. CASE ~Read(accepting)
    BY <1>2, <2>2, ParamRegisters DEF TypeOK
  <2> QED BY <2>1, <2>2
<1>4. stage1' \in ItemSlot
  <2>1. CASE Move0(accepting)
    <3>1. stage0[1] \in Item
      BY <2>1, ParamSlotFacts DEF TypeOK, Move0
    <3> QED BY <1>1, <2>1, <3>1, ParamRegisters, RewrittenFacts
  <2>2. CASE ~Move0(accepting)
    BY <1>2, <2>2, ParamRegisters DEF TypeOK
  <2> QED BY <2>1, <2>2
<1>5. idx_counter' \in 0..IdxMod - 1
  <2>1. \A k \in Nat : (k + 1) % 256 \in 0..255
    OBVIOUS
  <2>2. idx_counter \in Nat /\ idx_counter \in 0..255
    BY DEF TypeOK, IdxMod
  <2>3. (idx_counter + 1) % 256 \in 0..255
    BY <2>1, <2>2
  <2>4. \/ idx_counter' = 0
        \/ idx_counter' = (idx_counter + 1) % 256
        \/ idx_counter' = idx_counter
    BY ParamRegisters DEF IdxMod
  <2>5. 0 \in 0..255
    OBVIOUS
  <2>6. idx_counter' \in 0..255
    BY <2>2, <2>3, <2>4, <2>5
  <2> QED BY <2>6 DEF IdxMod
<1>6. ch_in' \in Seq(Beats) /\ Len(ch_in') <= BufDepth
  <2>1. CASE Read(accepting)
    <3>1. ch_in \in Seq(Beats) /\ ch_in # <<>> /\ ch_in' = Tail(ch_in)
      BY <2>1, ParamRegisters DEF TypeOK, Read
    <3>2. Tail(ch_in) \in Seq(Beats) /\ Len(Tail(ch_in)) = Len(ch_in) - 1 /\ Len(ch_in) \in Nat
      BY <3>1
    <3> QED BY <3>1, <3>2, DepthAssumption DEF TypeOK
  <2>2. CASE ~Read(accepting)
    BY <2>2, ParamRegisters DEF TypeOK
  <2> QED BY <2>1, <2>2
<1>7. out \o stage1 \in Seq(Item)
  BY DEF TypeOK, ItemSlot
<1>8. out' \in Seq(Item) /\ sent' \in Seq(Beats)
  BY <1>7, ParamRegisters DEF TypeOK
<1> QED BY <1>3, <1>4, <1>5, <1>6, <1>8 DEF TypeOK

\* The registers start empty.
LEMMA ParamInitTypes == Init => TypeOK
<1> SUFFICES ASSUME Init PROVE TypeOK
  OBVIOUS
<1>1. <<>> \in Seq(Beats) /\ <<>> \in Seq(Item) /\ Len(<<>>) = 0 /\ <<>> \in ItemSlot
  BY DEF ItemSlot
<1> QED BY <1>1, DepthAssumption DEF Init, TypeOK, IdxMod

\* Every register keeps its type and the counter its eight bits.
THEOREM ParamTypeCorrect == Spec => []TypeOK
<1>1. TypeOK /\ [Next]_vars => TypeOK'
  <2> SUFFICES ASSUME TypeOK, [Next]_vars PROVE TypeOK'
    OBVIOUS
  <2>1. ASSUME NEW b \in NextBeats(sent), Supply(b) PROVE TypeOK'
    BY <2>1, ParamSupplyTypes
  <2>2. ASSUME NEW accepting \in BOOLEAN, Invoke(accepting) PROVE TypeOK'
    BY <2>2, ParamInvokeTypes
  <2>3. CASE UNCHANGED vars
    BY <2>3 DEF vars, TypeOK
  <2> QED BY <2>1, <2>2, <2>3 DEF Next
<1> QED BY <1>1, ParamInitTypes, PTL DEF Spec

\* What an invocation reads next.
LEMMA ParamReads ==
    ASSUME ShortFrames, ParamInv, ch_in # <<>>
    PROVE  /\ idx_counter = ch_in[1].n - 1
           /\ Reads(sent, Tail(ch_in), IF Eop(ch_in[1]) THEN 0 ELSE (idx_counter + 1) % IdxMod)
<1>1. \A b \in Beats : Indexed(b)
  BY BeatFacts DEF Indexed, ShortFrames, IdxMod
<1>2. /\ sent \in Seq(Beats) /\ ch_in \in Seq(Beats) /\ Framed(sent)
      /\ Reads(sent, ch_in, idx_counter)
  BY DEF ParamInv, TypeOK
<1> QED BY <1>1, <1>2, ReadNext DEF IdxMod

\* An invocation keeps every register's content right for its packet.
LEMMA ParamInvokeItems ==
    ASSUME ShortFrames, ParamInv, NEW accepting \in BOOLEAN, Invoke(accepting)
    PROVE  ItemsRight'
<1>1. stage0' # <<>> => AsRead(stage0'[1])
  <2>1. CASE Read(accepting)
    <3>1. stage0'[1] = MessageItem(ch_in[1])
      BY <2>1, ParamRegisters
    <3>2. idx_counter = ch_in[1].n - 1
      BY <2>1, ParamReads DEF Read
    <3> QED BY <3>1, <3>2 DEF AsRead, MessageItem, TypeIn, ChksumIn
  <2>2. CASE ~Read(accepting)
    BY <2>2, ParamRegisters DEF ParamInv, ItemsRight
  <2> QED BY <2>1, <2>2
<1>2. stage1' # <<>> => AsSent(stage1'[1])
  <2>1. CASE Move0(accepting)
    <3>1. stage0[1] \in Item /\ AsRead(stage0[1])
      BY <2>1, ParamSlotFacts DEF Move0, ParamInv, TypeOK, ItemsRight
    <3> QED BY <2>1, <3>1, ParamRegisters, RewrittenFacts
  <2>2. CASE ~Move0(accepting)
    BY <2>2, ParamRegisters DEF ParamInv, ItemsRight
  <2> QED BY <2>1, <2>2
<1>3. ASSUME NEW i \in 1..Len(out') PROVE AsSent(out'[i])
  <2>1. CASE out' = out
    BY <2>1 DEF ParamInv, ItemsRight
  <2>2. CASE out' = out \o stage1
    <3>1. out \in Seq(Item) /\ stage1 \in Seq(Item) /\ i \in 1..Len(out \o stage1)
      BY <2>2 DEF ParamInv, TypeOK, ItemSlot
    <3>2. CASE i <= Len(out)
      <4>1. i \in 1..Len(out) /\ out'[i] = out[i]
        BY <2>2, <3>1, <3>2
      <4> QED BY <4>1 DEF ParamInv, ItemsRight
    <3>3. CASE i > Len(out)
      <4>1. i - Len(out) \in 1..Len(stage1) /\ out'[i] = stage1[i - Len(out)]
        BY <2>2, <3>1, <3>3, ConcatBeyond
      <4>2. stage1 # <<>>
        BY <4>1
      <4>3. Len(stage1) = 1
        BY <4>2, ParamSlotFacts DEF ParamInv, TypeOK
      <4>4. i - Len(out) = 1
        BY <4>1, <4>3
      <4> QED BY <4>1, <4>2, <4>4 DEF ParamInv, ItemsRight
    <3> QED BY <3>1, <3>2, <3>3
  <2> QED BY <2>1, <2>2, ParamRegisters
<1> QED BY <1>1, <1>2, <1>3 DEF ItemsRight

\* The invariant holds in every reachable state.
LEMMA ParamInvariant == ASSUME ShortFrames PROVE Spec => []ParamInv
<1>1. Init => ParamInv
  <2> SUFFICES ASSUME Init PROVE ParamInv
    OBVIOUS
  <2>1. sent = <<>> /\ ch_in = <<>> /\ out = <<>> /\ idx_counter = 0
    BY DEF Init
  <2>2. Framed(sent) /\ Reads(sent, ch_in, idx_counter)
    BY <2>1 DEF Framed, Contiguous, Reads
  <2>3. ItemsRight
    BY <2>1 DEF Init, ItemsRight
  <2> QED BY <2>2, <2>3, ParamInitTypes DEF ParamInv
<1>2. ParamInv /\ [Next]_vars => ParamInv'
  <2> SUFFICES ASSUME ParamInv, [Next]_vars PROVE ParamInv'
    OBVIOUS
  <2>1. ASSUME NEW b \in NextBeats(sent), Supply(b) PROVE ParamInv'
    <3>1. sent \in Seq(Beats) /\ ch_in \in Seq(Beats) /\ b \in Beats
      BY NextBeatsAreBeats DEF ParamInv, TypeOK
    <3>2. TypeOK'
      BY <2>1, ParamSupplyTypes DEF ParamInv
    <3>3. Framed(sent')
      BY <2>1, <3>1, AppendFramed DEF ParamInv, Supply
    <3>4. Reads(sent', ch_in', idx_counter')
      BY <2>1, <3>1, WriteReads DEF ParamInv, Supply
    <3>5. ItemsRight'
      BY <2>1 DEF ParamInv, ItemsRight, Supply
    <3> QED BY <3>2, <3>3, <3>4, <3>5 DEF ParamInv
  <2>2. ASSUME NEW accepting \in BOOLEAN, Invoke(accepting) PROVE ParamInv'
    <3>1. TypeOK' /\ sent' = sent
      BY <2>2, ParamInvokeTypes, ParamRegisters DEF ParamInv
    <3>2. Reads(sent', ch_in', idx_counter')
      <4>1. CASE Read(accepting)
        BY <2>2, <3>1, <4>1, ParamRegisters, ParamReads DEF Read
      <4>2. CASE ~Read(accepting)
        BY <2>2, <3>1, <4>2, ParamRegisters DEF ParamInv
      <4> QED BY <4>1, <4>2
    <3>3. ItemsRight'
      BY <2>2, ParamInvokeItems
    <3> QED BY <3>1, <3>2, <3>3 DEF ParamInv
  <2>3. CASE UNCHANGED vars
    BY <2>3 DEF vars, ParamInv, TypeOK, ItemsRight
  <2> QED BY <2>1, <2>2, <2>3 DEF Next
<1> QED BY <1>1, <1>2, PTL DEF Spec

\* In frames of at most 256 beats, the reply to every echo request is an echo
\* reply that its receiver accepts exactly if it would have accepted the
\* request, and no other beat is touched.
THEOREM RepliesCorrect ==
    ASSUME ShortFrames PROVE Spec => []RepliesAsGoodAsRequests
<1>1. ParamInv => RepliesAsGoodAsRequests
  <2> SUFFICES ASSUME ParamInv, NEW i \in 1..Len(out)
               PROVE  IF out[i].n # 5
                      THEN out[i].type = out[i].pkt.fill /\ out[i].chksum = out[i].pkt.fill
                      ELSE out[i].pkt.type = 8 =>
                             /\ out[i].type = 0
                             /\ Accepted(MessageSum(out[i].pkt, out[i].type, out[i].chksum))
                                  <=> Accepted(MessageSum(out[i].pkt, out[i].pkt.type,
                                                          out[i].pkt.chksum))
    BY DEF RepliesAsGoodAsRequests
  <2> DEFINE o == out[i]
  <2>1. AsSent(o) /\ o \in Item
    BY DEF ParamInv, TypeOK, ItemsRight
  <2>2. CASE o.n # 5
    BY <2>1, <2>2 DEF AsSent
  <2>3. CASE o.n = 5
    <3> SUFFICES ASSUME o.pkt.type = 8
                 PROVE  /\ o.type = 0
                        /\ Accepted(MessageSum(o.pkt, o.type, o.chksum))
                             <=> Accepted(MessageSum(o.pkt, o.pkt.type, o.pkt.chksum))
      BY <2>3
    <3> DEFINE c == o.pkt.chksum
               rest == o.pkt.rest
    <3>1. o.type = 0 /\ o.chksum = ReplyChecksum(c)
      BY <2>1, <2>3 DEF AsSent
    <3>2. o.pkt \in Packets
      BY <2>1 DEF Item
    <3>3. c \in Word16 /\ rest \in Nat
      BY <3>2, MessageAssumption
    <3>4. ReplyChecksum(c) \in Int /\ c \in Int
      BY <3>3, ReplyChecksumWord, WordBounds
    <3> HIDE DEF c, rest
    <3>5. Accepted(ReplyChecksum(c) + rest) <=> Accepted(ECHO_REQUEST + c + rest)
      BY <3>3, ReplyAsGoodAsRequest
    <3>6. 256 * 0 + ReplyChecksum(c) + rest = ReplyChecksum(c) + rest
      BY <3>3, <3>4, SMT
    <3>7. 256 * 8 + c + rest = ECHO_REQUEST + c + rest
      BY <3>3, <3>4, SMT DEF ECHO_REQUEST
    <3>8. MessageSum(o.pkt, o.type, o.chksum) = ReplyChecksum(c) + rest
      BY <3>1, <3>6 DEF MessageSum, rest
    <3>9. MessageSum(o.pkt, o.pkt.type, o.pkt.chksum) = ECHO_REQUEST + c + rest
      BY <3>7 DEF MessageSum, c, rest
    <3> QED BY <3>1, <3>5, <3>8, <3>9
  <2> QED BY <2>2, <2>3
<1> QED BY <1>1, ParamInvariant, PTL

-----------------------------------------------------------------------------
(* A register r that leads to the output o.                                *)

\* What the receiver has, after a clock in which it takes what is in r.
Drained(o, r, ready) == IF ready THEN o \o r ELSE o

\* If the output and the register hold the first elements of f, in order, and
\* what is loaded is the next one, they still do after the clock.
LEMMA SinkMoves ==
    ASSUME NEW S, NEW o \in Seq(S), NEW r \in Seq(S), Len(r) <= 1, NEW src,
           NEW load, NEW ready, NEW f,
           load => src \in Seq(S) /\ Len(src) = 1 /\ (r = <<>> \/ ready),
           \A i \in 1..Len(o) : o[i] = f[i],
           r # <<>> => r[1] = f[Len(o) + 1],
           load => src[1] = f[Len(o) + Len(r) + 1]
    PROVE  /\ Drained(o, r, ready) \in Seq(S)
           /\ Latch(load, src, ready, r) \in Seq(S) /\ Len(Latch(load, src, ready, r)) <= 1
           /\ \A i \in 1..Len(Drained(o, r, ready)) : Drained(o, r, ready)[i] = f[i]
           /\ Latch(load, src, ready, r) # <<>>
                => Latch(load, src, ready, r)[1] = f[Len(Drained(o, r, ready)) + 1]
           /\ Len(Drained(o, r, ready)) + Len(Latch(load, src, ready, r))
                = Len(o) + Len(r) + (IF load THEN 1 ELSE 0)
<1> DEFINE o2 == Drained(o, r, ready)
           r2 == Latch(load, src, ready, r)
<1>1. /\ Len(o) \in Nat /\ Len(r) \in Nat /\ (r = <<>> => Len(r) = 0)
      /\ (r # <<>> => Len(r) = 1) /\ Len(<<>>) = 0 /\ <<>> \in Seq(S)
  <2>1. Len(o) \in Nat /\ Len(r) \in Nat /\ (r # <<>> => Len(r) # 0)
    OBVIOUS
  <2>2. \A n \in Nat : n <= 1 /\ n # 0 => n = 1
    OBVIOUS
  <2>3. (r = <<>> => Len(r) = 0) /\ Len(<<>>) = 0 /\ <<>> \in Seq(S)
    OBVIOUS
  <2> QED BY <2>1, <2>2, <2>3
<1>2. /\ o2 \in Seq(S) /\ Len(o2) = IF ready THEN Len(o) + Len(r) ELSE Len(o)
      /\ \A i \in 1..Len(o2) : o2[i] = f[i]
  <2>1. CASE ready
    <3>1. o2 = o \o r
      BY <2>1 DEF Drained
    <3>2. /\ o2 \in Seq(S) /\ Len(o2) = Len(o) + Len(r)
          /\ \A i \in 1..Len(o) : o2[i] = o[i]
      BY <3>1
    <3>3. ASSUME NEW i \in 1..Len(o2), i > Len(o) PROVE o2[i] = f[i]
      <4>1. i \in 1..Len(o \o r)
        BY <3>1
      <4>2. i - Len(o) \in 1..Len(r) /\ (o \o r)[i] = r[i - Len(o)]
        BY <3>3, <4>1, ConcatBeyond
      <4>3. r # <<>> /\ i - Len(o) = 1 /\ i = Len(o) + 1
        BY <1>1, <3>2, <4>2
      <4> QED BY <3>1, <4>2, <4>3
    <3> HIDE DEF o2
    <3> QED BY <1>1, <2>1, <3>2, <3>3
  <2>2. CASE ~ready
    BY <2>2 DEF Drained
  <2> QED BY <2>1, <2>2
<1>3. CASE load
  <2>1. r2 = src /\ src \in Seq(S) /\ Len(src) = 1 /\ (r = <<>> \/ ready)
    BY <1>3 DEF Latch
  <2>2. src[1] = f[Len(o) + Len(r) + 1]
    BY <1>3
  <2> HIDE DEF o2, r2
  <2>3. Len(o2) = Len(o) + Len(r)
    BY <1>1, <1>2, <2>1
  <2>4. /\ r2 \in Seq(S) /\ Len(r2) <= 1 /\ r2[1] = f[Len(o2) + 1]
        /\ Len(o2) + Len(r2) = Len(o) + Len(r) + 1
    BY <1>1, <2>1, <2>2, <2>3
  <2> QED BY <1>2, <1>3, <2>4 DEF o2, r2
<1>4. CASE ~load /\ ready
  <2>1. r2 = <<>>
    BY <1>4 DEF Latch
  <2> HIDE DEF o2, r2
  <2>2. Len(o2) = Len(o) + Len(r) /\ Len(r2) = 0
    BY <1>1, <1>2, <1>4, <2>1
  <2>3. Len(o2) + Len(r2) = Len(o) + Len(r) + 0
    BY <1>1, <2>2
  <2>4. r2 \in Seq(S) /\ Len(r2) <= 1 /\ r2 = <<>>
    BY <1>1, <2>1, <2>2
  <2> QED BY <1>2, <1>4, <2>3, <2>4 DEF o2, r2
<1>5. CASE ~load /\ ~ready
  <2>1. r2 = r /\ o2 = o
    BY <1>5 DEF Latch, Drained
  <2>2. Len(o) + Len(r) = Len(o) + Len(r) + 0
    BY <1>1
  <2> HIDE DEF o2, r2
  <2>3. /\ r2 \in Seq(S) /\ Len(r2) <= 1 /\ (r2 # <<>> => r2[1] = f[Len(o2) + 1])
        /\ Len(o2) + Len(r2) = Len(o) + Len(r) + 0
    BY <2>1, <2>2
  <2> QED BY <1>2, <1>5, <2>3 DEF o2, r2
<1> QED BY <1>3, <1>4, <1>5

-----------------------------------------------------------------------------
(* icmp_proc_swapmac and icmp_proc_swapip: the addresses exchanged and     *)
(* nothing else.                                                           *)

SwapStream == INSTANCE L8Stream_proofs WITH Packets <- SwapPackets, MaxSent <- MaxSwapSent

ShortSwapFrames == \A p \in SwapPackets : p.beats <= 256

\* The words of a beat as they come, and as they leave.
DataAt(p, n) == [j \in 1..4 |-> Swap!Word(p, 4 * (n - 1) + j - 1)]

SwappedData(p, n) ==
    IF n = Swap!SwapIdx + 1 THEN Swap!SwapFirst(DataAt(p, n), DataAt(p, n + 1))
    ELSE IF n = Swap!SwapIdx + 2 THEN Swap!SwapSecond(DataAt(p, n - 1), DataAt(p, n))
    ELSE DataAt(p, n)

ToSwap(b) == [pkt |-> b.pkt, n |-> b.n, idx |-> b.n - 1, data |-> DataAt(b.pkt, b.n)]
Swapped(b) == [pkt |-> b.pkt, n |-> b.n, idx |-> b.n - 1, data |-> SwappedData(b.pkt, b.n)]

\* In s1 stands the beat that waits for its successor, or one that is done.
InS1(b) == IF b.n = Swap!SwapIdx + 1 THEN ToSwap(b) ELSE Swapped(b)

\* The places in s_sent of the beats in s1, s0 and the first one in the buffer.
AtS1 == Len(s_out) + Len(s2) + 1
AtS0 == AtS1 + Len(s1)
AtSIn == AtS0 + Len(s0)

\* Every beat that was sent, as it stands in each of the registers.
AllToSwap == [i \in Nat |-> ToSwap(s_sent[i])]
AllInS1 == [i \in Nat |-> InS1(s_sent[i])]
AllSwapped == [i \in Nat |-> Swapped(s_sent[i])]

SwapItems == {ToSwap(b) : b \in Swap!Beats} \cup {Swapped(b) : b \in Swap!Beats}

SwapTypes ==
    /\ Field \in {"mac", "ip"}
    /\ s_in \in Seq(Swap!Beats) /\ s_sent \in Seq(Swap!Beats) /\ s_out \in Seq(SwapItems)
    /\ s0 \in Seq(SwapItems) /\ Len(s0) <= 1
    /\ s1 \in Seq(SwapItems) /\ Len(s1) <= 1
    /\ s2 \in Seq(SwapItems) /\ Len(s2) <= 1

SwapInPlace ==
    /\ AtSIn + Len(s_in) = Len(s_sent) + 1
    /\ s0 # <<>> => s0[1] = AllToSwap[AtS0]
    /\ s1 # <<>> => s1[1] = AllInS1[AtS1]
    /\ s2 # <<>> => s2[1] = AllSwapped[Len(s_out) + 1]
    /\ \A i \in 1..Len(s_out) : s_out[i] = AllSwapped[i]

\* The beat that waits has not left s1 without its successor.
NoneLeftAlone == s1 = <<>> /\ AtS1 # 1 => s_sent[AtS1 - 1].n # Swap!SwapIdx + 1

SwapInv ==
    /\ SwapTypes
    /\ Framed(s_sent) /\ Reads(s_sent, s_in, s_idx)
    /\ SwapInPlace /\ NoneLeftAlone

\* What a beat of the stream is, and that a source of whole packets keeps it
\* framed.
LEMMA SwapBeats ==
    ASSUME ShortSwapFrames
    PROVE  /\ \A b \in Swap!Beats : Indexed(b)
           /\ \A s \in Seq(Swap!Beats) : Framed(s) =>
                \A b \in Swap!NextBeats(s) : b \in Swap!Beats /\ Framed(Append(s, b))
<1>1. /\ \A c : Sop(c) <=> SwapStream!Sop(c)
      /\ \A c : Eop(c) <=> SwapStream!Eop(c)
      /\ \A c : Swap!Eop(c) <=> SwapStream!Eop(c)
      /\ \A t : Swap!Last(t) = SwapStream!Last(t)
  BY DEF Sop, SwapStream!Sop, Eop, Swap!Eop, SwapStream!Eop, Swap!Last, SwapStream!Last
<1>2. \A c, d : Follows(c, d) <=> SwapStream!Follows(c, d)
  BY <1>1 DEF Follows, SwapStream!Follows
<1>3. \A t : Framed(t) <=> SwapStream!Framed(t)
  BY <1>1, <1>2 DEF Framed, SwapStream!Framed, Contiguous, SwapStream!Contiguous
<1>4. \A t : Swap!AtBoundary(t) <=> SwapStream!AtBoundary(t)
  BY <1>1 DEF Swap!AtBoundary, SwapStream!AtBoundary
<1>5. \A t : Swap!NextBeats(t) = SwapStream!NextBeats(t)
  BY <1>1, <1>4, Zenon DEF Swap!NextBeats, SwapStream!NextBeats
<1>6. Swap!Beats = SwapStream!Beats
  BY DEF Swap!Beats, SwapStream!Beats
<1>7. \A b \in Swap!Beats : Indexed(b)
  <2>1. \A b \in Swap!Beats : /\ b.pkt \in SwapPackets /\ b.n \in 1..b.pkt.beats
                              /\ b.pkt.beats \in Nat \ {0}
    BY <1>6, SwapStream!BeatFacts, SwapAssumption, DepthAssumption
  <2> QED BY <2>1 DEF Indexed, ShortSwapFrames
<1>8. ASSUME NEW s \in Seq(Swap!Beats), Framed(s), NEW b \in Swap!NextBeats(s)
      PROVE  b \in Swap!Beats /\ Framed(Append(s, b))
  BY <1>3, <1>5, <1>6, <1>8, SwapStream!NextBeatsAreBeats, SwapStream!AppendFramed,
     SwapAssumption, DepthAssumption
<1> QED BY <1>7, <1>8

\* The moves of an invocation, and what it leaves in the registers.
SMove1(accepting) ==
    /\ s2 = <<>> \/ accepting
    /\ s1 # <<>> /\ (s1[1].idx # Swap!SwapIdx \/ Swap!SwapReady)
SSwap(accepting) == SMove1(accepting) /\ Swap!SwapReady
SMove0(accepting) == s0 # <<>> /\ (s1 = <<>> \/ SMove1(accepting))
SRead(accepting) == s_in # <<>> /\ (s0 = <<>> \/ SMove0(accepting))

First == [s1[1] EXCEPT !.data = Swap!SwapFirst(@, s0[1].data)]
Second == [s0[1] EXCEPT !.data = Swap!SwapSecond(s1[1].data, @)]
ReadItem == [pkt |-> s_in[1].pkt, n |-> s_in[1].n, idx |-> s_idx, data |-> Swap!DataOf(s_in[1])]

\* Each register after an invocation.
LEMMA SwapRegisters ==
    ASSUME NEW accepting, Swap!Invoke(accepting)
    PROVE  /\ s_out' = Drained(s_out, s2, accepting)
           /\ s2' = Latch(SMove1(accepting), IF SSwap(accepting) THEN <<First>> ELSE s1, accepting, s2)
           /\ s1' = Latch(SMove0(accepting), IF SSwap(accepting) THEN <<Second>> ELSE s0,
                          SMove1(accepting), s1)
           /\ SRead(accepting) =>
                /\ s0' = <<ReadItem>> /\ s_in' = Tail(s_in)
                /\ s_idx' = IF Eop(s_in[1]) THEN 0 ELSE (s_idx + 1) % 256
           /\ ~SRead(accepting) =>
                /\ s0' = IF SMove0(accepting) THEN <<>> ELSE s0
                /\ s_in' = s_in /\ s_idx' = s_idx
           /\ s_sent' = s_sent /\ Field' = Field
<1>1. /\ SSwap(accepting) <=> Swap!Free(accepting) /\ s1 # <<>> /\ Swap!SwapReady
      /\ SMove1(accepting) <=> /\ Swap!Free(accepting) /\ s1 # <<>>
                               /\ (s1[1].idx # Swap!SwapIdx \/ Swap!SwapReady)
  BY DEF SSwap, SMove1, Swap!Free
<1>2. \A c : Swap!Eop(c) <=> Eop(c)
  BY DEF Swap!Eop, Eop
<1> QED BY <1>1, <1>2 DEF Swap!Invoke, Swap!Latch, Latch, Drained, SMove0, SRead, First, Second, ReadItem, Swap!IdxMod

\* The places are numbers, and what stands in a register was sent.
LEMMA SwapPlaces ==
    ASSUME SwapTypes, SwapInPlace
    PROVE  /\ Len(s_out) \in Nat /\ Len(s_sent) \in Nat /\ Len(s_in) \in Nat
           /\ AtS1 \in Nat \ {0} /\ AtS0 \in Nat \ {0} /\ AtSIn \in Nat \ {0}
           /\ AtS1 - 1 <= Len(s_sent)
           /\ AtSIn = Len(s_sent) - Len(s_in) + 1
           /\ s1 = <<>> => Len(s1) = 0 /\ AtS0 = AtS1
           /\ s1 # <<>> => Len(s1) = 1 /\ AtS0 = AtS1 + 1 /\ AtS1 \in 1..Len(s_sent)
           /\ s0 = <<>> => Len(s0) = 0 /\ AtSIn = AtS0
           /\ s0 # <<>> => Len(s0) = 1 /\ AtSIn = AtS0 + 1 /\ AtS0 \in 1..Len(s_sent)
<1> DEFINE n == Len(s_sent)
           c == Len(s_in)
           z0 == Len(s0)
           z1 == Len(s1)
           z2 == Len(s2)
           k == Len(s_out)
<1>1. n \in Nat /\ c \in Nat /\ k \in Nat /\ z2 \in Nat
  BY DEF SwapTypes
<1>2. /\ z0 \in Nat /\ (s0 = <<>> => z0 = 0) /\ (s0 # <<>> => z0 = 1)
      /\ z1 \in Nat /\ (s1 = <<>> => z1 = 0) /\ (s1 # <<>> => z1 = 1)
  <2>1. /\ z0 \in Nat /\ z0 <= 1 /\ (s0 # <<>> => z0 # 0)
        /\ z1 \in Nat /\ z1 <= 1 /\ (s1 # <<>> => z1 # 0)
    BY DEF SwapTypes
  <2>2. (s0 = <<>> => z0 = 0) /\ (s1 = <<>> => z1 = 0)
    OBVIOUS
  <2>3. \A i \in Nat : i <= 1 /\ i # 0 => i = 1
    OBVIOUS
  <2> QED BY <2>1, <2>2, <2>3
<1>3. /\ AtS1 = k + z2 + 1 /\ AtS0 = AtS1 + z1 /\ AtSIn = AtS0 + z0 /\ AtSIn + c = n + 1
  BY DEF AtS1, AtS0, AtSIn, SwapInPlace
<1> HIDE DEF n, c, z0, z1, z2, k
<1>4. /\ AtS1 \in Nat \ {0} /\ AtS0 \in Nat \ {0} /\ AtSIn \in Nat \ {0}
      /\ AtS1 - 1 <= n /\ AtSIn = n - c + 1
  BY <1>1, <1>2, <1>3
<1>5. /\ s1 = <<>> => z1 = 0 /\ AtS0 = AtS1
      /\ s1 # <<>> => z1 = 1 /\ AtS0 = AtS1 + 1 /\ AtS1 \in 1..n
  BY <1>1, <1>2, <1>3, <1>4
<1>6. /\ s0 = <<>> => z0 = 0 /\ AtSIn = AtS0
      /\ s0 # <<>> => z0 = 1 /\ AtSIn = AtS0 + 1 /\ AtS0 \in 1..n
  BY <1>1, <1>2, <1>3, <1>4
<1> QED BY <1>1, <1>4, <1>5, <1>6, Zenon DEF n, c, k, z0, z1

\* The beat in s0 comes after the one in s1, or after the one that left s1 last.
LEMMA SwapNeighbours ==
    ASSUME SwapInv, s0 # <<>>
    PROVE  /\ s1 # <<>> => Follows(s_sent[AtS1], s_sent[AtS0])
           /\ s1 = <<>> /\ AtS1 # 1 => Follows(s_sent[AtS1 - 1], s_sent[AtS0])
           /\ s1 = <<>> /\ AtS1 = 1 => Sop(s_sent[AtS0])
<1>1. /\ AtS0 \in 1..Len(s_sent) /\ Len(s_sent) \in Nat /\ AtS1 \in Nat \ {0}
      /\ (s1 = <<>> => AtS0 = AtS1) /\ (s1 # <<>> => AtS0 = AtS1 + 1)
  BY SwapPlaces DEF SwapInv
<1>2. /\ \A i \in 1..Len(s_sent) - 1 : Follows(s_sent[i], s_sent[i + 1])
      /\ s_sent # <<>> => Sop(s_sent[1])
  BY DEF SwapInv, Framed, Contiguous
<1>3. s_sent # <<>>
  <2>1. s_sent = <<>> => Len(s_sent) = 0
    OBVIOUS
  <2> QED BY <1>1, <2>1
<1>4. CASE s1 # <<>>
  <2>1. AtS1 \in 1..Len(s_sent) - 1 /\ AtS0 = AtS1 + 1
    BY <1>1, <1>4
  <2> QED BY <1>2, <1>4, <2>1
<1>5. CASE s1 = <<>> /\ AtS1 # 1
  <2>1. AtS1 - 1 \in 1..Len(s_sent) - 1 /\ AtS0 = (AtS1 - 1) + 1
    BY <1>1, <1>5
  <2> QED BY <1>2, <1>5, <2>1
<1>6. CASE s1 = <<>> /\ AtS1 = 1
  BY <1>1, <1>2, <1>3, <1>6
<1> QED BY <1>4, <1>5, <1>6

\* What stands in the first two registers.
LEMMA SwapHeld ==
    ASSUME SwapInv
    PROVE  /\ s0 # <<>> => s0[1] = ToSwap(s_sent[AtS0])
           /\ s1 # <<>> => s1[1] = InS1(s_sent[AtS1])
BY SwapPlaces DEF SwapInv, SwapInPlace, AllToSwap, AllInS1

\* A beat of the stream, with the index at which the exchange begins.
LEMMA SwapBeatAt ==
    ASSUME ShortSwapFrames, SwapInv, NEW i \in 1..Len(s_sent)
    PROVE  /\ s_sent[i] \in Swap!Beats /\ s_sent[i].n \in Nat \ {0}
           /\ Swap!SwapIdx \in Nat
BY SwapBeats DEF SwapInv, SwapTypes, Swap!SwapIdx, Indexed

\* What is exchanged are two halves of one frame.
LEMMA SwapPair ==
    ASSUME ShortSwapFrames, SwapInv, s1 # <<>>, Swap!SwapReady
    PROVE  /\ s0 # <<>> /\ First = Swapped(s_sent[AtS1])
           /\ Second = InS1(s_sent[AtS0])
<1> DEFINE b == s_sent[AtS1]
           c == s_sent[AtS0]
<1>1. s0 # <<>> /\ s1[1].idx = Swap!SwapIdx /\ s0[1].idx = Swap!SwapIdx + 1
  BY DEF Swap!SwapReady
<1>2. AtS1 \in 1..Len(s_sent) /\ AtS0 \in 1..Len(s_sent)
  BY <1>1, SwapPlaces DEF SwapInv
<1>3. b.n \in Nat /\ c.n \in Nat /\ Swap!SwapIdx \in Nat
  BY <1>2, SwapBeatAt
<1>4. s1[1] = InS1(b) /\ s0[1] = ToSwap(c)
  BY <1>1, SwapHeld
<1>5. Follows(b, c)
  BY <1>1, SwapNeighbours
<1> HIDE DEF b, c
<1>6. b.n = Swap!SwapIdx + 1
  <2>1. s1[1].idx = b.n - 1
    BY <1>4 DEF InS1, ToSwap, Swapped
  <2> QED BY <1>1, <1>3, <2>1
<1>7. c.n = Swap!SwapIdx + 2
  <2>1. s0[1].idx = c.n - 1
    BY <1>4 DEF ToSwap
  <2> QED BY <1>1, <1>3, <2>1
<1>8. c.pkt = b.pkt /\ c.n = b.n + 1 /\ b.n = c.n - 1
  BY <1>3, <1>5, <1>6, <1>7 DEF Follows, Sop
<1>9. s1[1] = ToSwap(b)
  BY <1>4, <1>6 DEF InS1
<1>10. c.n # Swap!SwapIdx + 1
  BY <1>3, <1>7
<1>11. First = Swapped(b)
  <2>1. First = [ToSwap(b) EXCEPT !.data = Swap!SwapFirst(DataAt(b.pkt, b.n), DataAt(b.pkt, b.n + 1))]
    BY <1>4, <1>8, <1>9 DEF First, ToSwap
  <2>2. SwappedData(b.pkt, b.n) = Swap!SwapFirst(DataAt(b.pkt, b.n), DataAt(b.pkt, b.n + 1))
    BY <1>6 DEF SwappedData
  <2> QED BY <2>1, <2>2 DEF ToSwap, Swapped
<1>12. Second = Swapped(c)
  <2>1. Second = [ToSwap(c) EXCEPT !.data = Swap!SwapSecond(DataAt(c.pkt, c.n - 1), DataAt(c.pkt, c.n))]
    BY <1>4, <1>8, <1>9 DEF Second, ToSwap
  <2>2. SwappedData(c.pkt, c.n) = Swap!SwapSecond(DataAt(c.pkt, c.n - 1), DataAt(c.pkt, c.n))
    BY <1>7, <1>10 DEF SwappedData
  <2> QED BY <2>1, <2>2 DEF ToSwap, Swapped
<1>13. InS1(c) = Swapped(c)
  BY <1>10 DEF InS1
<1> QED BY <1>1, <1>11, <1>12, <1>13 DEF b, c

\* A beat that leaves s1 without an exchange is done.
LEMMA SwapDone ==
    ASSUME ShortSwapFrames, SwapInv, s1 # <<>>, s1[1].idx # Swap!SwapIdx
    PROVE  s1[1] = Swapped(s_sent[AtS1]) /\ s_sent[AtS1].n # Swap!SwapIdx + 1
<1> DEFINE b == s_sent[AtS1]
<1>1. AtS1 \in 1..Len(s_sent)
  BY SwapPlaces DEF SwapInv
<1>2. b.n \in Nat /\ Swap!SwapIdx \in Nat
  BY <1>1, SwapBeatAt
<1>3. s1[1] = InS1(b)
  BY SwapHeld
<1> HIDE DEF b
<1>4. s1[1].idx = b.n - 1
  BY <1>3 DEF InS1, ToSwap, Swapped
<1>5. b.n # Swap!SwapIdx + 1
  BY <1>2, <1>4
<1> QED BY <1>3, <1>5 DEF InS1, b

\* The second beat of an exchange never comes to s1 without it.
LEMMA SwapNotSecond ==
    ASSUME ShortSwapFrames, SwapInv, s0 # <<>>,
           s1 = <<>> \/ s1[1].idx # Swap!SwapIdx
    PROVE  s0[1] = InS1(s_sent[AtS0])
<1> DEFINE c == s_sent[AtS0]
<1>1. AtS0 \in 1..Len(s_sent) /\ AtS1 \in Nat \ {0} /\ Len(s_sent) \in Nat /\ AtS1 - 1 <= Len(s_sent)
  BY SwapPlaces DEF SwapInv
<1>2. c.n \in Nat /\ Swap!SwapIdx \in Nat
  BY <1>1, SwapBeatAt
<1>3. s0[1] = ToSwap(c)
  BY SwapHeld
<1>4. c.n # Swap!SwapIdx + 2
  <2>1. CASE s1 # <<>>
    <3>1. s_sent[AtS1].n # Swap!SwapIdx + 1
      BY <2>1, SwapDone
    <3>2. Follows(s_sent[AtS1], c)
      BY <2>1, SwapNeighbours
    <3>3. s_sent[AtS1].n \in Nat
      <4>1. AtS1 \in 1..Len(s_sent)
        BY <2>1, SwapPlaces DEF SwapInv
      <4> QED BY <4>1, SwapBeatAt
    <3> HIDE DEF c
    <3> QED BY <1>2, <3>1, <3>2, <3>3 DEF Follows, Sop
  <2>2. CASE s1 = <<>> /\ AtS1 # 1
    <3>1. s_sent[AtS1 - 1].n # Swap!SwapIdx + 1
      BY <2>2 DEF SwapInv, NoneLeftAlone
    <3>2. Follows(s_sent[AtS1 - 1], c)
      BY <2>2, SwapNeighbours
    <3>3. s_sent[AtS1 - 1].n \in Nat
      <4>1. AtS1 - 1 \in 1..Len(s_sent)
        BY <1>1, <2>2
      <4> QED BY <4>1, SwapBeatAt
    <3> HIDE DEF c
    <3> QED BY <1>2, <3>1, <3>2, <3>3 DEF Follows, Sop
  <2>3. CASE s1 = <<>> /\ AtS1 = 1
    <3>1. c.n = 1
      BY <2>3, SwapNeighbours DEF Sop
    <3> HIDE DEF c
    <3> QED BY <1>2, <3>1
  <2> QED BY <2>1, <2>2, <2>3
<1> HIDE DEF c
<1>5. Swapped(c) = ToSwap(c) \/ InS1(c) = ToSwap(c)
  BY <1>4 DEF Swapped, ToSwap, SwappedData, InS1
<1>6. InS1(c) = ToSwap(c)
  BY <1>5 DEF InS1
<1> QED BY <1>3, <1>6 DEF c

\* What the component makes of a beat depends on the addresses it exchanges,
\* which it never changes.
LEMMA SwapItemsSame == ASSUME Field' = Field PROVE SwapItems' = SwapItems
<1>1. \A b : Swapped(b)' = Swapped(b)
  BY Zenon DEF Swapped, SwappedData, Swap!SwapIdx, Swap!SwapFirst, Swap!SwapSecond
<1> QED BY <1>1, Zenon DEF SwapItems

\* Items made from beats of the stream.
LEMMA SwapItemsOf ==
    ASSUME NEW b \in Swap!Beats
    PROVE  ToSwap(b) \in SwapItems /\ Swapped(b) \in SwapItems /\ InS1(b) \in SwapItems
BY DEF SwapItems, InS1

\* A beat that is written goes to the end.
LEMMA SwapSupply ==
    ASSUME ShortSwapFrames, SwapInv, NEW b \in Swap!NextBeats(s_sent), Swap!Supply(b)
    PROVE  SwapInv'
<1>1. /\ s_sent' = Append(s_sent, b) /\ s_in' = Append(s_in, b)
      /\ UNCHANGED <<Field, s_idx, s0, s1, s2, s_out>>
  BY DEF Swap!Supply
<1>2. s_sent \in Seq(Swap!Beats) /\ s_in \in Seq(Swap!Beats) /\ Framed(s_sent)
  BY DEF SwapInv, SwapTypes
<1>3. b \in Swap!Beats /\ Framed(Append(s_sent, b))
  BY <1>2, SwapBeats
<1>4. SwapTypes' /\ Framed(s_sent)'
  <2>1. SwapItems' = SwapItems
    BY <1>1, SwapItemsSame
  <2>2. Append(s_in, b) \in Seq(Swap!Beats) /\ Append(s_sent, b) \in Seq(Swap!Beats)
    BY <1>2, <1>3
  <2> QED BY <1>1, <1>3, <2>1, <2>2 DEF SwapInv, SwapTypes
<1>5. Reads(s_sent, s_in, s_idx)'
  BY <1>1, <1>2, <1>3, WriteReads DEF SwapInv
<1>6. /\ Len(s_sent') = Len(s_sent) + 1 /\ Len(s_in') = Len(s_in) + 1
      /\ \A i \in 1..Len(s_sent) : s_sent'[i] = s_sent[i]
  BY <1>1, <1>2, <1>3
<1>7. AtS1' = AtS1 /\ AtS0' = AtS0 /\ AtSIn' = AtSIn /\ Swap!SwapIdx' = Swap!SwapIdx
  BY <1>1 DEF AtS1, AtS0, AtSIn, Swap!SwapIdx
<1>8. /\ Len(s_out) \in Nat /\ Len(s_sent) \in Nat /\ Len(s_in) \in Nat /\ AtSIn \in Nat
      /\ AtS1 \in Nat \ {0} /\ AtS1 - 1 <= Len(s_sent)
      /\ s1 # <<>> => AtS1 \in 1..Len(s_sent)
      /\ s0 # <<>> => AtS0 \in 1..Len(s_sent)
      /\ s2 # <<>> => Len(s_out) + 1 \in 1..Len(s_sent)
      /\ Len(s_out) <= Len(s_sent)
  <2>1. /\ Len(s_out) \in Nat /\ Len(s_sent) \in Nat /\ Len(s_in) \in Nat /\ AtSIn \in Nat
        /\ AtS1 \in Nat \ {0} /\ AtS1 - 1 <= Len(s_sent)
        /\ s1 # <<>> => AtS1 \in 1..Len(s_sent)
        /\ s0 # <<>> => AtS0 \in 1..Len(s_sent)
    BY SwapPlaces DEF SwapInv
  <2>2. AtS1 = Len(s_out) + Len(s2) + 1 /\ Len(s2) \in Nat /\ (s2 # <<>> => Len(s2) # 0)
    BY DEF AtS1, SwapInv, SwapTypes
  <2> QED BY <2>1, <2>2
<1>9. \A i \in 1..Len(s_sent) : /\ AllSwapped'[i] = AllSwapped[i]
                                /\ AllInS1'[i] = AllInS1[i] /\ AllToSwap'[i] = AllToSwap[i]
  <2> TAKE i \in 1..Len(s_sent)
  <2>1. i \in Nat /\ s_sent'[i] = s_sent[i] /\ Field' = Field
    BY <1>1, <1>6, <1>8
  <2>2. AllToSwap'[i] = AllToSwap[i]
    BY <2>1 DEF AllToSwap
  <2>3. AllSwapped'[i] = AllSwapped[i]
    BY <2>1, Zenon DEF AllSwapped, Swapped, SwappedData, Swap!SwapIdx, Swap!SwapFirst, Swap!SwapSecond
  <2>4. AllInS1'[i] = AllInS1[i]
    BY <2>1, Zenon DEF AllInS1, InS1, Swapped, SwappedData, Swap!SwapIdx, Swap!SwapFirst, Swap!SwapSecond
  <2> QED BY <2>2, <2>3, <2>4
<1>10. SwapInPlace'
  <2>1. AtSIn' + Len(s_in') = Len(s_sent') + 1
    BY <1>6, <1>7, <1>8, SMTT(30) DEF SwapInv, SwapInPlace
  <2>2. s0' # <<>> => s0'[1] = AllToSwap'[AtS0']
    BY <1>1, <1>7, <1>8, <1>9 DEF SwapInv, SwapInPlace
  <2>3. s1' # <<>> => s1'[1] = AllInS1'[AtS1']
    BY <1>1, <1>7, <1>8, <1>9 DEF SwapInv, SwapInPlace
  <2>4. s2' # <<>> => s2'[1] = AllSwapped'[Len(s_out') + 1]
    BY <1>1, <1>8, <1>9 DEF SwapInv, SwapInPlace
  <2>5. \A i \in 1..Len(s_out') : s_out'[i] = AllSwapped'[i]
    <3>1. \A i \in 1..Len(s_out) : i \in 1..Len(s_sent)
      BY <1>8
    <3> QED BY <1>1, <1>9, <3>1 DEF SwapInv, SwapInPlace
  <2> QED BY <2>1, <2>2, <2>3, <2>4, <2>5 DEF SwapInPlace
<1>11. NoneLeftAlone'
  <2>1. AtS1 # 1 => AtS1 - 1 \in 1..Len(s_sent)
    BY <1>8
  <2> QED BY <1>1, <1>6, <1>7, <2>1 DEF SwapInv, NoneLeftAlone
<1> QED BY <1>4, <1>5, <1>10, <1>11 DEF SwapInv

\* What an invocation loads is what comes next.
LEMMA SwapLoads ==
    ASSUME ShortSwapFrames, SwapInv, NEW accepting
    PROVE  /\ SMove1(accepting) =>
                IF SSwap(accepting) THEN First = Swapped(s_sent[AtS1]) /\ SMove0(accepting)
                ELSE s1[1] = Swapped(s_sent[AtS1]) /\ s_sent[AtS1].n # Swap!SwapIdx + 1
           /\ SMove0(accepting) =>
                IF SSwap(accepting) THEN Second = InS1(s_sent[AtS0])
                ELSE s0[1] = InS1(s_sent[AtS0])
<1>1. CASE SSwap(accepting)
  <2>1. s1 # <<>> /\ Swap!SwapReady /\ SMove1(accepting)
    BY <1>1 DEF SSwap, SMove1
  <2>2. s0 # <<>> /\ First = Swapped(s_sent[AtS1]) /\ Second = InS1(s_sent[AtS0])
    BY <2>1, SwapPair
  <2> QED BY <1>1, <2>1, <2>2 DEF SMove0
<1>2. CASE ~SSwap(accepting)
  <2>1. SMove1(accepting) => s1 # <<>> /\ s1[1].idx # Swap!SwapIdx
    BY <1>2 DEF SSwap, SMove1
  <2>2. SMove1(accepting) => s1[1] = Swapped(s_sent[AtS1]) /\ s_sent[AtS1].n # Swap!SwapIdx + 1
    BY <2>1, SwapDone
  <2>3. SMove0(accepting) => s0[1] = InS1(s_sent[AtS0])
    BY <2>1, SwapNotSecond DEF SMove0
  <2> QED BY <1>2, <2>2, <2>3
<1> QED BY <1>1, <1>2

\* An invocation keeps every beat in its place, with the words it must have.
LEMMA SwapInvoke ==
    ASSUME ShortSwapFrames, SwapInv, NEW accepting \in BOOLEAN, Swap!Invoke(accepting)
    PROVE  SwapInv'
<1> DEFINE m1 == SMove1(accepting)
           m0 == SMove0(accepting)
           sw == SSwap(accepting)
           rd == SRead(accepting)
           src1 == IF sw THEN <<First>> ELSE s1
           src0 == IF sw THEN <<Second>> ELSE s0
<1>1. /\ s_out' = Drained(s_out, s2, accepting)
      /\ s2' = Latch(m1, src1, accepting, s2)
      /\ s1' = Latch(m0, src0, m1, s1)
      /\ rd => /\ s0' = <<ReadItem>> /\ s_in' = Tail(s_in)
               /\ s_idx' = IF Eop(s_in[1]) THEN 0 ELSE (s_idx + 1) % 256
      /\ ~rd => s0' = (IF m0 THEN <<>> ELSE s0) /\ s_in' = s_in /\ s_idx' = s_idx
      /\ s_sent' = s_sent /\ Field' = Field
  BY SwapRegisters
<1>2. /\ m1 => s1 # <<>> /\ (s2 = <<>> \/ accepting)
      /\ m0 => s0 # <<>> /\ (s1 = <<>> \/ m1)
      /\ rd => s_in # <<>> /\ (s0 = <<>> \/ m0)
      /\ m1 \in BOOLEAN /\ sw => m1
  BY DEF SMove1, SMove0, SRead, SSwap
<1>3. /\ m1 => IF sw THEN First = Swapped(s_sent[AtS1]) /\ m0
               ELSE s1[1] = Swapped(s_sent[AtS1]) /\ s_sent[AtS1].n # Swap!SwapIdx + 1
      /\ m0 => IF sw THEN Second = InS1(s_sent[AtS0]) ELSE s0[1] = InS1(s_sent[AtS0])
  BY SwapLoads
<1>4. /\ Len(s_out) \in Nat /\ Len(s_sent) \in Nat /\ Len(s_in) \in Nat
      /\ AtS1 \in Nat \ {0} /\ AtS0 \in Nat \ {0} /\ AtSIn \in Nat \ {0}
      /\ AtSIn = Len(s_sent) - Len(s_in) + 1
      /\ s1 = <<>> => Len(s1) = 0 /\ AtS0 = AtS1
      /\ s1 # <<>> => Len(s1) = 1 /\ AtS0 = AtS1 + 1 /\ AtS1 \in 1..Len(s_sent)
      /\ s0 = <<>> => Len(s0) = 0 /\ AtSIn = AtS0
      /\ s0 # <<>> => Len(s0) = 1 /\ AtSIn = AtS0 + 1 /\ AtS0 \in 1..Len(s_sent)
  BY SwapPlaces DEF SwapInv
<1>5. /\ SwapTypes /\ SwapInPlace /\ Framed(s_sent) /\ Reads(s_sent, s_in, s_idx) /\ NoneLeftAlone
      /\ \A i \in 1..Len(s_sent) : s_sent[i] \in Swap!Beats
  BY DEF SwapInv, SwapTypes
<1>6. m1 \in BOOLEAN /\ m0 \in BOOLEAN /\ rd \in BOOLEAN
  BY DEF SMove1, SMove0, SRead
<1>7. AllToSwap' = AllToSwap /\ AllInS1' = AllInS1 /\ AllSwapped' = AllSwapped
  <2>1. Field' = Field /\ s_sent' = s_sent
    BY <1>1
  <2>2. AllToSwap' = AllToSwap
    BY <2>1 DEF AllToSwap
  <2>3. AllSwapped' = AllSwapped
    BY <2>1, ZenonT(60) DEF AllSwapped, Swapped, SwappedData, Swap!SwapIdx, Swap!SwapFirst, Swap!SwapSecond
  <2>4. AllInS1' = AllInS1
    BY <2>1, ZenonT(60) DEF AllInS1, InS1, Swapped, SwappedData, Swap!SwapIdx, Swap!SwapFirst, Swap!SwapSecond
  <2> QED BY <2>2, <2>3, <2>4
<1>8. m1 => src1 \in Seq(SwapItems) /\ Len(src1) = 1 /\ src1[1] = AllSwapped[Len(s_out) + Len(s2) + 1]
  <2> SUFFICES ASSUME m1 PROVE src1 \in Seq(SwapItems) /\ Len(src1) = 1
                              /\ src1[1] = AllSwapped[Len(s_out) + Len(s2) + 1]
    OBVIOUS
  <2>1. s1 # <<>> /\ AtS1 \in 1..Len(s_sent) /\ Len(s1) = 1 /\ AtS1 \in Nat
    BY <1>2, <1>4
  <2>2. Swapped(s_sent[AtS1]) \in SwapItems
    BY <1>5, <2>1, SwapItemsOf
  <2>3. AllSwapped[Len(s_out) + Len(s2) + 1] = Swapped(s_sent[AtS1])
    BY <2>1 DEF AllSwapped, AtS1
  <2>4. CASE sw
    BY <1>3, <2>2, <2>3, <2>4
  <2>5. CASE ~sw
    BY <1>3, <1>5, <2>1, <2>3, <2>5 DEF SwapTypes
  <2> QED BY <2>4, <2>5
<1>9. m0 => src0 \in Seq(SwapItems) /\ Len(src0) = 1 /\ src0[1] = AllInS1[AtS0]
  <2> SUFFICES ASSUME m0 PROVE src0 \in Seq(SwapItems) /\ Len(src0) = 1 /\ src0[1] = AllInS1[AtS0]
    OBVIOUS
  <2>1. s0 # <<>> /\ AtS0 \in 1..Len(s_sent) /\ Len(s0) = 1 /\ AtS0 \in Nat
    BY <1>2, <1>4
  <2>2. InS1(s_sent[AtS0]) \in SwapItems
    BY <1>5, <2>1, SwapItemsOf
  <2>3. AllInS1[AtS0] = InS1(s_sent[AtS0])
    BY <2>1 DEF AllInS1
  <2>4. CASE sw
    BY <1>3, <2>2, <2>3, <2>4
  <2>5. CASE ~sw
    BY <1>3, <1>5, <2>1, <2>3, <2>5 DEF SwapTypes
  <2> QED BY <2>4, <2>5
<1> DEFINE g1 == IF m1 THEN 1 ELSE 0
<1>10. /\ s_out' \in Seq(SwapItems)
       /\ s2' \in Seq(SwapItems) /\ Len(s2') <= 1
       /\ \A i \in 1..Len(s_out') : s_out'[i] = AllSwapped[i]
       /\ s2' # <<>> => s2'[1] = AllSwapped[Len(s_out') + 1]
       /\ Len(s_out') + Len(s2') = Len(s_out) + Len(s2) + g1
  <2>1. s_out \in Seq(SwapItems) /\ s2 \in Seq(SwapItems) /\ Len(s2) <= 1
    BY <1>5 DEF SwapTypes
  <2>2. /\ \A i \in 1..Len(s_out) : s_out[i] = AllSwapped[i]
        /\ s2 # <<>> => s2[1] = AllSwapped[Len(s_out) + 1]
    BY <1>5 DEF SwapInPlace
  <2>3. m1 => src1 \in Seq(SwapItems) /\ Len(src1) = 1 /\ (s2 = <<>> \/ accepting)
    BY <1>2, <1>8
  <2>4. m1 => src1[1] = AllSwapped[Len(s_out) + Len(s2) + 1]
    BY <1>8
  <2>6. m1 \in BOOLEAN
    BY DEF SMove1
  <2> HIDE DEF m1, src1
  <2>5. /\ Drained(s_out, s2, accepting) \in Seq(SwapItems)
        /\ Latch(m1, src1, accepting, s2) \in Seq(SwapItems) /\ Len(Latch(m1, src1, accepting, s2)) <= 1
        /\ \A i \in 1..Len(Drained(s_out, s2, accepting)) : Drained(s_out, s2, accepting)[i] = AllSwapped[i]
        /\ Latch(m1, src1, accepting, s2) # <<>>
             => Latch(m1, src1, accepting, s2)[1] = AllSwapped[Len(Drained(s_out, s2, accepting)) + 1]
        /\ Len(Drained(s_out, s2, accepting)) + Len(Latch(m1, src1, accepting, s2))
             = Len(s_out) + Len(s2) + (IF m1 THEN 1 ELSE 0)
    BY <2>1, <2>2, <2>3, <2>4, <2>6, SinkMoves
  <2> QED BY <1>1, <2>5 DEF g1
<1>11. AtS1' = AtS1 + g1
  <2>1. /\ Len(s_out') \in Nat /\ Len(s2') \in Nat /\ Len(s_out) \in Nat /\ Len(s2) \in Nat
        /\ g1 \in Nat
    BY <1>5, <1>10 DEF SwapTypes
  <2>2. Len(s_out') + Len(s2') = Len(s_out) + Len(s2) + g1
    BY <1>10
  <2>3. AtS1 = Len(s_out) + Len(s2) + 1 /\ AtS1' = Len(s_out') + Len(s2') + 1
    BY DEF AtS1
  <2> HIDE DEF g1
  <2> QED BY <2>1, <2>2, <2>3
<1>12. /\ s1' \in Seq(SwapItems) /\ Len(s1') <= 1 /\ (s1' # <<>> => s1'[1] = AllInS1[AtS1'])
       /\ AtS0' = IF m0 THEN AtS0 + 1 ELSE AtS0
  <2>1. CASE m0
    <3>1. s1' = src0 /\ src0 \in Seq(SwapItems) /\ Len(src0) = 1 /\ src0[1] = AllInS1[AtS0]
      BY <1>1, <1>9, <2>1 DEF Latch
    <3>2. AtS1' = AtS0
      BY <1>2, <1>4, <1>11, <2>1
    <3>3. AtS0' = AtS1' + Len(s1')
      BY DEF AtS0
    <3> HIDE DEF src0
    <3>4. s1' \in Seq(SwapItems) /\ Len(s1') = 1 /\ s1'[1] = AllInS1[AtS0]
      BY <3>1
    <3>5. Len(s1') <= 1 /\ AtS0' = AtS0 + 1
      BY <1>4, <3>2, <3>3, <3>4
    <3> QED BY <2>1, <3>2, <3>4, <3>5
  <2>2. CASE ~m0 /\ m1
    <3>1. s1' = <<>> /\ Len(<<>>) = 0 /\ <<>> \in Seq(SwapItems)
      BY <1>1, <2>2 DEF Latch
    <3>2. AtS1' = AtS0
      BY <1>2, <1>4, <1>11, <2>2
    <3>3. AtS0' = AtS1' + Len(s1')
      BY DEF AtS0
    <3>4. Len(s1') = 0 /\ s1' \in Seq(SwapItems)
      BY <3>1
    <3>5. Len(s1') <= 1 /\ AtS0' = AtS0
      BY <1>4, <3>2, <3>3, <3>4
    <3> QED BY <2>2, <3>1, <3>4, <3>5
  <2>3. CASE ~m0 /\ ~m1
    <3>1. s1' = s1 /\ AtS1' = AtS1
      BY <1>1, <1>4, <1>11, <2>3 DEF Latch
    <3>2. AtS0' = AtS0
      BY <3>1 DEF AtS0
    <3>3. s1 \in Seq(SwapItems) /\ Len(s1) <= 1 /\ (s1 # <<>> => s1[1] = AllInS1[AtS1])
      BY <1>5 DEF SwapTypes, SwapInPlace
    <3> QED BY <2>3, <3>1, <3>2, <3>3
  <2> QED BY <2>1, <2>2, <2>3
<1>13. rd => /\ s_in \in Seq(Swap!Beats) /\ Tail(s_in) \in Seq(Swap!Beats)
             /\ Len(Tail(s_in)) = Len(s_in) - 1
             /\ s_in[1] \in Swap!Beats /\ s_in[1] = s_sent[AtSIn] /\ s_idx = s_in[1].n - 1
             /\ Reads(s_sent, Tail(s_in), IF Eop(s_in[1]) THEN 0 ELSE (s_idx + 1) % 256)
  <2> SUFFICES ASSUME rd PROVE /\ s_in \in Seq(Swap!Beats) /\ Tail(s_in) \in Seq(Swap!Beats)
             /\ Len(Tail(s_in)) = Len(s_in) - 1
             /\ s_in[1] \in Swap!Beats /\ s_in[1] = s_sent[AtSIn] /\ s_idx = s_in[1].n - 1
             /\ Reads(s_sent, Tail(s_in), IF Eop(s_in[1]) THEN 0 ELSE (s_idx + 1) % 256)
    OBVIOUS
  <2>1. s_in # <<>> /\ s_in \in Seq(Swap!Beats) /\ s_sent \in Seq(Swap!Beats)
    BY <1>2, <1>5 DEF SwapTypes
  <2>2. Tail(s_in) \in Seq(Swap!Beats) /\ Len(Tail(s_in)) = Len(s_in) - 1
    BY <2>1
  <2>3. \A b \in Swap!Beats : Indexed(b)
    BY SwapBeats
  <2>4. /\ s_in[1] = s_sent[Len(s_sent) - Len(s_in) + 1]
        /\ s_in[1] \in Swap!Beats /\ s_idx = s_in[1].n - 1
        /\ Reads(s_sent, Tail(s_in), IF Eop(s_in[1]) THEN 0 ELSE (s_idx + 1) % 256)
    BY <1>5, <2>1, <2>3, ReadNext
  <2> QED BY <1>4, <2>1, <2>2, <2>4
<1>14. /\ s0' \in Seq(SwapItems) /\ Len(s0') <= 1 /\ (s0' # <<>> => s0'[1] = AllToSwap[AtS0'])
       /\ s_in' \in Seq(Swap!Beats) /\ AtSIn' + Len(s_in') = Len(s_sent) + 1
       /\ Reads(s_sent, s_in', s_idx')
  <2>1. CASE rd
    <3>1. s0' = <<ReadItem>> /\ s_in' = Tail(s_in) /\ s_idx' = IF Eop(s_in[1]) THEN 0 ELSE (s_idx + 1) % 256
      BY <1>1, <2>1
    <3>2. ReadItem = ToSwap(s_in[1])
      BY <1>13, <2>1 DEF ReadItem, ToSwap, DataAt, Swap!DataOf
    <3>3. ReadItem \in SwapItems
      BY <1>13, <2>1, <3>2, SwapItemsOf
    <3>4. Len(s0') = 1 /\ s0' \in Seq(SwapItems) /\ s0'[1] = ReadItem
      BY <3>1, <3>3
    <3>5. AtS0' = AtSIn
      BY <1>2, <1>4, <1>12, <2>1
    <3>6. ReadItem = AllToSwap[AtSIn]
      BY <1>4, <1>13, <2>1, <3>2 DEF AllToSwap
    <3>7. AtSIn' = AtSIn + 1
      BY <3>4, <3>5 DEF AtSIn
    <3>8. Len(s_in') = Len(s_in) - 1 /\ s_in' \in Seq(Swap!Beats) /\ Reads(s_sent, s_in', s_idx')
      BY <1>13, <2>1, <3>1
    <3>9. AtSIn' + Len(s_in') = Len(s_sent) + 1 /\ Len(s0') <= 1
      BY <1>4, <3>4, <3>7, <3>8
    <3> QED BY <3>4, <3>5, <3>6, <3>8, <3>9
  <2>2. CASE ~rd /\ m0
    <3>1. s0' = <<>> /\ s_in' = s_in /\ s_idx' = s_idx /\ Len(<<>>) = 0 /\ <<>> \in Seq(SwapItems)
      BY <1>1, <2>2
    <3>2. AtS0' = AtSIn
      BY <1>2, <1>4, <1>12, <2>2
    <3>3. Len(s0') = 0
      BY <3>1
    <3>4. AtSIn' = AtSIn /\ Len(s0') <= 1
      BY <1>4, <3>2, <3>3 DEF AtSIn
    <3> QED BY <1>4, <1>5, <3>1, <3>4 DEF SwapTypes
  <2>3. CASE ~rd /\ ~m0
    <3>1. s0' = s0 /\ s_in' = s_in /\ s_idx' = s_idx /\ AtS0' = AtS0
      BY <1>1, <1>12, <2>3
    <3>2. AtSIn' = AtSIn
      BY <3>1 DEF AtSIn
    <3> QED BY <1>4, <1>5, <3>1, <3>2 DEF SwapTypes, SwapInPlace
  <2> QED BY <2>1, <2>2, <2>3
<1>15. NoneLeftAlone'
  <2> SUFFICES ASSUME s1' = <<>>, AtS1' # 1 PROVE s_sent[AtS1' - 1].n # Swap!SwapIdx + 1
    BY <1>1 DEF NoneLeftAlone, Swap!SwapIdx
  <2>1. ~m0
    <3> SUFFICES ASSUME m0 PROVE FALSE
      OBVIOUS
    <3>1. s1' = src0 /\ Len(src0) = 1
      BY <1>1, <1>9 DEF Latch
    <3> HIDE DEF src0
    <3> QED BY <3>1
  <2>2. CASE m1
    <3>1. s_sent[AtS1].n # Swap!SwapIdx + 1
      BY <1>3, <2>1, <2>2
    <3>2. AtS1' - 1 = AtS1
      BY <1>4, <1>11, <2>2
    <3> QED BY <3>1, <3>2
  <2>3. CASE ~m1
    <3>1. s1 = <<>> /\ AtS1' = AtS1
      BY <1>1, <1>4, <1>11, <2>1, <2>3 DEF Latch
    <3> QED BY <1>5, <3>1 DEF NoneLeftAlone
  <2> QED BY <2>2, <2>3
<1>16. SwapTypes'
  <2>1. SwapItems' = SwapItems
    BY <1>1, SwapItemsSame
  <2>2. Field' \in {"mac", "ip"} /\ s_sent' \in Seq(Swap!Beats)
    BY <1>1, <1>5 DEF SwapTypes
  <2> QED BY <1>10, <1>12, <1>14, <2>1, <2>2 DEF SwapTypes
<1>17. SwapInPlace'
  BY <1>1, <1>7, <1>10, <1>12, <1>14 DEF SwapInPlace
<1> QED BY <1>1, <1>5, <1>14, <1>15, <1>16, <1>17 DEF SwapInv

\* The invariant holds in every reachable state.
LEMMA SwapInvariant == ASSUME ShortSwapFrames PROVE Swap!Spec => []SwapInv
<1>1. Swap!Init => SwapInv
  <2> SUFFICES ASSUME Swap!Init PROVE SwapInv
    OBVIOUS
  <2>1. /\ s_sent = <<>> /\ s_in = <<>> /\ s_out = <<>> /\ s_idx = 0
        /\ s0 = <<>> /\ s1 = <<>> /\ s2 = <<>> /\ Field \in {"mac", "ip"}
    BY DEF Swap!Init
  <2>2. Framed(s_sent) /\ Reads(s_sent, s_in, s_idx)
    BY <2>1 DEF Framed, Contiguous, Reads
  <2>3. SwapTypes
    BY <2>1 DEF SwapTypes
  <2>4. AtS1 = 1 /\ AtSIn = 1
    BY <2>1 DEF AtS1, AtS0, AtSIn
  <2>5. SwapInPlace /\ NoneLeftAlone
    BY <2>1, <2>4 DEF SwapInPlace, NoneLeftAlone
  <2> QED BY <2>2, <2>3, <2>5 DEF SwapInv
<1>2. SwapInv /\ [Swap!Next]_(Swap!vars) => SwapInv'
  <2> SUFFICES ASSUME SwapInv, [Swap!Next]_(Swap!vars) PROVE SwapInv'
    OBVIOUS
  <2>1. ASSUME NEW b \in Swap!NextBeats(s_sent), Swap!Supply(b) PROVE SwapInv'
    BY <2>1, SwapSupply
  <2>2. ASSUME NEW accepting \in BOOLEAN, Swap!Invoke(accepting) PROVE SwapInv'
    BY <2>2, SwapInvoke
  <2>3. CASE UNCHANGED Swap!vars
    <3>1. UNCHANGED <<Field, s_in, s_idx, s0, s1, s2, s_sent, s_out>>
      BY <2>3 DEF Swap!vars
    <3>2. AllToSwap' = AllToSwap
      BY <3>1 DEF AllToSwap
    <3>3. AllSwapped' = AllSwapped
      BY <3>1, ZenonT(60) DEF AllSwapped, Swapped, SwappedData, Swap!SwapIdx, Swap!SwapFirst, Swap!SwapSecond
    <3>4. AllInS1' = AllInS1
      BY <3>1, ZenonT(60) DEF AllInS1, InS1, Swapped, SwappedData, Swap!SwapIdx, Swap!SwapFirst, Swap!SwapSecond
    <3>5. SwapItems' = SwapItems
      BY <3>1, SwapItemsSame
    <3>6. AtS1' = AtS1 /\ AtS0' = AtS0 /\ AtSIn' = AtSIn /\ (Swap!SwapIdx)' = Swap!SwapIdx
      BY <3>1 DEF AtS1, AtS0, AtSIn, Swap!SwapIdx
    <3>7. SwapTypes'
      BY <3>1, <3>5 DEF SwapInv, SwapTypes
    <3>8. SwapInPlace' /\ NoneLeftAlone'
      BY <3>1, <3>2, <3>3, <3>4, <3>6 DEF SwapInv, SwapInPlace, NoneLeftAlone
    <3>9. Framed(s_sent)' /\ Reads(s_sent, s_in, s_idx)'
      BY <3>1 DEF SwapInv
    <3> QED BY <3>7, <3>8, <3>9 DEF SwapInv
  <2> QED BY <2>1, <2>2, <2>3 DEF Swap!Next
<1> QED BY <1>1, <1>2, PTL DEF Swap!Spec

\* The word at place k of the answer stands at SwappedPos(k) of the request.
LEMMA SwappedWords ==
    ASSUME Field \in {"mac", "ip"}, NEW p, NEW n \in Nat \ {0}, NEW j \in 1..4
    PROVE  SwappedData(p, n)[j] = Swap!Word(p, Swap!SwappedPos(4 * (n - 1) + j - 1))
<1>1. \A m \in Nat \ {0} : \A i \in 1..4 : DataAt(p, m)[i] = Swap!Word(p, 4 * (m - 1) + i - 1)
  BY DEF DataAt
<1>2. j = 1 \/ j = 2 \/ j = 3 \/ j = 4
  OBVIOUS
<1> DEFINE w(k) == Swap!Word(p, k)
           Row(m, a, b, c, d) ==
             /\ DataAt(p, m)[1] = w(a) /\ DataAt(p, m)[2] = w(b)
             /\ DataAt(p, m)[3] = w(c) /\ DataAt(p, m)[4] = w(d)
<1>8. Row(1, 0, 1, 2, 3) /\ Row(2, 4, 5, 6, 7) /\ Row(4, 12, 13, 14, 15) /\ Row(5, 16, 17, 18, 19)
  <2> HIDE DEF w
  <2>1. \A m \in Nat \ {0} : \A i \in 1..4 : DataAt(p, m)[i] = w(4 * (m - 1) + i - 1)
    BY <1>1 DEF w
  <2>2. \A m \in Nat \ {0} : Row(m, 4 * m - 4, 4 * m - 3, 4 * m - 2, 4 * m - 1)
    <3> TAKE m \in Nat \ {0}
    <3>1. /\ 4 * (m - 1) + 1 - 1 = 4 * m - 4 /\ 4 * (m - 1) + 2 - 1 = 4 * m - 3
          /\ 4 * (m - 1) + 3 - 1 = 4 * m - 2 /\ 4 * (m - 1) + 4 - 1 = 4 * m - 1
      OBVIOUS
    <3>2. /\ DataAt(p, m)[1] = w(4 * (m - 1) + 1 - 1) /\ DataAt(p, m)[2] = w(4 * (m - 1) + 2 - 1)
          /\ DataAt(p, m)[3] = w(4 * (m - 1) + 3 - 1) /\ DataAt(p, m)[4] = w(4 * (m - 1) + 4 - 1)
      BY <2>1
    <3> QED BY <3>1, <3>2
  <2>3. /\ 4 * 1 - 4 = 0 /\ 4 * 1 - 3 = 1 /\ 4 * 1 - 2 = 2 /\ 4 * 1 - 1 = 3
        /\ 4 * 2 - 4 = 4 /\ 4 * 2 - 3 = 5 /\ 4 * 2 - 2 = 6 /\ 4 * 2 - 1 = 7
        /\ 4 * 4 - 4 = 12 /\ 4 * 4 - 3 = 13 /\ 4 * 4 - 2 = 14 /\ 4 * 4 - 1 = 15
        /\ 4 * 5 - 4 = 16 /\ 4 * 5 - 3 = 17 /\ 4 * 5 - 2 = 18 /\ 4 * 5 - 1 = 19
    OBVIOUS
  <2> HIDE DEF Row
  <2>4. /\ Row(1, 4 * 1 - 4, 4 * 1 - 3, 4 * 1 - 2, 4 * 1 - 1)
        /\ Row(2, 4 * 2 - 4, 4 * 2 - 3, 4 * 2 - 2, 4 * 2 - 1)
        /\ Row(4, 4 * 4 - 4, 4 * 4 - 3, 4 * 4 - 2, 4 * 4 - 1)
        /\ Row(5, 4 * 5 - 4, 4 * 5 - 3, 4 * 5 - 2, 4 * 5 - 1)
    <3>1. 1 \in Nat \ {0} /\ 2 \in Nat \ {0} /\ 4 \in Nat \ {0} /\ 5 \in Nat \ {0}
      OBVIOUS
    <3> QED BY <2>2, <3>1, Zenon
  <2> QED BY <2>3, <2>4
<1>3. CASE Field = "mac" /\ n = 1
  <2>1. SwappedData(p, n) = <<w(3), w(4), w(5), w(0)>>
    <3>1. SwappedData(p, n) = <<DataAt(p, 1)[4], DataAt(p, 2)[1], DataAt(p, 2)[2], DataAt(p, 1)[1]>>
      BY <1>3 DEF SwappedData, Swap!SwapIdx, Swap!SwapFirst
    <3> QED BY <1>8, <3>1
  <2>2. /\ Swap!SwappedPos(0) = 3 /\ Swap!SwappedPos(1) = 4
        /\ Swap!SwappedPos(2) = 5 /\ Swap!SwappedPos(3) = 0
    BY <1>3 DEF Swap!SwappedPos
  <2> HIDE DEF w
  <2>3. SwappedData(p, n)[j] = w(Swap!SwappedPos(4 * (n - 1) + j - 1))
    BY <1>2, <1>3, <2>1, <2>2
  <2> QED BY <2>3 DEF w
<1>4. CASE Field = "mac" /\ n = 2
  <2>1. SwappedData(p, n) = <<w(1), w(2), w(6), w(7)>>
    <3>1. SwappedData(p, n) = <<DataAt(p, 1)[2], DataAt(p, 1)[3], DataAt(p, 2)[3], DataAt(p, 2)[4]>>
      BY <1>4 DEF SwappedData, Swap!SwapIdx, Swap!SwapSecond
    <3> QED BY <1>8, <3>1
  <2>2. /\ Swap!SwappedPos(4) = 1 /\ Swap!SwappedPos(5) = 2
        /\ Swap!SwappedPos(6) = 6 /\ Swap!SwappedPos(7) = 7
    BY <1>4 DEF Swap!SwappedPos
  <2> HIDE DEF w
  <2>3. SwappedData(p, n)[j] = w(Swap!SwappedPos(4 * (n - 1) + j - 1))
    BY <1>2, <1>4, <2>1, <2>2
  <2> QED BY <2>3 DEF w
<1>5. CASE Field = "ip" /\ n = 4
  <2>1. SwappedData(p, n) = <<w(12), w(15), w(16), w(13)>>
    <3>1. SwappedData(p, n) = <<DataAt(p, 4)[1], DataAt(p, 4)[4], DataAt(p, 5)[1], DataAt(p, 4)[2]>>
      BY <1>5 DEF SwappedData, Swap!SwapIdx, Swap!SwapFirst
    <3> QED BY <1>8, <3>1
  <2>2. /\ Swap!SwappedPos(12) = 12 /\ Swap!SwappedPos(13) = 15
        /\ Swap!SwappedPos(14) = 16 /\ Swap!SwappedPos(15) = 13
    BY <1>5 DEF Swap!SwappedPos
  <2> HIDE DEF w
  <2>3. SwappedData(p, n)[j] = w(Swap!SwappedPos(4 * (n - 1) + j - 1))
    BY <1>2, <1>5, <2>1, <2>2
  <2> QED BY <2>3 DEF w
<1>6. CASE Field = "ip" /\ n = 5
  <2>1. SwappedData(p, n) = <<w(14), w(17), w(18), w(19)>>
    <3>1. SwappedData(p, n) = <<DataAt(p, 4)[3], DataAt(p, 5)[2], DataAt(p, 5)[3], DataAt(p, 5)[4]>>
      BY <1>6 DEF SwappedData, Swap!SwapIdx, Swap!SwapSecond
    <3> QED BY <1>8, <3>1
  <2>2. /\ Swap!SwappedPos(16) = 14 /\ Swap!SwappedPos(17) = 17
        /\ Swap!SwappedPos(18) = 18 /\ Swap!SwappedPos(19) = 19
    BY <1>6 DEF Swap!SwappedPos
  <2> HIDE DEF w
  <2>3. SwappedData(p, n)[j] = w(Swap!SwappedPos(4 * (n - 1) + j - 1))
    BY <1>2, <1>6, <2>1, <2>2
  <2> QED BY <2>3 DEF w
<1>7. CASE IF Field = "mac" THEN n \notin {1, 2} ELSE n \notin {4, 5}
  <2>1. SwappedData(p, n) = DataAt(p, n)
    BY <1>7 DEF SwappedData, Swap!SwapIdx
  <2>2. Swap!SwappedPos(4 * (n - 1) + j - 1) = 4 * (n - 1) + j - 1
    <3> DEFINE k == 4 * (n - 1) + j - 1
    <3>1. CASE Field = "mac"
      <4>1. k \notin 0..2 /\ k \notin 3..5
        BY <1>7, <3>1
      <4> HIDE DEF k
      <4>2. Swap!SwappedPos(k) = k
        BY <3>1, <4>1 DEF Swap!SwappedPos
      <4> QED BY <4>2 DEF k
    <3>2. CASE Field = "ip"
      <4>1. k \notin 13..14 /\ k \notin 15..16
        BY <1>7, <3>2
      <4> HIDE DEF k
      <4>2. Swap!SwappedPos(k) = k
        BY <3>2, <4>1 DEF Swap!SwappedPos
      <4> QED BY <4>2 DEF k
    <3> QED BY <3>1, <3>2
  <2> QED BY <1>1, <2>1, <2>2
<1> QED BY <1>3, <1>4, <1>5, <1>6, <1>7

\* In frames of at most 256 beats, every beat leaves in its order and with its
\* framing, with exactly the two addresses of its own frame exchanged, although
\* half of an address comes from the beat behind or before, which bubbles and
\* stalls keep apart.
THEOREM SwapsOnlyAddresses ==
    ASSUME ShortSwapFrames PROVE Swap!Spec => []OnlyAddressesSwapped
<1>1. SwapInv => OnlyAddressesSwapped
  <2> SUFFICES ASSUME SwapInv, NEW i \in 1..Len(s_out)
               PROVE  /\ i <= Len(s_sent) /\ s_out[i].pkt = s_sent[i].pkt /\ s_out[i].n = s_sent[i].n
                      /\ \A j \in 1..4 :
                           s_out[i].data[j]
                             = Swap!Word(s_sent[i].pkt, Swap!SwappedPos(4 * (s_sent[i].n - 1) + j - 1))
    BY DEF OnlyAddressesSwapped, Swap!OnlyAddressesSwapped
  <2>1. i \in Nat /\ i \in 1..Len(s_sent)
    <3>1. /\ Len(s_out) \in Nat /\ Len(s_sent) \in Nat /\ AtS1 - 1 <= Len(s_sent)
          /\ Len(s2) \in Nat /\ AtS1 = Len(s_out) + Len(s2) + 1
      BY SwapPlaces DEF SwapInv, SwapTypes, AtS1
    <3> QED BY <3>1
  <2>2. s_out[i] = Swapped(s_sent[i])
    BY <2>1 DEF SwapInv, SwapInPlace, AllSwapped
  <2>3. s_sent[i].n \in Nat \ {0} /\ Field \in {"mac", "ip"}
    BY <2>1, SwapBeatAt DEF SwapInv, SwapTypes
  <2>4. /\ s_out[i].pkt = s_sent[i].pkt /\ s_out[i].n = s_sent[i].n
        /\ s_out[i].data = SwappedData(s_sent[i].pkt, s_sent[i].n)
    BY <2>2 DEF Swapped
  <2>5. ASSUME NEW j \in 1..4
        PROVE  s_out[i].data[j]
                 = Swap!Word(s_sent[i].pkt, Swap!SwappedPos(4 * (s_sent[i].n - 1) + j - 1))
    <3>1. SwappedData(s_sent[i].pkt, s_sent[i].n)[j]
            = Swap!Word(s_sent[i].pkt, Swap!SwappedPos(4 * (s_sent[i].n - 1) + j - 1))
      BY <2>3, SwappedWords
    <3> QED BY <2>4, <3>1
  <2>6. i <= Len(s_sent)
    BY <2>1
  <2> QED BY <2>4, <2>5, <2>6
<1> QED BY <1>1, SwapInvariant, PTL

-----------------------------------------------------------------------------
(* icmp_proc_ipv4chksum: the checksum of the own header, although all      *)
(* frames are added up in one register.                                    *)

ChksumStream == INSTANCE L8Stream_proofs WITH Packets <- ChksumPackets, MaxSent <- MaxChksumSent

ShortChksumFrames == \A p \in ChksumPackets : p.beats <= 256

\* A beat on its way through the registers, and as it leaves.
ToSum(b) == [pkt |-> b.pkt, n |-> b.n, idx |-> b.n - 1, field |-> Chksum!KEPT]
Summed(b) ==
    [pkt |-> b.pkt, n |-> b.n, idx |-> b.n - 1,
     field |-> IF b.n = 4 THEN Chksum!HeaderChecksum(Chksum!HeaderSum(b.pkt)) ELSE Chksum!KEPT]

\* The places in c_sent of the beats in the registers and of the first one in
\* the buffer.
AtC2 == Len(c_out) + Len(c3) + 1
AtC1 == AtC2 + Len(c2)
AtC0 == AtC1 + Len(c1)
AtCIn == AtC0 + Len(c0)

\* Every beat that was sent, as it stands in the registers and as it leaves.
AllToSum == [i \in Nat |-> ToSum(c_sent[i])]
AllSummed == [i \in Nat |-> Summed(c_sent[i])]

ChksumItems == {ToSum(b) : b \in Chksum!Beats} \cup {Summed(b) : b \in Chksum!Beats}
Held(r) == r \in Seq(ChksumItems) /\ Len(r) <= 1

ChksumTypes ==
    /\ c_in \in Seq(Chksum!Beats) /\ c_sent \in Seq(Chksum!Beats) /\ c_out \in Seq(ChksumItems)
    /\ Held(c0) /\ Held(c1) /\ Held(c2) /\ Held(c3)

ChksumInPlace ==
    /\ AtCIn + Len(c_in) = Len(c_sent) + 1
    /\ c0 # <<>> => c0[1] = AllToSum[AtC0]
    /\ c1 # <<>> => c1[1] = AllToSum[AtC1]
    /\ c2 # <<>> => c2[1] = AllToSum[AtC2]
    /\ c3 # <<>> => c3[1] = AllSummed[Len(c_out) + 1]
    /\ \A i \in 1..Len(c_out) : c_out[i] = AllSummed[i]

\* What the sum register holds when b has entered c1 last.
SumAt(b, sum) ==
    /\ b.n = 2 => sum = b.pkt.part[1]
    /\ b.n = 3 => sum = b.pkt.part[1] + b.pkt.part[2]
    /\ b.n = 4 => sum = b.pkt.part[1] + b.pkt.part[2] + b.pkt.part[3]
    /\ b.n >= 5 => sum = Chksum!FoldOnce(Chksum!HeaderSum(b.pkt))

SumRight == AtC0 # 1 => SumAt(c_sent[AtC0 - 1], checksum)

ChksumInv ==
    /\ ChksumTypes
    /\ Framed(c_sent) /\ Reads(c_sent, c_in, c_idx)
    /\ ChksumInPlace /\ SumRight

\* What a beat of the stream is, and that a source of whole packets keeps it
\* framed.
LEMMA ChksumBeats ==
    ASSUME ShortChksumFrames
    PROVE  /\ \A b \in Chksum!Beats : Indexed(b) /\ b.pkt \in ChksumPackets
           /\ \A s \in Seq(Chksum!Beats) : Framed(s) =>
                \A b \in Chksum!NextBeats(s) : b \in Chksum!Beats /\ Framed(Append(s, b))
<1>1. /\ \A c : Sop(c) <=> ChksumStream!Sop(c)
      /\ \A c : Eop(c) <=> ChksumStream!Eop(c)
      /\ \A c : Chksum!Eop(c) <=> ChksumStream!Eop(c)
      /\ \A t : Chksum!Last(t) = ChksumStream!Last(t)
  BY DEF Sop, ChksumStream!Sop, Eop, Chksum!Eop, ChksumStream!Eop, Chksum!Last, ChksumStream!Last
<1>2. \A c, d : Follows(c, d) <=> ChksumStream!Follows(c, d)
  BY <1>1 DEF Follows, ChksumStream!Follows
<1>3. \A t : Framed(t) <=> ChksumStream!Framed(t)
  BY <1>1, <1>2 DEF Framed, ChksumStream!Framed, Contiguous, ChksumStream!Contiguous
<1>4. \A t : Chksum!AtBoundary(t) <=> ChksumStream!AtBoundary(t)
  BY <1>1 DEF Chksum!AtBoundary, ChksumStream!AtBoundary
<1>5. \A t : Chksum!NextBeats(t) = ChksumStream!NextBeats(t)
  BY <1>1, <1>4, Zenon DEF Chksum!NextBeats, ChksumStream!NextBeats
<1>6. Chksum!Beats = ChksumStream!Beats
  BY DEF Chksum!Beats, ChksumStream!Beats
<1>7. \A b \in Chksum!Beats : Indexed(b) /\ b.pkt \in ChksumPackets
  <2>1. \A b \in Chksum!Beats : /\ b.pkt \in ChksumPackets /\ b.n \in 1..b.pkt.beats
                                /\ b.pkt.beats \in Nat \ {0}
    BY <1>6, ChksumStream!BeatFacts, ChksumAssumption, DepthAssumption
  <2> QED BY <2>1 DEF Indexed, ShortChksumFrames
<1>8. ASSUME NEW s \in Seq(Chksum!Beats), Framed(s), NEW b \in Chksum!NextBeats(s)
      PROVE  b \in Chksum!Beats /\ Framed(Append(s, b))
  BY <1>3, <1>5, <1>6, <1>8, ChksumStream!NextBeatsAreBeats, ChksumStream!AppendFramed,
     ChksumAssumption, DepthAssumption
<1> QED BY <1>7, <1>8

\* The moves of an invocation, and what it takes in.
CMove2(accepting) == c2 # <<>> /\ (c3 = <<>> \/ accepting) /\ Chksum!MayLeave
CMove1(accepting) == c1 # <<>> /\ (c2 = <<>> \/ CMove2(accepting))
CMove0(accepting) == c0 # <<>> /\ (c1 = <<>> \/ CMove1(accepting))
CRead(accepting) == c_in # <<>> /\ (c0 = <<>> \/ CMove0(accepting))

SumItem == [pkt |-> c_in[1].pkt, n |-> c_in[1].n, idx |-> c_idx, field |-> Chksum!KEPT]
Incoming == IF c_in # <<>> THEN <<SumItem>> ELSE <<>>

\* Each register after an invocation.
LEMMA ChksumRegisters ==
    ASSUME NEW accepting, Chksum!Invoke(accepting)
    PROVE  /\ c_out' = Drained(c_out, c3, accepting)
           /\ c3' = Latch(CMove2(accepting), <<Chksum!Completed(c2[1])>>, accepting, c3)
           /\ c2' = Latch(CMove1(accepting), c1, CMove2(accepting), c2)
           /\ c1' = Latch(CMove0(accepting), c0, CMove1(accepting), c1)
           /\ c0' = Latch(CRead(accepting), Incoming, CMove0(accepting), c0)
           /\ checksum' = IF CMove0(accepting) THEN Chksum!Accumulate(c0[1]) ELSE checksum
           /\ CRead(accepting) =>
                /\ c_in' = Tail(c_in)
                /\ c_idx' = IF Eop(c_in[1]) THEN 0 ELSE (c_idx + 1) % 256
           /\ ~CRead(accepting) => c_in' = c_in /\ c_idx' = c_idx
           /\ c_sent' = c_sent
<1>1. CMove2(accepting) <=> c2 # <<>> /\ Chksum!Free(accepting) /\ Chksum!MayLeave
  BY DEF CMove2, Chksum!Free
<1>2. \A c : Chksum!Eop(c) <=> Eop(c)
  BY DEF Chksum!Eop, Eop
<1> QED BY <1>1, <1>2 DEF Chksum!Invoke, Chksum!Latch, Latch, Drained, CMove1, CMove0, CRead,
                          SumItem, Incoming, Chksum!IdxMod

\* A register that holds at most one item still does when it is loaded.
LEMMA HeldLatch ==
    ASSUME NEW r, NEW q, Held(r), Held(q), NEW load, NEW left
    PROVE  Held(Latch(load, q, left, r))
<1>1. <<>> \in Seq(ChksumItems) /\ Len(<<>>) <= 1
  OBVIOUS
<1> QED BY <1>1 DEF Held, Latch

\* The length of a register.
LEMMA HeldFacts ==
    ASSUME NEW r, Held(r)
    PROVE  /\ Len(r) \in Nat
           /\ r = <<>> => Len(r) = 0
           /\ r # <<>> => Len(r) = 1
<1>1. Len(r) \in Nat /\ Len(r) <= 1 /\ (r # <<>> => Len(r) # 0)
  BY DEF Held
<1>2. \A n \in Nat : n <= 1 /\ n # 0 => n = 1
  OBVIOUS
<1>3. r = <<>> => Len(r) = 0
  OBVIOUS
<1> QED BY <1>1, <1>2, <1>3

\* The places are numbers, and what stands in a register was sent.
LEMMA ChksumPlaces ==
    ASSUME ChksumTypes, ChksumInPlace
    PROVE  /\ Len(c_out) \in Nat /\ Len(c_sent) \in Nat /\ Len(c_in) \in Nat
           /\ AtC2 \in Nat \ {0} /\ AtC1 \in Nat \ {0} /\ AtC0 \in Nat \ {0} /\ AtCIn \in Nat \ {0}
           /\ Len(c_out) <= Len(c_sent) /\ AtC0 - 1 <= Len(c_sent)
           /\ c3 # <<>> => Len(c_out) + 1 \in 1..Len(c_sent)
           /\ AtCIn = Len(c_sent) - Len(c_in) + 1
           /\ c2 # <<>> => AtC1 = AtC2 + 1 /\ AtC2 \in 1..Len(c_sent)
           /\ c1 # <<>> => AtC0 = AtC1 + 1 /\ AtC1 \in 1..Len(c_sent)
           /\ c0 # <<>> => AtCIn = AtC0 + 1 /\ AtC0 \in 1..Len(c_sent)
<1> DEFINE n == Len(c_sent)
           c == Len(c_in)
           k == Len(c_out)
           z0 == Len(c0)
           z1 == Len(c1)
           z2 == Len(c2)
           z3 == Len(c3)
<1>1. n \in Nat /\ c \in Nat /\ k \in Nat
  BY DEF ChksumTypes
<1>2. /\ z0 \in Nat /\ (c0 # <<>> => z0 = 1) /\ z1 \in Nat /\ (c1 # <<>> => z1 = 1)
      /\ z2 \in Nat /\ (c2 # <<>> => z2 = 1) /\ z3 \in Nat /\ (c3 # <<>> => z3 = 1)
  BY HeldFacts DEF ChksumTypes
<1>3. /\ AtC2 = k + z3 + 1 /\ AtC1 = AtC2 + z2 /\ AtC0 = AtC1 + z1 /\ AtCIn = AtC0 + z0
      /\ AtCIn + c = n + 1
  BY DEF AtC2, AtC1, AtC0, AtCIn, ChksumInPlace
<1> HIDE DEF n, c, k, z0, z1, z2, z3
<1>4. /\ AtC2 \in Nat \ {0} /\ AtC1 \in Nat \ {0} /\ AtC0 \in Nat \ {0} /\ AtCIn \in Nat \ {0}
      /\ k <= n /\ AtC0 - 1 <= n /\ AtCIn = n - c + 1
  BY <1>1, <1>2, <1>3
<1>5. /\ c3 # <<>> => k + 1 \in 1..n
      /\ c2 # <<>> => AtC1 = AtC2 + 1 /\ AtC2 \in 1..n
  BY <1>1, <1>2, <1>3, <1>4
<1>6. /\ c1 # <<>> => AtC0 = AtC1 + 1 /\ AtC1 \in 1..n
      /\ c0 # <<>> => AtCIn = AtC0 + 1 /\ AtC0 \in 1..n
  BY <1>1, <1>2, <1>3, <1>4
<1> QED BY <1>1, <1>4, <1>5, <1>6, Zenon DEF n, c, k

\* The sum goes on with the beat that enters c1, whichever frame was before.
LEMMA SumGoesOn ==
    ASSUME NEW b, Indexed(b), b.pkt \in ChksumPackets,
           b.n = 1 \/ \E a : a.pkt = b.pkt /\ b.n = a.n + 1 /\ a.n \in Nat \ {0} /\ SumAt(a, checksum)
    PROVE  SumAt(b, Chksum!Accumulate(ToSum(b)))
<1> DEFINE p1 == b.pkt.part[1]
           p2 == b.pkt.part[2]
           p3 == b.pkt.part[3]
           p4 == b.pkt.part[4]
           i == ToSum(b)
<1>1. /\ p1 \in Nat /\ p1 <= 262140 /\ p2 \in Nat /\ p2 <= 262140
      /\ p3 \in Nat /\ p3 <= 262140 /\ p4 \in Nat /\ p4 <= 262140
  <2>1. 1 \in 1..4 /\ 2 \in 1..4 /\ 3 \in 1..4 /\ 4 \in 1..4
    OBVIOUS
  <2> QED BY <2>1, PartAssumption
<1>2. \A x \in Nat : x <= 1048560 => x % 16777216 = x
  OBVIOUS
<1>5. i.idx = b.n - 1 /\ i.n = b.n /\ i.pkt = b.pkt /\ b.n \in Nat \ {0}
  BY DEF ToSum, Indexed
<1>6. Chksum!HeaderSum(b.pkt) = p1 + p2 + p3 + p4
  BY DEF Chksum!HeaderSum
<1>7. \A j \in 1..4 : b.n <= 5 => Chksum!PartIn(i, j) = b.pkt.part[j]
  BY <1>5 DEF Chksum!PartIn
<1> HIDE DEF i, p1, p2, p3, p4
<1>8. CASE b.n = 1
  BY <1>8 DEF SumAt
<1>9. CASE b.n = 2
  <2>1. i.idx = 1 /\ Chksum!PartIn(i, 1) = p1
    BY <1>5, <1>7, <1>9 DEF p1
  <2>2. Chksum!Accumulate(i) = p1
    BY <2>1 DEF Chksum!Accumulate
  <2> QED BY <1>9, <2>2 DEF SumAt, i, p1
<1>10. CASE b.n = 3
  <2>1. i.idx = 2 /\ i.idx # 1 /\ Chksum!PartIn(i, 2) = p2
    BY <1>5, <1>7, <1>10 DEF p2
  <2>2. checksum = p1
    BY <1>10 DEF SumAt, p1
  <2>3. Chksum!Accumulate(i) = (checksum + Chksum!PartIn(i, 2)) % 16777216
    BY <2>1 DEF Chksum!Accumulate, Chksum!SumMod
  <2>4. p1 + p2 \in Nat /\ p1 + p2 <= 1048560
    BY <1>1
  <2>5. Chksum!Accumulate(i) = p1 + p2
    BY <1>2, <2>1, <2>2, <2>3, <2>4
  <2> QED BY <1>10, <2>5 DEF SumAt, i, p1, p2
<1>11. CASE b.n = 4
  <2>1. i.idx = 3 /\ i.idx # 1 /\ Chksum!PartIn(i, 3) = p3
    BY <1>5, <1>7, <1>11 DEF p3
  <2>2. checksum = p1 + p2
    BY <1>11 DEF SumAt, p1, p2
  <2>3. Chksum!Accumulate(i) = (checksum + Chksum!PartIn(i, 3)) % 16777216
    BY <2>1 DEF Chksum!Accumulate, Chksum!SumMod
  <2>4. p1 + p2 + p3 \in Nat /\ p1 + p2 + p3 <= 1048560
    BY <1>1
  <2>5. Chksum!Accumulate(i) = p1 + p2 + p3
    BY <1>2, <2>1, <2>2, <2>3, <2>4
  <2> QED BY <1>11, <2>5 DEF SumAt, i, p1, p2, p3
<1>12. CASE b.n = 5
  <2>1. i.idx = 4 /\ i.idx # 1 /\ i.idx \notin {2, 3} /\ Chksum!PartIn(i, 4) = p4
    BY <1>5, <1>7, <1>12 DEF p4
  <2>2. checksum = p1 + p2 + p3
    BY <1>12 DEF SumAt, p1, p2, p3
  <2>3. Chksum!Accumulate(i) = Chksum!FoldOnce((checksum + Chksum!PartIn(i, 4)) % 16777216)
    BY <2>1 DEF Chksum!Accumulate, Chksum!SumMod
  <2>6. p1 + p2 + p3 + p4 \in Nat /\ p1 + p2 + p3 + p4 <= 1048560
    BY <1>1
  <2>4. (checksum + Chksum!PartIn(i, 4)) % 16777216 = p1 + p2 + p3 + p4
    BY <1>2, <2>1, <2>2, <2>6
  <2>5. Chksum!Accumulate(i) = Chksum!FoldOnce(Chksum!HeaderSum(b.pkt))
    BY <1>6, <2>3, <2>4
  <2> QED BY <1>12, <2>5 DEF SumAt, i
<1>13. CASE b.n > 5
  <2>1. i.idx # 1 /\ i.idx \notin {2, 3} /\ i.idx # 4
    BY <1>5, <1>13
  <2>2. Chksum!Accumulate(i) = checksum
    BY <2>1 DEF Chksum!Accumulate
  <2>3. PICK a : a.pkt = b.pkt /\ b.n = a.n + 1 /\ a.n \in Nat \ {0} /\ SumAt(a, checksum)
    BY <1>5, <1>13
  <2>4. a.n >= 5
    BY <1>5, <1>13, <2>3
  <2>5. checksum = Chksum!FoldOnce(Chksum!HeaderSum(b.pkt))
    BY <2>3, <2>4 DEF SumAt
  <2>6. b.n # 2 /\ b.n # 3 /\ b.n # 4
    BY <1>13
  <2> QED BY <2>2, <2>5, <2>6 DEF SumAt, i
<1> QED BY <1>5, <1>8, <1>9, <1>10, <1>11, <1>12, <1>13

\* Neighbours in the stream.
LEMMA ChksumNeighbours ==
    ASSUME ShortChksumFrames, ChksumInv, NEW i \in 1..Len(c_sent)
    PROVE  /\ c_sent[i] \in Chksum!Beats /\ Indexed(c_sent[i]) /\ c_sent[i].pkt \in ChksumPackets
           /\ i = 1 => c_sent[i].n = 1
           /\ i # 1 => /\ i - 1 \in 1..Len(c_sent) /\ Indexed(c_sent[i - 1])
                       /\ \/ c_sent[i].n = 1
                          \/ c_sent[i - 1].pkt = c_sent[i].pkt /\ c_sent[i].n = c_sent[i - 1].n + 1
<1>1. c_sent \in Seq(Chksum!Beats) /\ Framed(c_sent) /\ Len(c_sent) \in Nat
  BY DEF ChksumInv, ChksumTypes
<1>2. \A j \in 1..Len(c_sent) : /\ c_sent[j] \in Chksum!Beats /\ Indexed(c_sent[j])
                                /\ c_sent[j].pkt \in ChksumPackets
  BY <1>1, ChksumBeats
<1>3. i = 1 => c_sent[i].n = 1
  <2>1. c_sent # <<>>
    <3>1. c_sent = <<>> => Len(c_sent) = 0
      OBVIOUS
    <3> QED BY <1>1, <3>1
  <2> QED BY <1>1, <2>1 DEF Framed, Sop
<1>4. CASE i # 1
  <2>1. i - 1 \in 1..Len(c_sent) - 1 /\ (i - 1) + 1 = i /\ i - 1 \in 1..Len(c_sent)
    BY <1>1, <1>4
  <2>2. Follows(c_sent[i - 1], c_sent[i])
    <3>1. \A j \in 1..Len(c_sent) - 1 : Follows(c_sent[j], c_sent[j + 1])
      BY <1>1 DEF Framed, Contiguous
    <3> QED BY <2>1, <3>1
  <2>3. \/ c_sent[i].n = 1
        \/ c_sent[i - 1].pkt = c_sent[i].pkt /\ c_sent[i].n = c_sent[i - 1].n + 1
    BY <2>2 DEF Follows, Sop
  <2> QED BY <1>2, <1>4, <2>1, <2>3
<1> QED BY <1>2, <1>3, <1>4

\* The sum register is right for the beat that enters c1.
LEMMA SumEntered ==
    ASSUME ShortChksumFrames, ChksumInv, c0 # <<>>
    PROVE  SumAt(c_sent[AtC0], Chksum!Accumulate(c0[1]))
<1> DEFINE b == c_sent[AtC0]
           a == c_sent[AtC0 - 1]
<1>1. AtC0 \in 1..Len(c_sent) /\ AtC0 \in Nat
  BY ChksumPlaces DEF ChksumInv
<1>2. c0[1] = ToSum(b)
  BY <1>1 DEF ChksumInv, ChksumInPlace, AllToSum
<1>3. Indexed(b) /\ b.pkt \in ChksumPackets
  BY <1>1, ChksumNeighbours
<1>4. AtC0 # 1 => SumAt(a, checksum)
  BY DEF ChksumInv, SumRight
<1>5. b.n = 1 \/ (a.pkt = b.pkt /\ b.n = a.n + 1 /\ a.n \in Nat \ {0} /\ SumAt(a, checksum))
  <2>1. CASE AtC0 = 1
    BY <1>1, <2>1, ChksumNeighbours
  <2>2. CASE AtC0 # 1
    <3>1. Indexed(a) /\ (b.n = 1 \/ (a.pkt = b.pkt /\ b.n = a.n + 1))
      BY <1>1, <2>2, ChksumNeighbours
    <3> QED BY <1>4, <2>2, <3>1 DEF Indexed
  <2> QED BY <2>1, <2>2
<1> HIDE DEF a, b
<1>6. SumAt(b, Chksum!Accumulate(ToSum(b)))
  BY <1>3, <1>5, SumGoesOn
<1> QED BY <1>2, <1>6 DEF b

\* A beat that leaves c2 is done: the sum is complete, and it is the sum of the
\* frame it belongs to.
LEMMA SumComplete ==
    ASSUME ShortChksumFrames, ChksumInv, c2 # <<>>, Chksum!MayLeave
    PROVE  Chksum!Completed(c2[1]) = Summed(c_sent[AtC2])
<1> DEFINE b == c_sent[AtC2]
           d == c_sent[AtC1]
<1>1. AtC2 \in 1..Len(c_sent) /\ AtC2 \in Nat /\ AtC1 = AtC2 + 1
  BY ChksumPlaces DEF ChksumInv
<1>2. c2[1] = ToSum(b)
  BY <1>1 DEF ChksumInv, ChksumInPlace, AllToSum
<1>3. Indexed(b)
  BY <1>1, ChksumNeighbours
<1>4. CASE b.n # 4
  <2>1. c2[1].idx # 3
    BY <1>2, <1>3, <1>4 DEF ToSum, Indexed, b
  <2>2. Chksum!Completed(c2[1]) = ToSum(b)
    BY <1>2, <2>1 DEF Chksum!Completed
  <2> QED BY <1>4, <2>2 DEF ToSum, Summed
<1>5. CASE b.n = 4
  <2>1. c2[1].idx = 3
    BY <1>2, <1>5 DEF ToSum, b
  <2>2. c1 # <<>> /\ c1[1].idx = 4
    BY <2>1 DEF Chksum!MayLeave
  <2>3. AtC1 \in 1..Len(c_sent) /\ AtC1 \in Nat /\ AtC0 = AtC1 + 1 /\ AtC1 # 1 /\ AtC1 - 1 = AtC2
    BY <1>1, <2>2, ChksumPlaces DEF ChksumInv
  <2>4. c1[1] = ToSum(d)
    BY <2>2, <2>3 DEF ChksumInv, ChksumInPlace, AllToSum
  <2>5. Indexed(d) /\ (d.n = 1 \/ b.pkt = d.pkt)
    BY <2>3, ChksumNeighbours
  <2>6. d.n = 5
    <3>1. c1[1].idx = d.n - 1
      BY <2>4 DEF ToSum
    <3> HIDE DEF d
    <3> QED BY <2>2, <2>5, <3>1 DEF Indexed
  <2>7. SumAt(d, checksum)
    <3>1. AtC0 # 1 /\ AtC0 - 1 = AtC1
      BY <1>1, <2>3
    <3> QED BY <3>1 DEF ChksumInv, SumRight
  <2>8. checksum = Chksum!FoldOnce(Chksum!HeaderSum(b.pkt))
    <3> HIDE DEF d
    <3> QED BY <2>5, <2>6, <2>7 DEF SumAt
  <2> HIDE DEF b
  <2>9. Chksum!Completed(c2[1])
          = [ToSum(b) EXCEPT !.field = Chksum!HeaderChecksum(Chksum!HeaderSum(b.pkt))]
    BY <1>2, <2>1, <2>8 DEF Chksum!Completed, Chksum!HeaderChecksum
  <2> QED BY <1>5, <2>9 DEF ToSum, Summed, b
<1> QED BY <1>4, <1>5

\* Items made from beats of the stream.
LEMMA ChksumItemsOf ==
    ASSUME NEW b \in Chksum!Beats
    PROVE  ToSum(b) \in ChksumItems /\ Summed(b) \in ChksumItems
BY DEF ChksumItems

\* A beat that is written goes to the end.
LEMMA ChksumSupply ==
    ASSUME ShortChksumFrames, ChksumInv, NEW b \in Chksum!NextBeats(c_sent), Chksum!Supply(b)
    PROVE  ChksumInv'
<1>1. /\ c_sent' = Append(c_sent, b) /\ c_in' = Append(c_in, b)
      /\ UNCHANGED <<c_idx, checksum, c0, c1, c2, c3, c_out>>
  BY DEF Chksum!Supply
<1>2. c_sent \in Seq(Chksum!Beats) /\ c_in \in Seq(Chksum!Beats) /\ Framed(c_sent)
  BY DEF ChksumInv, ChksumTypes
<1>3. b \in Chksum!Beats /\ Framed(Append(c_sent, b))
  BY <1>2, ChksumBeats
<1>4. ChksumTypes' /\ Framed(c_sent)'
  <2>1. Append(c_in, b) \in Seq(Chksum!Beats) /\ Append(c_sent, b) \in Seq(Chksum!Beats)
    BY <1>2, <1>3
  <2> QED BY <1>1, <1>3, <2>1 DEF ChksumInv, ChksumTypes, Held
<1>5. Reads(c_sent, c_in, c_idx)'
  BY <1>1, <1>2, <1>3, WriteReads DEF ChksumInv
<1>6. /\ Len(c_sent') = Len(c_sent) + 1 /\ Len(c_in') = Len(c_in) + 1
      /\ \A i \in 1..Len(c_sent) : c_sent'[i] = c_sent[i]
  BY <1>1, <1>2, <1>3
<1>7. AtC2' = AtC2 /\ AtC1' = AtC1 /\ AtC0' = AtC0 /\ AtCIn' = AtCIn
  BY <1>1 DEF AtC2, AtC1, AtC0, AtCIn
<1>8. /\ Len(c_out) \in Nat /\ Len(c_sent) \in Nat /\ Len(c_in) \in Nat
      /\ AtC0 \in Nat \ {0} /\ AtCIn \in Nat \ {0}
      /\ Len(c_out) <= Len(c_sent) /\ AtC0 - 1 <= Len(c_sent)
      /\ c3 # <<>> => Len(c_out) + 1 \in 1..Len(c_sent)
      /\ c2 # <<>> => AtC2 \in 1..Len(c_sent)
      /\ c1 # <<>> => AtC1 \in 1..Len(c_sent)
      /\ c0 # <<>> => AtC0 \in 1..Len(c_sent)
  BY ChksumPlaces DEF ChksumInv
<1>9. \A i \in 1..Len(c_sent) : AllSummed'[i] = AllSummed[i] /\ AllToSum'[i] = AllToSum[i]
  <2> TAKE i \in 1..Len(c_sent)
  <2>1. i \in Nat /\ c_sent'[i] = c_sent[i]
    BY <1>6, <1>8
  <2> QED BY <2>1 DEF AllSummed, AllToSum
<1>10. ChksumInPlace'
  <2>1. AtCIn' + Len(c_in') = Len(c_sent') + 1
    BY <1>6, <1>7, <1>8 DEF ChksumInv, ChksumInPlace
  <2>2. c0' # <<>> => c0'[1] = AllToSum'[AtC0']
    BY <1>1, <1>7, <1>8, <1>9 DEF ChksumInv, ChksumInPlace
  <2>3. c1' # <<>> => c1'[1] = AllToSum'[AtC1']
    BY <1>1, <1>7, <1>8, <1>9 DEF ChksumInv, ChksumInPlace
  <2>4. c2' # <<>> => c2'[1] = AllToSum'[AtC2']
    BY <1>1, <1>7, <1>8, <1>9 DEF ChksumInv, ChksumInPlace
  <2>5. c3' # <<>> => c3'[1] = AllSummed'[Len(c_out') + 1]
    BY <1>1, <1>8, <1>9 DEF ChksumInv, ChksumInPlace
  <2>6. \A i \in 1..Len(c_out') : c_out'[i] = AllSummed'[i]
    <3>1. \A i \in 1..Len(c_out) : i \in 1..Len(c_sent)
      BY <1>8
    <3> QED BY <1>1, <1>9, <3>1 DEF ChksumInv, ChksumInPlace
  <2> QED BY <2>1, <2>2, <2>3, <2>4, <2>5, <2>6 DEF ChksumInPlace
<1>11. SumRight'
  <2>1. AtC0 # 1 => AtC0 - 1 \in 1..Len(c_sent)
    BY <1>8
  <2>2. AtC0 # 1 => c_sent'[AtC0 - 1] = c_sent[AtC0 - 1]
    BY <1>6, <2>1
  <2>3. AtC0 # 1 => SumAt(c_sent[AtC0 - 1], checksum)
    BY DEF ChksumInv, SumRight
  <2> SUFFICES ASSUME AtC0' # 1 PROVE SumAt(c_sent'[AtC0' - 1], checksum')
    BY DEF SumRight, SumAt
  <2> QED BY <1>1, <1>7, <2>2, <2>3
<1> QED BY <1>4, <1>5, <1>10, <1>11 DEF ChksumInv

\* What an invocation reads is what comes next.
LEMMA ChksumReads ==
    ASSUME ShortChksumFrames, ChksumInv, c_in # <<>>
    PROVE  /\ SumItem = AllToSum[AtCIn] /\ SumItem \in ChksumItems
           /\ Tail(c_in) \in Seq(Chksum!Beats) /\ Len(Tail(c_in)) = Len(c_in) - 1
           /\ Reads(c_sent, Tail(c_in), IF Eop(c_in[1]) THEN 0 ELSE (c_idx + 1) % 256)
<1>1. /\ c_in \in Seq(Chksum!Beats) /\ c_sent \in Seq(Chksum!Beats) /\ Framed(c_sent)
      /\ Reads(c_sent, c_in, c_idx)
  BY DEF ChksumInv, ChksumTypes
<1>2. \A b \in Chksum!Beats : Indexed(b)
  BY ChksumBeats
<1>3. /\ c_in[1] = c_sent[Len(c_sent) - Len(c_in) + 1]
      /\ c_in[1] \in Chksum!Beats /\ c_idx = c_in[1].n - 1
      /\ Reads(c_sent, Tail(c_in), IF Eop(c_in[1]) THEN 0 ELSE (c_idx + 1) % 256)
  BY <1>1, <1>2, ReadNext
<1>4. AtCIn = Len(c_sent) - Len(c_in) + 1 /\ AtCIn \in Nat
  BY ChksumPlaces DEF ChksumInv
<1>5. SumItem = ToSum(c_in[1])
  BY <1>3 DEF SumItem, ToSum
<1>6. SumItem = AllToSum[AtCIn] /\ SumItem \in ChksumItems
  BY <1>3, <1>4, <1>5, ChksumItemsOf DEF AllToSum
<1>7. Tail(c_in) \in Seq(Chksum!Beats) /\ Len(Tail(c_in)) = Len(c_in) - 1
  BY <1>1
<1> QED BY <1>3, <1>6, <1>7

\* An invocation keeps every beat in its place and the sum right.
LEMMA ChksumInvoke ==
    ASSUME ShortChksumFrames, ChksumInv, NEW accepting \in BOOLEAN, Chksum!Invoke(accepting)
    PROVE  ChksumInv'
<1> DEFINE m2 == CMove2(accepting)
           m1 == CMove1(accepting)
           m0 == CMove0(accepting)
           rd == CRead(accepting)
           g2 == IF m2 THEN 1 ELSE 0
           g1 == IF m1 THEN 1 ELSE 0
           g0 == IF m0 THEN 1 ELSE 0
           gr == IF rd THEN 1 ELSE 0
           done == <<Chksum!Completed(c2[1])>>
<1>1. /\ c_out' = Drained(c_out, c3, accepting)
      /\ c3' = Latch(m2, done, accepting, c3)
      /\ c2' = Latch(m1, c1, m2, c2)
      /\ c1' = Latch(m0, c0, m1, c1)
      /\ c0' = Latch(rd, Incoming, m0, c0)
      /\ checksum' = IF m0 THEN Chksum!Accumulate(c0[1]) ELSE checksum
      /\ rd => c_in' = Tail(c_in) /\ c_idx' = IF Eop(c_in[1]) THEN 0 ELSE (c_idx + 1) % 256
      /\ ~rd => c_in' = c_in /\ c_idx' = c_idx
      /\ c_sent' = c_sent
  BY ChksumRegisters
<1>2. /\ m2 => c2 # <<>> /\ (c3 = <<>> \/ accepting) /\ Chksum!MayLeave
      /\ m1 => c1 # <<>> /\ (c2 = <<>> \/ m2)
      /\ m0 => c0 # <<>> /\ (c1 = <<>> \/ m1)
      /\ rd => c_in # <<>> /\ Incoming # <<>> /\ (c0 = <<>> \/ m0)
  BY DEF CMove2, CMove1, CMove0, CRead, Incoming
<1>3. m2 \in BOOLEAN /\ m1 \in BOOLEAN /\ m0 \in BOOLEAN /\ rd \in BOOLEAN
  BY DEF CMove2, CMove1, CMove0, CRead
<1>4. /\ Len(c_out) \in Nat /\ Len(c_sent) \in Nat /\ Len(c_in) \in Nat
      /\ AtC2 \in Nat \ {0} /\ AtC1 \in Nat \ {0} /\ AtC0 \in Nat \ {0} /\ AtCIn \in Nat \ {0}
      /\ AtCIn = Len(c_sent) - Len(c_in) + 1
      /\ c2 # <<>> => AtC2 \in 1..Len(c_sent)
  BY ChksumPlaces DEF ChksumInv
<1>5. /\ ChksumTypes /\ ChksumInPlace /\ Framed(c_sent) /\ Reads(c_sent, c_in, c_idx) /\ SumRight
      /\ Held(c0) /\ Held(c1) /\ Held(c2) /\ Held(c3)
      /\ \A i \in 1..Len(c_sent) : c_sent[i] \in Chksum!Beats
  BY DEF ChksumInv, ChksumTypes
<1>6. AllToSum' = AllToSum /\ AllSummed' = AllSummed
  BY <1>1 DEF AllToSum, AllSummed
<1>7. Held(Incoming) /\ (Incoming # <<>> => Incoming[1] = AllToSum[AtC0 + Len(c0)])
  <2>1. AtCIn = AtC0 + Len(c0)
    BY DEF AtCIn
  <2>2. CASE c_in = <<>>
    BY <2>2 DEF Incoming, Held
  <2>3. CASE c_in # <<>>
    <3>1. SumItem \in ChksumItems /\ SumItem = AllToSum[AtCIn]
      BY <2>3, ChksumReads
    <3>2. Incoming = <<SumItem>> /\ <<SumItem>>[1] = SumItem
      BY <2>3 DEF Incoming
    <3>3. Held(<<SumItem>>)
      BY <3>1 DEF Held
    <3> QED BY <2>1, <3>1, <3>2, <3>3
  <2> QED BY <2>2, <2>3
<1>8. /\ c_out' \in Seq(ChksumItems) /\ Held(c3')
      /\ \A i \in 1..Len(c_out') : c_out'[i] = AllSummed[i]
      /\ c3' # <<>> => c3'[1] = AllSummed[Len(c_out') + 1]
      /\ Len(c_out') + Len(c3') = Len(c_out) + Len(c3) + g2
  <2>1. c_out \in Seq(ChksumItems) /\ c3 \in Seq(ChksumItems) /\ Len(c3) <= 1
    BY <1>5 DEF ChksumTypes, Held
  <2>2. /\ \A i \in 1..Len(c_out) : c_out[i] = AllSummed[i]
        /\ c3 # <<>> => c3[1] = AllSummed[Len(c_out) + 1]
    BY <1>5 DEF ChksumInPlace
  <2>3. m2 => done[1] = AllSummed[Len(c_out) + Len(c3) + 1] /\ done \in Seq(ChksumItems) /\ Len(done) = 1
    <3> SUFFICES ASSUME m2
                 PROVE  done[1] = AllSummed[Len(c_out) + Len(c3) + 1] /\ done \in Seq(ChksumItems)
                        /\ Len(done) = 1
      OBVIOUS
    <3>1. c2 # <<>> /\ Chksum!MayLeave
      BY <1>2
    <3>2. Chksum!Completed(c2[1]) = Summed(c_sent[AtC2])
      BY <3>1, SumComplete
    <3>3. Summed(c_sent[AtC2]) \in ChksumItems
      BY <1>4, <1>5, <3>1, ChksumItemsOf
    <3>4. AllSummed[Len(c_out) + Len(c3) + 1] = Summed(c_sent[AtC2])
      BY <1>4 DEF AllSummed, AtC2
    <3> QED BY <3>2, <3>3, <3>4
  <2>4. m2 => done \in Seq(ChksumItems) /\ Len(done) = 1 /\ (c3 = <<>> \/ accepting)
    BY <1>2, <2>3
  <2>5. m2 => done[1] = AllSummed[Len(c_out) + Len(c3) + 1]
    BY <2>3
  <2> HIDE DEF m2, done
  <2>6. /\ Drained(c_out, c3, accepting) \in Seq(ChksumItems)
        /\ Latch(m2, done, accepting, c3) \in Seq(ChksumItems) /\ Len(Latch(m2, done, accepting, c3)) <= 1
        /\ \A i \in 1..Len(Drained(c_out, c3, accepting)) : Drained(c_out, c3, accepting)[i] = AllSummed[i]
        /\ Latch(m2, done, accepting, c3) # <<>>
             => Latch(m2, done, accepting, c3)[1] = AllSummed[Len(Drained(c_out, c3, accepting)) + 1]
        /\ Len(Drained(c_out, c3, accepting)) + Len(Latch(m2, done, accepting, c3))
             = Len(c_out) + Len(c3) + (IF m2 THEN 1 ELSE 0)
    BY <1>3, <2>1, <2>2, <2>4, <2>5, SinkMoves
  <2> QED BY <1>1, <2>6 DEF g2, Held
<1>9. AtC2' = AtC2 + g2
  <2>1. Len(c_out') \in Nat /\ Len(c3') \in Nat /\ Len(c_out) \in Nat /\ Len(c3) \in Nat /\ g2 \in Nat
    BY <1>4, <1>5, <1>8, HeldFacts
  <2>2. Len(c_out') + Len(c3') = Len(c_out) + Len(c3) + g2
    BY <1>8
  <2>3. AtC2 = Len(c_out) + Len(c3) + 1 /\ AtC2' = Len(c_out') + Len(c3') + 1
    BY DEF AtC2
  <2> HIDE DEF g2
  <2> QED BY <2>1, <2>2, <2>3
<1>10. /\ Held(c2') /\ (c2' # <<>> => c2'[1] = AllToSum[AtC2'])
       /\ AtC1' = AtC1 + g1
  <2>1. /\ c2 # <<>> => c2[1] = AllToSum[AtC2]
        /\ c1 # <<>> => c1[1] = AllToSum[AtC2 + Len(c2)]
    BY <1>5 DEF ChksumInPlace, AtC1
  <2>2. /\ c2 \in Seq(ChksumItems) /\ Len(c2) <= 1 /\ c1 \in Seq(ChksumItems) /\ Len(c1) <= 1
        /\ AtC2 \in Nat
    BY <1>4, <1>5 DEF Held
  <2>3. (m2 => c2 # <<>>) /\ (m1 => c1 # <<>> /\ (c2 = <<>> \/ m2))
    BY <1>2
  <2> HIDE DEF m2, m1
  <2>4. /\ Latch(m1, c1, m2, c2) # <<>> => Latch(m1, c1, m2, c2)[1] = AllToSum[AtC2 + (IF m2 THEN 1 ELSE 0)]
        /\ Len(Latch(m1, c1, m2, c2)) = Len(c2) + (IF m1 THEN 1 ELSE 0) - (IF m2 THEN 1 ELSE 0)
    BY <1>3, <2>1, <2>2, <2>3, RegisterMoves, SMTT(30)
  <2>5. Held(c2')
    BY <1>1, <1>5, HeldLatch
  <2>6. Len(c2') = Len(c2) + g1 - g2 /\ (c2' # <<>> => c2'[1] = AllToSum[AtC2 + g2])
    BY <1>1, <2>4
  <2>7. AtC1' = AtC2' + Len(c2') /\ AtC1 = AtC2 + Len(c2) /\ Len(c2) \in Nat /\ g1 \in Nat /\ g2 \in Nat
    BY <1>5, HeldFacts DEF AtC1
  <2> HIDE DEF g1, g2
  <2>8. AtC1' = AtC1 + g1
    BY <1>4, <1>9, <2>6, <2>7
  <2> QED BY <1>9, <2>5, <2>6, <2>8
<1>11. /\ Held(c1') /\ (c1' # <<>> => c1'[1] = AllToSum[AtC1'])
       /\ AtC0' = AtC0 + g0
  <2>1. /\ c1 # <<>> => c1[1] = AllToSum[AtC1]
        /\ c0 # <<>> => c0[1] = AllToSum[AtC1 + Len(c1)]
    BY <1>5 DEF ChksumInPlace, AtC0
  <2>2. /\ c1 \in Seq(ChksumItems) /\ Len(c1) <= 1 /\ c0 \in Seq(ChksumItems) /\ Len(c0) <= 1
        /\ AtC1 \in Nat
    BY <1>4, <1>5 DEF Held
  <2>3. (m1 => c1 # <<>>) /\ (m0 => c0 # <<>> /\ (c1 = <<>> \/ m1))
    BY <1>2
  <2> HIDE DEF m1, m0
  <2>4. /\ Latch(m0, c0, m1, c1) # <<>> => Latch(m0, c0, m1, c1)[1] = AllToSum[AtC1 + (IF m1 THEN 1 ELSE 0)]
        /\ Len(Latch(m0, c0, m1, c1)) = Len(c1) + (IF m0 THEN 1 ELSE 0) - (IF m1 THEN 1 ELSE 0)
    BY <1>3, <2>1, <2>2, <2>3, RegisterMoves
  <2>5. Held(c1')
    BY <1>1, <1>5, HeldLatch
  <2>6. Len(c1') = Len(c1) + g0 - g1 /\ (c1' # <<>> => c1'[1] = AllToSum[AtC1 + g1])
    BY <1>1, <2>4
  <2>7. AtC0' = AtC1' + Len(c1') /\ AtC0 = AtC1 + Len(c1) /\ Len(c1) \in Nat /\ g0 \in Nat /\ g1 \in Nat
    BY <1>5, HeldFacts DEF AtC0
  <2> HIDE DEF g0, g1
  <2>8. AtC0' = AtC0 + g0
    BY <1>4, <1>10, <2>6, <2>7
  <2> QED BY <1>10, <2>5, <2>6, <2>8
<1>12. /\ Held(c0') /\ (c0' # <<>> => c0'[1] = AllToSum[AtC0'])
       /\ AtCIn' = AtCIn + gr
  <2>1. /\ c0 # <<>> => c0[1] = AllToSum[AtC0]
        /\ Incoming # <<>> => Incoming[1] = AllToSum[AtC0 + Len(c0)]
    BY <1>5, <1>7 DEF ChksumInPlace
  <2>2. /\ c0 \in Seq(ChksumItems) /\ Len(c0) <= 1 /\ Incoming \in Seq(ChksumItems) /\ Len(Incoming) <= 1
        /\ AtC0 \in Nat
    BY <1>4, <1>5, <1>7 DEF Held
  <2>3. (m0 => c0 # <<>>) /\ (rd => Incoming # <<>> /\ (c0 = <<>> \/ m0))
    BY <1>2
  <2> HIDE DEF m0, rd
  <2>4. /\ Latch(rd, Incoming, m0, c0) # <<>>
             => Latch(rd, Incoming, m0, c0)[1] = AllToSum[AtC0 + (IF m0 THEN 1 ELSE 0)]
        /\ Len(Latch(rd, Incoming, m0, c0)) = Len(c0) + (IF rd THEN 1 ELSE 0) - (IF m0 THEN 1 ELSE 0)
    BY <1>3, <2>1, <2>2, <2>3, RegisterMoves
  <2>5. Held(c0')
    BY <1>1, <1>5, <1>7, HeldLatch
  <2>6. Len(c0') = Len(c0) + gr - g0 /\ (c0' # <<>> => c0'[1] = AllToSum[AtC0 + g0])
    BY <1>1, <2>4
  <2>7. AtCIn' = AtC0' + Len(c0') /\ AtCIn = AtC0 + Len(c0) /\ Len(c0) \in Nat /\ gr \in Nat /\ g0 \in Nat
    BY <1>5, HeldFacts DEF AtCIn
  <2> HIDE DEF gr, g0
  <2>8. AtCIn' = AtCIn + gr
    BY <1>4, <1>11, <2>6, <2>7, SMTT(30)
  <2> QED BY <1>11, <2>5, <2>6, <2>8
<1>13. /\ c_in' \in Seq(Chksum!Beats) /\ AtCIn' + Len(c_in') = Len(c_sent') + 1
       /\ Reads(c_sent', c_in', c_idx')
  <2>1. CASE rd
    <3>1. /\ Tail(c_in) \in Seq(Chksum!Beats) /\ Len(Tail(c_in)) = Len(c_in) - 1
          /\ Reads(c_sent, Tail(c_in), IF Eop(c_in[1]) THEN 0 ELSE (c_idx + 1) % 256)
      BY <1>2, <2>1, ChksumReads
    <3>2. AtCIn' = AtCIn + 1
      BY <1>12, <2>1
    <3>3. c_in' = Tail(c_in) /\ c_sent' = c_sent
      BY <1>1, <2>1
    <3>4. Len(c_in') = Len(c_in) - 1
      BY <3>1, <3>3
    <3>5. AtCIn' + Len(c_in') = Len(c_sent) + 1
      BY <1>4, <3>2, <3>4
    <3> QED BY <1>1, <2>1, <3>1, <3>3, <3>5
  <2>2. CASE ~rd
    <3>1. AtCIn' = AtCIn
      BY <1>4, <1>12, <2>2
    <3> QED BY <1>1, <1>5, <2>2, <3>1 DEF ChksumTypes, ChksumInPlace
  <2> QED BY <2>1, <2>2
<1>14. SumRight'
  <2>1. CASE m0
    <3>1. AtC0' - 1 = AtC0
      BY <1>4, <1>11, <2>1
    <3>2. SumAt(c_sent[AtC0], Chksum!Accumulate(c0[1]))
      BY <1>2, <2>1, SumEntered
    <3>3. c_sent' = c_sent /\ checksum' = Chksum!Accumulate(c0[1])
      BY <1>1, <2>1
    <3>4. SumAt(c_sent'[AtC0' - 1], checksum')
      BY <3>1, <3>2, <3>3
    <3> QED BY <3>4 DEF SumRight, SumAt
  <2>2. CASE ~m0
    <3>1. AtC0' = AtC0
      BY <1>4, <1>11, <2>2
    <3>2. c_sent' = c_sent /\ checksum' = checksum
      BY <1>1, <2>2
    <3>3. AtC0 # 1 => SumAt(c_sent[AtC0 - 1], checksum)
      BY <1>5 DEF SumRight
    <3>4. AtC0' # 1 => SumAt(c_sent'[AtC0' - 1], checksum')
      BY <3>1, <3>2, <3>3
    <3> QED BY <3>4 DEF SumRight, SumAt
  <2> QED BY <2>1, <2>2
<1>15. ChksumTypes'
  <2>1. c_sent' \in Seq(Chksum!Beats)
    BY <1>1, <1>5 DEF ChksumTypes
  <2>2. Held(c0)' /\ Held(c1)' /\ Held(c2)' /\ Held(c3)'
    BY <1>8, <1>10, <1>11, <1>12 DEF Held
  <2> QED BY <1>8, <1>13, <2>1, <2>2 DEF ChksumTypes
<1>16. ChksumInPlace'
  BY <1>6, <1>8, <1>10, <1>11, <1>12, <1>13 DEF ChksumInPlace
<1> QED BY <1>1, <1>5, <1>13, <1>14, <1>15, <1>16 DEF ChksumInv

\* The invariant holds in every reachable state.
LEMMA ChksumInvariant == ASSUME ShortChksumFrames PROVE Chksum!Spec => []ChksumInv
<1>1. Chksum!Init => ChksumInv
  <2> SUFFICES ASSUME Chksum!Init PROVE ChksumInv
    OBVIOUS
  <2>1. /\ c_sent = <<>> /\ c_in = <<>> /\ c_out = <<>> /\ c_idx = 0
        /\ c0 = <<>> /\ c1 = <<>> /\ c2 = <<>> /\ c3 = <<>>
    BY DEF Chksum!Init
  <2>2. Framed(c_sent) /\ Reads(c_sent, c_in, c_idx)
    BY <2>1 DEF Framed, Contiguous, Reads
  <2>3. ChksumTypes
    BY <2>1 DEF ChksumTypes, Held
  <2>4. AtC0 = 1 /\ AtCIn = 1
    BY <2>1 DEF AtC2, AtC1, AtC0, AtCIn
  <2>5. ChksumInPlace /\ SumRight
    BY <2>1, <2>4 DEF ChksumInPlace, SumRight
  <2> QED BY <2>2, <2>3, <2>5 DEF ChksumInv
<1>2. ChksumInv /\ [Chksum!Next]_(Chksum!vars) => ChksumInv'
  <2> SUFFICES ASSUME ChksumInv, [Chksum!Next]_(Chksum!vars) PROVE ChksumInv'
    OBVIOUS
  <2>1. ASSUME NEW b \in Chksum!NextBeats(c_sent), Chksum!Supply(b) PROVE ChksumInv'
    BY <2>1, ChksumSupply
  <2>2. ASSUME NEW accepting \in BOOLEAN, Chksum!Invoke(accepting) PROVE ChksumInv'
    BY <2>2, ChksumInvoke
  <2>3. CASE UNCHANGED Chksum!vars
    <3>1. UNCHANGED <<c_in, c_idx, checksum, c0, c1, c2, c3, c_sent, c_out>>
      BY <2>3 DEF Chksum!vars
    <3>2. AllToSum' = AllToSum /\ AllSummed' = AllSummed
      BY <3>1 DEF AllToSum, AllSummed
    <3>3. AtC2' = AtC2 /\ AtC1' = AtC1 /\ AtC0' = AtC0 /\ AtCIn' = AtCIn
      BY <3>1 DEF AtC2, AtC1, AtC0, AtCIn
    <3>4. ChksumTypes' /\ ChksumInPlace'
      BY <3>1, <3>2, <3>3 DEF ChksumInv, ChksumTypes, ChksumInPlace, Held
    <3>5. SumRight' /\ Framed(c_sent)' /\ Reads(c_sent, c_in, c_idx)'
      BY <3>1, <3>3 DEF ChksumInv, SumRight, SumAt
    <3> QED BY <3>4, <3>5 DEF ChksumInv
  <2> QED BY <2>1, <2>2, <2>3 DEF Chksum!Next
<1> QED BY <1>1, <1>2, PTL DEF Chksum!Spec

\* In frames of at most 256 beats, every frame leaves with the checksum that
\* the code computes for its own header, and only the checksum field changes:
\* the one sum register is never overwritten by the next frame before it was
\* used, nor used before the last word was added.
THEOREM SumsOwnHeader ==
    ASSUME ShortChksumFrames PROVE Chksum!Spec => []ChecksumOfOwnHeader
<1>1. ChksumInv => ChecksumOfOwnHeader
  <2> SUFFICES ASSUME ChksumInv, NEW i \in 1..Len(c_out)
               PROVE  c_out[i].field = IF c_out[i].n = 4
                                       THEN Chksum!HeaderChecksum(Chksum!HeaderSum(c_out[i].pkt))
                                       ELSE Chksum!KEPT
    BY DEF ChecksumOfOwnHeader, Chksum!ChecksumOfOwnHeader
  <2>1. i \in Nat
    BY DEF ChksumInv, ChksumTypes
  <2>2. c_out[i] = Summed(c_sent[i])
    BY <2>1 DEF ChksumInv, ChksumInPlace, AllSummed
  <2> QED BY <2>2 DEF Summed
<1> QED BY <1>1, ChksumInvariant, PTL

-----------------------------------------------------------------------------
(* The chain as TLC runs it.                                               *)

\* Whichever of the components runs: with frames of at most 256 beats, exactly
\* the addresses are exchanged, every reply is as good as its request, and
\* every frame gets the checksum of its own header.
THEOREM ChainCorrect ==
    ASSUME ShortFrames, ShortSwapFrames, ShortChksumFrames
    PROVE  ChainSpec => [](OnlyAddressesSwapped /\ RepliesAsGoodAsRequests /\ ChecksumOfOwnHeader)
<1>1. ChainInit => Swap!Init /\ Init /\ Chksum!Init
  BY DEF ChainInit
<1>2. [ChainNext]_<<block, vars, swapVars, chksumVars>>
        => [Swap!Next]_(Swap!vars) /\ [Next]_vars /\ [Chksum!Next]_(Chksum!vars)
  BY DEF ChainNext, swapVars, chksumVars, Swap!vars, Chksum!vars
<1>3. ChainSpec => Swap!Spec
  BY <1>1, <1>2, PTL DEF ChainSpec, Swap!Spec
<1>4. ChainSpec => Spec
  BY <1>1, <1>2, PTL DEF ChainSpec, Spec
<1>5. ChainSpec => Chksum!Spec
  BY <1>1, <1>2, PTL DEF ChainSpec, Chksum!Spec
<1> QED BY <1>3, <1>4, <1>5, SwapsOnlyAddresses, RepliesCorrect, SumsOwnHeader, PTL
=============================================================================
