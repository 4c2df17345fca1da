---------------------------- MODULE I2cBytes_proofs ----------------------------
(***************************************************************************)
(* What the I2C driver delivers, for FIFOs, buffers and retries of any     *)
(* size.                                                                   *)
(*                                                                         *)
(* A transaction is a list of commands that only depends on the call.      *)
(* Progress says how many of them the core has done, and derives from that *)
(* number what is in the FIFOs, on the bus, in the buffer and in the       *)
(* command's remaining work.  Delivered says what has been delivered when  *)
(* a call that is about to report success has seen everything go out or    *)
(* come in.                                                                *)
(***************************************************************************)
EXTENDS I2c_proofs

-----------------------------------------------------------------------------
(* How far the core is with a transaction *)

\* The commands of a transaction: w of them write, the address first, and r read.
WriteCount == IF call.op = "rx" THEN 0 ELSE call.tx + 1
ReadCount == IF call.op = "tx" THEN 0 ELSE call.rx + 1
Step(w, r, i) ==
    Command(IF i = 1 /\ w > 0 THEN WriteAddress
            ELSE IF i <= w THEN i - 1 ELSE IF i = w + 1 THEN ReadAddress ELSE 0,
            w > 0 /\ i = w + 1, i = w + r)

\* What the bus and the target have seen of it after d commands.
Message(n) == [i \in 1..n |-> IF i = 1 THEN WriteAddress ELSE i - 1]
BusAt(w, r, d) == IF d = 0 \/ d = w + r THEN "free" ELSE IF d <= w THEN "write" ELSE "read"
MsgsAt(w, d) ==
    IF d <= w THEN <<Message(d)>>
    ELSE IF w > 0 THEN <<Message(w), <<ReadAddress>>>> ELSE <<<<ReadAddress>>>>

\* The bytes received so far: those in the buffer that is being filled, and those in the
\* receive FIFO.
Stored == IF call.at \in AtWork THEN call.got ELSE IF irq.busy = 2 THEN irq.got ELSE <<>>
Stream == Stored \o core.rx

\* The core has done d commands of the transaction and been given more of them.
OnIt == IF core.cur = Nothing THEN 0 ELSE 1
Given(d) == d + OnIt + Len(core.cmds)
OnBus(w, r, d) ==
    /\ core.en /\ ~Failed(core)
    /\ w + r > 0 /\ w # 1 /\ r # 1
    /\ Given(d) <= w + r
    /\ core.cur # Nothing => core.cur = Step(w, r, d + 1)
    /\ \A i \in 1..Len(core.cmds) : core.cmds[i] = Step(w, r, d + OnIt + i)
    /\ core.bus = BusAt(w, r, d)
    /\ d > 0 => target.msgs = MsgsAt(w, d) /\ target.sent = IF d <= w THEN 0 ELSE d - w - 1
    /\ d <= w => Stream = <<>>

\* A call counts on the core: it has written its commands, or some of them.
Counting ==
    \/ call.at \in AtWork
    \/ call.at = "wait" /\ call.status = SUCCESS
    \/ call.at = "return" /\ FirstOfTwo /\ call.status = SUCCESS
    \/ call.at = "begin" /\ call.phase = 2

\* The commands up to the end of the phase.
End(w, r) == IF call.op = "tx_rx" /\ (call.phase = 1 \/ call.at = "begin") THEN w ELSE w + r

\* The transaction is the one the call, or the interrupt routine, is at.
Owned(w, r, d) ==
    /\ irq.busy = 1 => r = 0
    /\ irq.busy = 2 => r = irq.want + 1
    /\ Counting =>
         /\ w = WriteCount /\ r = ReadCount
         /\ call.at \in {"cmd", "check"} =>
              /\ Given(d) + Len(call.todo) = End(w, r)
              /\ \A i \in 1..Len(call.todo) : call.todo[i] = Step(w, r, Given(d) + i)
         /\ call.at \notin {"cmd", "check"} => Given(d) = End(w, r)

Live == core.en /\ ~Failed(core) /\ isr = "off"
Quiet == core.cur = Nothing /\ core.cmds = <<>> /\ core.bus = "free"

\* Either the core has nothing to do, and no call counts on it unless it is off or has
\* failed, or it is at work on a transaction.
Session ==
    \/ Quiet /\ (Live => ~Counting)
    \/ \E w \in Nat, r \in Nat, d \in Nat : OnBus(w, r, d) /\ Owned(w, r, d)

\* The bytes s are some of the first n, in order.
OrderedBytes(s, n) ==
    /\ \A i \in 1..Len(s) : s[i] \in 1..n
    /\ \A i, j \in 1..Len(s) : i < j => s[i] < s[j]
    /\ Len(s) <= n
    /\ Len(s) = n => \A i \in 1..n : s[i] = i

\* A transmit is at work, or the transmit of an operation that goes on to receive is over.
Writing ==
    \/ call.at \in AtWork /\ ~Reads
    \/ call.at = "wait" /\ call.status = SUCCESS /\ ~Reads
    \/ call.at = "return" /\ FirstOfTwo /\ call.status = SUCCESS

\* Nothing comes in while the core transmits.
NothingIn ==
    /\ Writing \/ (call.at = "begin" /\ call.phase = 2) => core.rx = <<>>
    /\ irq.busy = 1 => core.rx = <<>>
    /\ call.at \in AtWork \cup {"wait"} /\ (~Reads \/ call.irq) => call.got = <<>>

\* A transmit is not cut off by an interrupt left from an earlier transaction.
Undisturbed ==
    /\ "tx" \in core.ints => irq.busy = 1 /\ core.en /\ isr = "off"
    /\ Writing => core.en /\ isr = "off"

\* The bytes fit.
Fits ==
    /\ irq.busy = 2 => irq.size + Len(irq.got) = irq.want /\ Len(Stream) <= irq.want
    /\ call.at \in AtWork => Len(Stream) <= call.rx
    /\ call.at \in AtWork /\ Reads => Len(call.got) < call.rx

Increasing(s) == \A i, j \in DOMAIN s : i < j /\ s[j] # GARBAGE => s[i] < s[j]
Buffers ==
    /\ Increasing(call.got) /\ Len(call.got) <= call.rx
    /\ Increasing(irq.got) /\ Len(irq.got) <= irq.want

Bytes == OrderedBytes(Stream, target.sent)
Progress == Session /\ NothingIn /\ Undisturbed /\ Bytes /\ Fits /\ Buffers

-----------------------------------------------------------------------------
\* The commands of a transaction.
LEMMA StepFacts ==
    ASSUME NEW w \in Nat, NEW r \in Nat, NEW i \in Nat \ {0}
    PROVE  /\ Step(w, r, i) \in GivenCommand /\ Step(w, r, i) # Nothing
           /\ Step(w, r, i).byte = IF i = 1 /\ w > 0 THEN WriteAddress
                                   ELSE IF i <= w THEN i - 1 ELSE IF i = w + 1 THEN ReadAddress ELSE 0
           /\ Step(w, r, i).sta <=> w > 0 /\ i = w + 1
           /\ Step(w, r, i).sto <=> i = w + r
<1> DEFINE byte == IF i = 1 /\ w > 0 THEN WriteAddress
                   ELSE IF i <= w THEN i - 1 ELSE IF i = w + 1 THEN ReadAddress ELSE 0
           sta == w > 0 /\ i = w + 1
           sto == i = w + r
<1>1. byte \in Nat /\ sta \in BOOLEAN /\ sto \in BOOLEAN
  BY DepthAssumption DEF WriteAddress, ReadAddress
<1>2. Step(w, r, i) = [byte |-> byte, sta |-> sta, sto |-> sto]
  BY DEF Step, Command
<1> HIDE DEF byte, sta, sto
<1>3. /\ Step(w, r, i) \in GivenCommand /\ Step(w, r, i).byte = byte /\ Step(w, r, i).sta = sta
      /\ Step(w, r, i).sto = sto
  BY <1>1, <1>2 DEF GivenCommand
<1>4. Step(w, r, i) # Nothing
  <2>1. Nothing.byte = -1
    BY DEF Nothing, Command
  <2> QED BY <1>1, <1>3, <2>1
<1> QED BY <1>3, <1>4 DEF byte, sta, sto

\* The elements of a concatenation.
LEMMA Elements ==
    ASSUME NEW s \in Seq(Nat), NEW t \in Seq(Nat)
    PROVE  /\ s \o t \in Seq(Nat) /\ Len(s \o t) = Len(s) + Len(t) /\ Len(s) \in Nat /\ Len(t) \in Nat
           /\ \A i \in 1..Len(s) : (s \o t)[i] = s[i]
           /\ \A i \in 1..Len(t) : (s \o t)[Len(s) + i] = t[i]
  OBVIOUS

\* Concatenation is associative.
LEMMA Associates ==
    ASSUME NEW s \in Seq(Nat), NEW t \in Seq(Nat), NEW u \in Seq(Nat)
    PROVE  (s \o t) \o u = s \o (t \o u)
  BY ConcatAssociative, SMTT(40)

\* The messages on the bus.
LEMMA MessageFacts ==
    ASSUME NEW n \in Nat
    PROVE  /\ Message(n) \in Seq(Nat) /\ Len(Message(n)) = n
           /\ n > 0 => Append(Message(n), n) = Message(n + 1)
           /\ Message(1) = <<WriteAddress>>
           /\ <<WriteAddress>> \o UpTo(n) = Message(n + 1)
<1>1. WriteAddress \in Nat
  BY DepthAssumption DEF WriteAddress
<1>2. ASSUME NEW k \in Nat
      PROVE  /\ Message(k) \in Seq(Nat) /\ Len(Message(k)) = k /\ DOMAIN Message(k) = 1..k
             /\ \A i \in 1..k : Message(k)[i] = IF i = 1 THEN WriteAddress ELSE i - 1
  <2>1. \A i \in 1..k : (IF i = 1 THEN WriteAddress ELSE i - 1) \in Nat
    BY <1>1
  <2> QED BY <2>1 DEF Message
<1>3. n > 0 => Append(Message(n), n) = Message(n + 1)
  <2> SUFFICES ASSUME n > 0 PROVE Append(Message(n), n) = Message(n + 1)
    OBVIOUS
  <2> DEFINE m == Message(n)
             l == Message(n + 1)
  <2>1. /\ m \in Seq(Nat) /\ Len(m) = n /\ l \in Seq(Nat) /\ Len(l) = n + 1
        /\ \A i \in 1..n : m[i] = l[i]
        /\ l[n + 1] = n
    BY <1>2
  <2> HIDE DEF m, l
  <2>2. /\ Append(m, n) \in Seq(Nat) /\ Len(Append(m, n)) = n + 1
        /\ \A i \in 1..n + 1 : Append(m, n)[i] = IF i = n + 1 THEN n ELSE m[i]
    BY <2>1, AppendProperties
  <2>3. \A i \in 1..n + 1 : Append(m, n)[i] = l[i]
    BY <2>1, <2>2
  <2>4. Append(m, n) = l
    BY <2>1, <2>2, <2>3, SeqEqual
  <2> QED BY <2>4 DEF m, l
<1>4. Message(1) = <<WriteAddress>>
  <2>1. 1 \in Nat /\ 1 \in 1..1
    OBVIOUS
  <2>2. Message(1) \in Seq(Nat) /\ Len(Message(1)) = 1 /\ Message(1)[1] = WriteAddress
    BY <1>2, <2>1
  <2> HIDE DEF Message
  <2> QED BY <1>1, <2>2
<1>5. <<WriteAddress>> \o UpTo(n) = Message(n + 1)
  <2> DEFINE u == UpTo(n)
             l == Message(n + 1)
             s == <<WriteAddress>>
  <2>1. u \in Seq(Nat) /\ Len(u) = n /\ \A i \in 1..n : u[i] = i
    BY DEF UpTo
  <2>2. l \in Seq(Nat) /\ Len(l) = n + 1 /\ \A i \in 1..n + 1 : l[i] = IF i = 1 THEN WriteAddress ELSE i - 1
    BY <1>2
  <2>3. s \in Seq(Nat) /\ Len(s) = 1 /\ s[1] = WriteAddress
    BY <1>1
  <2> HIDE DEF u, l, s
  <2>4. /\ s \o u \in Seq(Nat) /\ Len(s \o u) = n + 1
        /\ \A i \in 1..1 : (s \o u)[i] = s[i]
        /\ \A i \in 1..n : (s \o u)[1 + i] = u[i]
    <3>1. Len(s) = 1 /\ Len(u) = n /\ n + 1 = 1 + n
      BY <2>1, <2>3
    <3>2. /\ s \o u \in Seq(Nat) /\ Len(s \o u) = Len(s) + Len(u)
          /\ \A i \in 1..Len(s) : (s \o u)[i] = s[i]
          /\ \A i \in 1..Len(u) : (s \o u)[Len(s) + i] = u[i]
      BY <2>1, <2>3, Elements
    <3> QED BY <3>1, <3>2
  <2>5. \A i \in 1..n + 1 : (s \o u)[i] = l[i]
    <3> SUFFICES ASSUME NEW i \in 1..n + 1 PROVE (s \o u)[i] = l[i]
      OBVIOUS
    <3>1. CASE i = 1
      BY <2>2, <2>3, <2>4, <3>1
    <3>2. CASE i # 1
      <4>1. PICK k \in 1..n : i = 1 + k
        BY <3>2
      <4>2. l[i] = k
        BY <2>2, <3>2, <4>1
      <4> QED BY <2>1, <2>4, <4>1, <4>2
    <3> QED BY <3>1, <3>2
  <2>6. s \o u = l
    <3> DEFINE m == s \o u
    <3>1. m \in Seq(Nat) /\ Len(m) = n + 1 /\ \A i \in 1..n + 1 : m[i] = l[i]
      BY <2>4, <2>5
    <3>2. l \in Seq(Nat) /\ Len(l) = n + 1
      BY <2>2
    <3> HIDE DEF m
    <3>3. Len(m) = Len(l) /\ \A i \in 1..Len(m) : m[i] = l[i]
      BY <3>1, <3>2
    <3>4. m = l
      BY <3>1, <3>2, <3>3, SeqEqual
    <3> QED BY <3>4 DEF m
  <2> QED BY <2>6 DEF u, l, s
<1> QED BY <1>2, <1>3, <1>4, <1>5

-----------------------------------------------------------------------------
(* Bytes in order *)

\* s is a stretch of t.
Segment(s, t) ==
    \E a \in Nat : a + Len(s) <= Len(t) /\ \A i \in 1..Len(s) : s[i] = t[a + i]

\* A stretch of ordered bytes is ordered.
LEMMA OrderedSegment ==
    ASSUME NEW s \in Seq(Nat), NEW t \in Seq(Nat), NEW n \in Nat, OrderedBytes(t, n), Segment(s, t)
    PROVE  OrderedBytes(s, n) /\ Len(s) <= Len(t)
<1>1. PICK a \in Nat : a + Len(s) <= Len(t) /\ \A i \in 1..Len(s) : s[i] = t[a + i]
  BY DEF Segment
<1>2. Len(s) \in Nat /\ Len(t) \in Nat /\ \A i \in 1..Len(s) : a + i \in 1..Len(t)
  BY <1>1
<1>3. \A i \in 1..Len(s) : s[i] \in 1..n
  BY <1>1, <1>2 DEF OrderedBytes
<1>4. \A i, j \in 1..Len(s) : i < j => s[i] < s[j]
  <2> SUFFICES ASSUME NEW i \in 1..Len(s), NEW j \in 1..Len(s), i < j PROVE s[i] < s[j]
    OBVIOUS
  <2>1. a + i < a + j /\ a + i \in 1..Len(t) /\ a + j \in 1..Len(t)
    BY <1>2
  <2>2. t[a + i] < t[a + j]
    BY <2>1 DEF OrderedBytes
  <2> QED BY <1>1, <2>2
<1>5. Len(s) <= n /\ (Len(s) = n => \A i \in 1..n : s[i] = i)
  <2>1. Len(t) <= n /\ (Len(t) = n => \A i \in 1..n : t[i] = i)
    BY DEF OrderedBytes
  <2>2. Len(s) <= Len(t) /\ (Len(s) = n => Len(t) = n /\ a = 0)
    BY <1>1, <1>2, <2>1
  <2>3. ASSUME Len(s) = n, NEW i \in 1..n PROVE s[i] = i
    <3>1. s[i] = t[a + i] /\ a = 0 /\ t[i] = i
      BY <1>1, <2>1, <2>2, <2>3
    <3> QED BY <3>1
  <2> QED BY <1>2, <2>1, <2>2, <2>3
<1> QED BY <1>1, <1>2, <1>3, <1>4, <1>5 DEF OrderedBytes

\* The next byte of the target comes in, or is lost.
LEMMA OrderedNext ==
    ASSUME NEW s \in Seq(Nat), NEW n \in Nat, OrderedBytes(s, n)
    PROVE  OrderedBytes(s, n + 1) /\ OrderedBytes(Append(s, n + 1), n + 1)
<1>1. /\ Len(s) \in Nat /\ \A i \in 1..Len(s) : s[i] \in 1..n
      /\ \A i, j \in 1..Len(s) : i < j => s[i] < s[j]
      /\ Len(s) <= n
      /\ Len(s) = n => \A i \in 1..n : s[i] = i
  BY DEF OrderedBytes
<1>2. OrderedBytes(s, n + 1)
  BY <1>1 DEF OrderedBytes
<1> DEFINE t == Append(s, n + 1)
<1>3. /\ t \in Seq(Nat) /\ Len(t) = Len(s) + 1 /\ t[Len(s) + 1] = n + 1
      /\ \A i \in 1..Len(s) : t[i] = s[i]
  BY AppendProperties, <1>1
<1> HIDE DEF t
<1>4. \A i \in 1..Len(t) : t[i] \in 1..n + 1
  <2> SUFFICES ASSUME NEW i \in 1..Len(t) PROVE t[i] \in 1..n + 1
    OBVIOUS
  <2>1. CASE i = Len(s) + 1
    BY <1>3, <2>1
  <2>2. CASE i # Len(s) + 1
    <3>1. i \in 1..Len(s)
      BY <1>1, <1>3, <2>2
    <3>2. t[i] = s[i] /\ s[i] \in 1..n
      BY <1>1, <1>3, <3>1
    <3> QED BY <3>2
  <2> QED BY <2>1, <2>2
<1>5. \A i, j \in 1..Len(t) : i < j => t[i] < t[j]
  <2> SUFFICES ASSUME NEW i \in 1..Len(t), NEW j \in 1..Len(t), i < j PROVE t[i] < t[j]
    OBVIOUS
  <2>1. CASE j = Len(s) + 1
    <3>1. i \in 1..Len(s)
      BY <1>1, <1>3, <2>1
    <3> QED BY <1>1, <1>3, <2>1, <3>1, SMTT(30)
  <2>2. CASE j # Len(s) + 1
    <3>1. i \in 1..(Len(s) + 1) /\ j \in 1..(Len(s) + 1) /\ Len(s) \in Nat
      BY <1>1, <1>3
    <3>2. i \in 1..Len(s) /\ j \in 1..Len(s)
      BY <2>2, <3>1
    <3> QED BY <1>1, <1>3, <3>2
  <2> QED BY <2>1, <2>2
<1>6. Len(t) <= n + 1 /\ (Len(t) = n + 1 => \A i \in 1..n + 1 : t[i] = i)
  BY <1>1, <1>3
<1>7. OrderedBytes(t, n + 1)
  BY <1>4, <1>5, <1>6 DEF OrderedBytes
<1> QED BY <1>2, <1>7 DEF t

\* No bytes are ordered.
LEMMA OrderedNone == \A n \in Nat : OrderedBytes(<<>>, n)
  BY DEF OrderedBytes

\* Ordered bytes are increasing.
LEMMA OrderedIncreasing ==
    ASSUME NEW s \in Seq(Nat), NEW n \in Nat, OrderedBytes(s, n)
    PROVE  Increasing(s)
<1>1. \A i, j \in 1..Len(s) : i < j => s[i] < s[j]
  BY DEF OrderedBytes
<1>2. DOMAIN s = 1..Len(s)
  OBVIOUS
<1> QED BY <1>1, <1>2 DEF Increasing

\* And they still are with a byte behind them that did not come from the bus.
LEMMA GarbageBehind ==
    ASSUME NEW s \in Seq(Nat), Increasing(s)
    PROVE  Increasing(Append(s, GARBAGE))
<1>0. GARBAGE \in Nat
  BY DEF GARBAGE
<1> DEFINE t == Append(s, GARBAGE)
<1>1. /\ DOMAIN t = 1..Len(s) + 1 /\ t[Len(s) + 1] = GARBAGE /\ Len(s) \in Nat /\ DOMAIN s = 1..Len(s)
      /\ \A i \in 1..Len(s) : t[i] = s[i]
  BY <1>0, AppendProperties
<1> HIDE DEF t
<1>2. Increasing(t)
  <2> SUFFICES ASSUME NEW i \in DOMAIN t, NEW j \in DOMAIN t, i < j, t[j] # GARBAGE
               PROVE  t[i] < t[j]
    BY DEF Increasing
  <2>1. i \in DOMAIN s /\ j \in DOMAIN s
    BY <1>1
  <2> QED BY <1>1, <2>1 DEF Increasing
<1> QED BY <1>2 DEF t

\* Two parts of a sequence.
LEMMA Halves ==
    ASSUME NEW S, NEW s \in Seq(S), NEW k \in Nat, k <= Len(s)
    PROVE  /\ SubSeq(s, 1, k) \in Seq(S) /\ Len(SubSeq(s, 1, k)) = k
           /\ \A i \in 1..k : SubSeq(s, 1, k)[i] = s[i]
           /\ SubSeq(s, k + 1, Len(s)) \in Seq(S) /\ Len(SubSeq(s, k + 1, Len(s))) = Len(s) - k
           /\ \A i \in 1..Len(s) - k : SubSeq(s, k + 1, Len(s))[i] = s[k + i]
<1>1. Len(s) \in Nat /\ k + 1 \in Int /\ \A i \in 1..Len(s) : s[i] \in S
  OBVIOUS
<1>2. /\ SubSeq(s, 1, k) \in Seq(S)
      /\ Len(SubSeq(s, 1, k)) = IF 1 <= k THEN k - 1 + 1 ELSE 0
      /\ \A i \in 1..(k - 1 + 1) : SubSeq(s, 1, k)[i] = s[1 + i - 1]
  <2>1. \A i \in 1..k : s[i] \in S
    BY <1>1
  <2> QED BY <1>1, <2>1, SubSeqProperties
<1>3. /\ SubSeq(s, k + 1, Len(s)) \in Seq(S)
      /\ Len(SubSeq(s, k + 1, Len(s))) = IF k + 1 <= Len(s) THEN Len(s) - (k + 1) + 1 ELSE 0
      /\ \A i \in 1..(Len(s) - (k + 1) + 1) : SubSeq(s, k + 1, Len(s))[i] = s[(k + 1) + i - 1]
  <2>1. \A i \in k + 1..Len(s) : s[i] \in S
    BY <1>1
  <2> QED BY <1>1, <2>1, SubSeqProperties
<1>4. k - 1 + 1 = k /\ Len(s) - (k + 1) + 1 = Len(s) - k /\ \A i \in Int : 1 + i - 1 = i /\ (k + 1) + i - 1 = k + i
  BY <1>1
<1> DEFINE a == SubSeq(s, 1, k)
           b == SubSeq(s, k + 1, Len(s))
<1>5. /\ a \in Seq(S) /\ b \in Seq(S) /\ Len(a) = IF 1 <= k THEN k ELSE 0
      /\ Len(b) = IF k + 1 <= Len(s) THEN Len(s) - k ELSE 0
  BY <1>2, <1>3, <1>4
<1>6. \A i \in 1..k : a[i] = s[i]
  BY <1>2, <1>4
<1>7. \A i \in 1..Len(s) - k : b[i] = s[k + i]
  <2> TAKE i \in 1..Len(s) - k
  <2>1. b[i] = s[(k + 1) + i - 1]
    BY <1>3, <1>4
  <2> QED BY <1>4, <2>1
<1> HIDE DEF a, b
<1>8. Len(a) = k /\ Len(b) = Len(s) - k
  BY <1>1, <1>5
<1> QED BY <1>5, <1>6, <1>7, <1>8 DEF a, b

\* Bytes moved from the receive FIFO to the buffer stay in the stream.
LEMMA BytesMoved ==
    ASSUME NEW s \in Seq(Nat), NEW t \in Seq(Nat), NEW n \in Nat, n <= Len(t)
    PROVE  (s \o SubSeq(t, 1, n)) \o SubSeq(t, n + 1, Len(t)) = s \o t
<1> DEFINE a == SubSeq(t, 1, n)
           b == SubSeq(t, n + 1, Len(t))
<1>1. /\ a \in Seq(Nat) /\ b \in Seq(Nat) /\ Len(a) = n /\ Len(b) = Len(t) - n
      /\ \A i \in 1..n : a[i] = t[i]
      /\ \A i \in 1..Len(t) - n : b[i] = t[n + i]
  BY Halves, SMTT(30)
<1> HIDE DEF a, b
<1>2. a \o b = t
  <2>1. /\ a \o b \in Seq(Nat) /\ Len(a \o b) = Len(t)
        /\ \A i \in 1..n : (a \o b)[i] = a[i]
        /\ \A i \in 1..Len(t) - n : (a \o b)[n + i] = b[i]
    <3>1. Len(a) = n /\ Len(b) = Len(t) - n /\ n + (Len(t) - n) = Len(t)
      BY <1>1
    <3>2. /\ a \o b \in Seq(Nat) /\ Len(a \o b) = Len(a) + Len(b)
          /\ \A i \in 1..Len(a) : (a \o b)[i] = a[i]
          /\ \A i \in 1..Len(b) : (a \o b)[Len(a) + i] = b[i]
      BY <1>1, Elements
    <3> QED BY <3>1, <3>2
  <2>2. \A i \in 1..Len(t) : (a \o b)[i] = t[i]
    <3> SUFFICES ASSUME NEW i \in 1..Len(t) PROVE (a \o b)[i] = t[i]
      OBVIOUS
    <3>1. CASE i <= n
      BY <1>1, <2>1, <3>1
    <3>2. CASE ~(i <= n)
      <4>1. PICK k \in 1..Len(t) - n : i = n + k
        BY <3>2
      <4> QED BY <1>1, <2>1, <4>1
    <3> QED BY <3>1, <3>2
  <2> QED BY <2>1, <2>2, SeqEqual
<1>3. (s \o a) \o b = s \o (a \o b)
  <2>1. s \in Seq(Nat) /\ a \in Seq(Nat) /\ b \in Seq(Nat)
    BY <1>1
  <2> QED BY <2>1, Associates
<1> QED BY <1>2, <1>3 DEF a, b

\* A byte that comes in is behind the others.
LEMMA AppendBehind ==
    ASSUME NEW s \in Seq(Nat), NEW t \in Seq(Nat), NEW e \in Nat
    PROVE  s \o Append(t, e) = Append(s \o t, e)
<1>1. s \o t \in Seq(Nat) /\ <<e>> \in Seq(Nat)
  OBVIOUS
<1>2. Append(t, e) = t \o <<e>>
  OBVIOUS
<1>3. Append(s \o t, e) = (s \o t) \o <<e>>
  <2> DEFINE u == s \o t
  <2>1. u \in Seq(Nat)
    BY <1>1
  <2> HIDE DEF u
  <2>2. Append(u, e) = u \o <<e>>
    BY <2>1
  <2> QED BY <2>2 DEF u
<1>4. (s \o t) \o <<e>> = s \o (t \o <<e>>)
  <2>1. <<e>> \in Seq(Nat)
    BY <1>1
  <2> QED BY <2>1, Associates
<1> QED BY <1>2, <1>3, <1>4

\* The parts of a stream.
LEMMA Parts ==
    ASSUME NEW s \in Seq(Nat), NEW t \in Seq(Nat)
    PROVE  /\ s \o t \in Seq(Nat) /\ Len(s \o t) = Len(s) + Len(t)
           /\ Segment(s, s \o t) /\ Segment(t, s \o t) /\ Segment(<<>>, s \o t) /\ Segment(s, s)
           /\ s \o t = <<>> => s = <<>> /\ t = <<>>
<1> DEFINE u == s \o t
<1>1. /\ u \in Seq(Nat) /\ Len(u) = Len(s) + Len(t) /\ Len(s) \in Nat /\ Len(t) \in Nat
      /\ \A i \in 1..Len(s) : u[i] = s[i]
      /\ \A i \in 1..Len(t) : u[Len(s) + i] = t[i]
  OBVIOUS
<1> HIDE DEF u
<1>2. Segment(s, u)
  <2>1. 0 + Len(s) <= Len(u) /\ \A i \in 1..Len(s) : s[i] = u[0 + i]
    BY <1>1
  <2> QED BY <2>1 DEF Segment
<1>3. Segment(t, u)
  <2>1. Len(s) + Len(t) <= Len(u) /\ \A i \in 1..Len(t) : t[i] = u[Len(s) + i]
    BY <1>1
  <2> QED BY <1>1, <2>1 DEF Segment
<1>4. Segment(<<>>, u)
  <2>1. Len(<<>>) = 0 /\ 0 + Len(<<>>) <= Len(u)
    BY <1>1
  <2> QED BY <2>1 DEF Segment
<1>5. Segment(s, s)
  <2>1. 0 + Len(s) <= Len(s) /\ \A i \in 1..Len(s) : s[i] = s[0 + i]
    BY <1>1
  <2> QED BY <2>1 DEF Segment
<1>6. u = <<>> => s = <<>> /\ t = <<>>
  BY <1>1
<1> QED BY <1>1, <1>2, <1>3, <1>4, <1>5, <1>6 DEF u

-----------------------------------------------------------------------------
(* The core's steps *)

\* The stream of bytes.
LEMMA StreamFacts ==
    ASSUME TypesRight
    PROVE  /\ Stored \in Seq(Nat) /\ core.rx \in Seq(Nat) /\ Stream \in Seq(Nat)
           /\ Len(Stream) = Len(Stored) + Len(core.rx) /\ Len(Stored) \in Nat /\ Len(core.rx) \in Nat
           /\ Segment(Stored, Stream) /\ Segment(core.rx, Stream) /\ Segment(<<>>, Stream) /\ Segment(Stream, Stream)
           /\ Stream = <<>> => Stored = <<>> /\ core.rx = <<>>
           /\ Stored = <<>> => Stream = core.rx
           /\ core.rx = <<>> => Stream = Stored
<1>1. Stored \in Seq(Nat) /\ core.rx \in Seq(Nat)
  BY FieldTypes DEF Stored
<1>2. Len(Stored) \in Nat /\ Len(core.rx) \in Nat
  BY <1>1
<1> HIDE DEF Stored
<1>3. Stream \in Seq(Nat) /\ Segment(Stream, Stream)
  BY <1>1, Parts DEF Stream
<1>4. /\ Len(Stream) = Len(Stored) + Len(core.rx)
      /\ Segment(Stored, Stream) /\ Segment(core.rx, Stream) /\ Segment(<<>>, Stream)
      /\ Stream = <<>> => Stored = <<>> /\ core.rx = <<>>
  BY <1>1, Parts DEF Stream
<1>5. /\ Stored = <<>> => Stream = core.rx
      /\ core.rx = <<>> => Stream = Stored
  BY <1>1, ConcatEmptySeq DEF Stream
<1> QED BY <1>1, <1>2, <1>3, <1>4, <1>5

\* What is on the bus after d commands.
LEMMA BusFacts ==
    ASSUME TypesRight, NEW w \in Nat, NEW r \in Nat, NEW d \in Nat, OnBus(w, r, d)
    PROVE  /\ Given(d) \in Nat /\ d <= Given(d) /\ Given(d) <= w + r /\ OnIt \in {0, 1}
           /\ core.cur # Nothing => d + 1 <= Given(d) /\ core.cur = Step(w, r, d + 1)
           /\ core.cur = Nothing /\ core.cmds = <<>> => Given(d) = d
           /\ Given(d) = d => core.cur = Nothing /\ core.cmds = <<>>
<1>1. core.cmds \in Seq(GivenCommand) /\ Len(core.cmds) \in Nat
  <2>1. core.cmds \in Seq(GivenCommand)
    BY FieldTypes
  <2> QED BY <2>1
<1>2. core.cmds = <<>> <=> Len(core.cmds) = 0
  BY <1>1
<1>3. OnIt \in {0, 1} /\ (OnIt = 0 <=> core.cur = Nothing)
  BY DEF OnIt
<1>4. /\ Given(d) = d + OnIt + Len(core.cmds) /\ Given(d) <= w + r
      /\ core.cur # Nothing => core.cur = Step(w, r, d + 1)
  BY DEF Given, OnBus
<1> HIDE DEF Step, OnBus, Given, OnIt
<1>s. \A x \in {0, 1}, y \in Nat :
        d + x + y \in Nat /\ d <= d + x + y /\ (x = 1 => d + 1 <= d + x + y) /\ (d + x + y = d <=> x = 0 /\ y = 0)
  OBVIOUS
<1>5. Given(d) \in Nat /\ d <= Given(d) /\ (OnIt = 1 => d + 1 <= Given(d))
      /\ (Given(d) = d <=> OnIt = 0 /\ Len(core.cmds) = 0)
  BY <1>1, <1>3, <1>4, <1>s
<1>6. OnIt \in {0, 1} /\ (core.cur # Nothing => OnIt = 1) /\ (OnIt = 0 => core.cur = Nothing)
      /\ (core.cur = Nothing => OnIt = 0)
  BY <1>3
<1> QED BY <1>2, <1>4, <1>5, <1>6

\* A command goes on the bus.
LEMMA FetchedBus ==
    ASSUME TypesRight, NEW w \in Nat, NEW r \in Nat, NEW d \in Nat, OnBus(w, r, d), Fetched, core'.en = core.en,
           UNCHANGED <<call, irq, isr>>
    PROVE  OnBus(w, r, d)' /\ Given(d)' = Given(d)
<1>1. /\ core.cmds \in Seq(GivenCommand) /\ core.cmds # <<>> /\ core.cur = Nothing
      /\ core'.cur = Head(core.cmds) /\ core'.cmds = Tail(core.cmds) /\ Len(core.cmds) \in Nat \ {0}
  <2>1. core.cmds \in Seq(GivenCommand)
    BY FieldTypes
  <2>2. core.cmds # <<>> /\ core.cur = Nothing /\ core'.cur = Head(core.cmds) /\ core'.cmds = Tail(core.cmds)
    BY DEF Fetched
  <2>3. Len(core.cmds) \in Nat \ {0}
    BY <2>1, <2>2
  <2> QED BY <2>1, <2>2, <2>3
<1>2. core'.cur \in GivenCommand /\ core'.cur # Nothing
  <2>1. core'.cur \in GivenCommand
    BY <1>1
  <2>2. Nothing.byte = -1
    BY DEF Nothing, Command
  <2> QED BY <2>1, <2>2 DEF GivenCommand
<1>3. Len(core'.cmds) = Len(core.cmds) - 1 /\ \A i \in 1..Len(core'.cmds) : core'.cmds[i] = core.cmds[i + 1]
      /\ core'.cur = core.cmds[1]
  BY <1>1
<1>4. OnIt = 0 /\ OnIt' = 1
  BY <1>1, <1>2 DEF OnIt
<1>5. Given(d)' = Given(d)
  <2>1. Given(d) = d + OnIt + Len(core.cmds) /\ Given(d)' = d + OnIt' + Len(core'.cmds)
    BY DEF Given
  <2>2. Len(core.cmds) \in Nat /\ Len(core'.cmds) = Len(core.cmds) - 1
    BY <1>1, <1>3
  <2>3. \A x \in Nat : d + 0 + x = d + 1 + (x - 1)
    OBVIOUS
  <2>4. Given(d) = d + 0 + Len(core.cmds) /\ Given(d)' = d + 1 + (Len(core.cmds) - 1)
    BY <1>4, <2>1, <2>2
  <2> QED BY <2>2, <2>3, <2>4
<1>6. \A i \in 1..Len(core.cmds) : core.cmds[i] = Step(w, r, d + i)
  BY <1>4 DEF OnBus
<1>7. core'.cur = Step(w, r, d + 1)
  BY <1>1, <1>3, <1>6
<1>8. \A i \in 1..Len(core'.cmds) : core'.cmds[i] = Step(w, r, d + 1 + i)
  <2> SUFFICES ASSUME NEW i \in 1..Len(core'.cmds) PROVE core'.cmds[i] = Step(w, r, d + 1 + i)
    OBVIOUS
  <2>1. i + 1 \in 1..Len(core.cmds) /\ d + (i + 1) = d + 1 + i
    BY <1>1, <1>3
  <2> QED BY <1>3, <1>6, <2>1
<1>9. Stream' = Stream /\ ~Failed(core') /\ core'.bus = core.bus /\ target' = target
  BY DEF Stream, Stored, Fetched, Failed
<1>10. Step(w, r, 1)' = Step(w, r, 1) /\ MsgsAt(w, d)' = MsgsAt(w, d) /\ BusAt(w, r, d)' = BusAt(w, r, d)
  BY DEF Step, MsgsAt, BusAt, Message
<1> HIDE DEF Step, MsgsAt, BusAt
<1> QED BY <1>4, <1>5, <1>7, <1>8, <1>9 DEF OnBus

\* The command on the bus goes through.
LEMMA ThroughBus ==
    ASSUME TypesRight, NEW w \in Nat, NEW r \in Nat, NEW d \in Nat, OnBus(w, r, d), core.cur # Nothing,
           core'.cur = Nothing, core'.cmds = core.cmds, core'.en = core.en, core'.nack = core.nack, core'.arb = core.arb,
           UNCHANGED <<call, irq, isr>>,
           core'.bus = BusAt(w, r, d + 1), target'.msgs = MsgsAt(w, d + 1),
           target'.sent = IF d + 1 <= w THEN 0 ELSE d + 1 - w - 1, d + 1 <= w => core'.rx = core.rx
    PROVE  OnBus(w, r, d + 1)' /\ Given(d + 1)' = Given(d)
<1>1. core.cmds \in Seq(GivenCommand) /\ Len(core.cmds) \in Nat
  <2>1. core.cmds \in Seq(GivenCommand)
    BY FieldTypes
  <2> QED BY <2>1
<1>2. OnIt = 1 /\ OnIt' = 0
  BY DEF OnIt
<1>3. Given(d + 1)' = Given(d)
  BY <1>1, <1>2 DEF Given
<1>4. \A i \in 1..Len(core'.cmds) : core'.cmds[i] = Step(w, r, d + 1 + 0 + i)
  <2>1. d + 1 + 0 = d + 1
    OBVIOUS
  <2> QED BY <1>2, <2>1 DEF OnBus
<1>5. d + 1 <= w => Stream' = <<>>
  BY DEF OnBus, Stream, Stored
<1>6. ~Failed(core')
  BY DEF OnBus, Failed
<1> HIDE DEF Step, MsgsAt, BusAt
<1> QED BY <1>2, <1>3, <1>4, <1>5, <1>6 DEF OnBus

\* What the target has seen after one more command.
LEMMA MoreSeen ==
    ASSUME NEW w \in Nat, NEW d \in Nat, 0 < d, d < w
    PROVE  [MsgsAt(w, d) EXCEPT ![Len(MsgsAt(w, d))] = Append(@, d)] = MsgsAt(w, d + 1)
<1>1. MsgsAt(w, d) = <<Message(d)>> /\ MsgsAt(w, d + 1) = <<Message(d + 1)>>
  BY DEF MsgsAt
<1>2. Append(Message(d), d) = Message(d + 1) /\ Message(d) \in Seq(Nat)
  BY MessageFacts
<1> DEFINE m == Message(d)
           l == Message(d + 1)
<1> HIDE DEF m, l
<1>3. [<<m>> EXCEPT ![Len(<<m>>)] = Append(@, d)] = <<Append(m, d)>>
  <2>1. Len(<<m>>) = 1
    OBVIOUS
  <2> QED BY <2>1
<1> QED BY <1>1, <1>2, <1>3 DEF m, l

\* A command that goes through takes the bus one command further.
LEMMA Acked ==
    ASSUME TypesRight, NEW w \in Nat, NEW r \in Nat, NEW d \in Nat, OnBus(w, r, d),
           Started \/ Written \/ Arrived
    PROVE  /\ core'.bus = BusAt(w, r, d + 1) /\ target'.msgs = MsgsAt(w, d + 1)
           /\ target'.sent = IF d + 1 <= w THEN 0 ELSE d + 1 - w - 1
           /\ d + 1 <= w => core'.rx = core.rx
           /\ Started => Stream = <<>>
           /\ Arrived => d > w
<1>1. core.cur # Nothing
  BY DEF Started, Written, Arrived
<1>2. core.cur = Step(w, r, d + 1) /\ d + 1 <= w + r
  BY <1>1, BusFacts
<1>3. /\ core.cur.byte = IF d + 1 = 1 /\ w > 0 THEN WriteAddress
                         ELSE IF d + 1 <= w THEN d ELSE IF d + 1 = w + 1 THEN ReadAddress ELSE 0
      /\ core.cur.sta <=> w > 0 /\ d + 1 = w + 1
      /\ core.cur.sto <=> d + 1 = w + r
  <2>1. d + 1 \in Nat \ {0} /\ d + 1 - 1 = d
    OBVIOUS
  <2> QED BY <1>2, <2>1, StepFacts
<1>4. WriteAddress \in Nat /\ ReadAddress \in Nat /\ WriteAddress # ReadAddress
  BY DepthAssumption DEF WriteAddress, ReadAddress
<1>5. /\ w # 1 /\ r # 1 /\ w + r > 0 /\ core.bus = BusAt(w, r, d)
      /\ d > 0 => target.msgs = MsgsAt(w, d) /\ target.sent = IF d <= w THEN 0 ELSE d - w - 1
      /\ d <= w => Stream = <<>>
  BY DEF OnBus
<1>6. target.sent \in Nat
  BY FieldTypes
<1>7. CASE d = 0
  <2>1. core.bus = "free"
    BY <1>5, <1>7 DEF BusAt
  <2>2. Started
    BY <2>1 DEF Started, Written, Arrived, Starts
  <2>3. target'.msgs = Append(<<>>, <<core.cur.byte>>) /\ target'.sent = 0 /\ core'.rx = core.rx
        /\ core'.bus = IF core.cur.sto THEN "free" ELSE IF core.cur.byte = ReadAddress THEN "read" ELSE "write"
    BY <2>1, <2>2 DEF Started
  <2>4. ~core.cur.sto /\ core.cur.byte = IF w > 0 THEN WriteAddress ELSE ReadAddress
    BY <1>2, <1>3, <1>5, <1>7
  <2>5. core'.bus = IF w > 0 THEN "write" ELSE "read"
    BY <1>4, <2>3, <2>4
  <2>6. BusAt(w, r, d + 1) = IF w > 0 THEN "write" ELSE "read"
    BY <1>2, <1>5, <1>7 DEF BusAt
  <2>7. target'.msgs = <<<<core.cur.byte>>>>
    BY <2>3
  <2>8. MsgsAt(w, d + 1) = IF w > 0 THEN <<<<WriteAddress>>>> ELSE <<<<ReadAddress>>>>
    <3>1. Message(1) = <<WriteAddress>>
      BY MessageFacts
    <3>2. w > 0 => MsgsAt(w, 1) = <<Message(1)>>
      BY DEF MsgsAt
    <3>3. ~(w > 0) => MsgsAt(w, 1) = <<<<ReadAddress>>>>
      BY DEF MsgsAt
    <3> QED BY <1>7, <3>1, <3>2, <3>3
  <2>9. ~Arrived /\ target'.sent = IF d + 1 <= w THEN 0 ELSE d + 1 - w - 1
    BY <1>7, <2>1, <2>3 DEF Arrived
  <2>10. target'.msgs = MsgsAt(w, d + 1)
    BY <2>4, <2>7, <2>8
  <2> QED BY <1>5, <1>7, <2>3, <2>5, <2>6, <2>9, <2>10
<1>8. CASE 0 < d /\ d < w
  <2>1. core.bus = "write" /\ ~core.cur.sta /\ core.cur.byte = d
    BY <1>2, <1>3, <1>5, <1>8 DEF BusAt
  <2>2. Written /\ ~Started /\ ~Arrived
    BY <2>1 DEF Started, Written, Arrived, Starts
  <2>3. core'.rx = core.rx /\ target'.sent = 0 /\ core'.bus = IF core.cur.sto THEN "free" ELSE "write"
    BY <1>5, <1>8, <2>2 DEF Written
  <2>4. core'.bus = BusAt(w, r, d + 1)
    BY <1>2, <1>3, <1>8, <2>3 DEF BusAt
  <2>5. target'.msgs = [target.msgs EXCEPT ![Len(target.msgs)] = Append(@, d)]
    BY <2>1, <2>2 DEF Written
  <2>6. target'.msgs = MsgsAt(w, d + 1)
    <3>1. target.msgs = MsgsAt(w, d)
      BY <1>5, <1>8
    <3> HIDE DEF MsgsAt
    <3> QED BY <1>8, <2>5, <3>1, MoreSeen
  <2> QED BY <1>8, <2>2, <2>3, <2>4, <2>6
<1>9. CASE d = w /\ w > 0
  <2>1. r > 1
    BY <1>2, <1>5, <1>9
  <2>2. core.bus = "write" /\ core.cur.sta /\ core.cur.byte = ReadAddress /\ ~core.cur.sto
    BY <1>2, <1>3, <1>5, <1>9, <2>1 DEF BusAt
  <2>3. Started /\ ~Written /\ ~Arrived
    BY <2>2 DEF Started, Written, Arrived, Starts
  <2>4. core'.rx = core.rx /\ target'.sent = 0 /\ core'.bus = "read"
        /\ target'.msgs = Append(target.msgs, <<ReadAddress>>)
    BY <2>2, <2>3 DEF Started
  <2>5. BusAt(w, r, d + 1) = "read"
    BY <1>9, <2>1 DEF BusAt
  <2>6. target.msgs = <<Message(w)>>
    BY <1>5, <1>9 DEF MsgsAt
  <2>7. MsgsAt(w, d + 1) = <<Message(w), <<ReadAddress>>>>
    BY <1>9 DEF MsgsAt
  <2>8. target'.msgs = MsgsAt(w, d + 1)
    BY <2>4, <2>6, <2>7
  <2> QED BY <1>5, <1>9, <2>3, <2>4, <2>5, <2>8
<1>10. CASE d > w /\ d > 0
  <2>1. core.bus = "read" /\ ~core.cur.sta
    BY <1>2, <1>3, <1>5, <1>10 DEF BusAt
  <2>2. Arrived /\ ~Started /\ ~Written
    BY <2>1 DEF Started, Written, Arrived, Starts
  <2>3. target'.msgs = target.msgs /\ target'.sent = target.sent + 1
        /\ core'.bus = IF core.cur.sto THEN "free" ELSE "read"
    BY <2>2 DEF Arrived
  <2>4. core'.bus = BusAt(w, r, d + 1)
    BY <1>3, <1>10, <2>3 DEF BusAt
  <2>5. MsgsAt(w, d + 1) = MsgsAt(w, d)
    BY <1>10 DEF MsgsAt
  <2> HIDE DEF MsgsAt
  <2>6. target.sent = d - w - 1 /\ target.msgs = MsgsAt(w, d)
    BY <1>5, <1>10
  <2> QED BY <1>10, <2>2, <2>3, <2>4, <2>5, <2>6
<1> QED BY <1>7, <1>8, <1>9, <1>10

\* While the program transmits, it has given the core no more than the writes.
LEMMA OnlyWrites ==
    ASSUME TypesRight, NEW w \in Nat, NEW r \in Nat, NEW d \in Nat, OnBus(w, r, d), Owned(w, r, d),
           Writing \/ (call.at = "begin" /\ call.phase = 2)
    PROVE  Given(d) <= w
<1>1. /\ call.op \in {"none", "tx", "rx", "tx_rx"} /\ (call.at \notin {"idle", "abort"} => call.op # "none")
      /\ call.phase \in {1, 2} /\ (call.phase = 2 => call.op = "tx_rx") /\ call.todo \in Seq(GivenCommand)
  BY DEF TypesRight, CallSound, CallType
<1>2. Given(d) \in Nat /\ Len(call.todo) \in Nat
  BY <1>1, BusFacts
<1>3. Counting
  BY DEF Writing, Counting
<1>4. End(w, r) = w
  <2>1. call.op = "tx" => r = 0
    BY <1>3 DEF Owned, ReadCount
  <2>2. call.op = "tx" \/ (call.op = "tx_rx" /\ (call.phase = 1 \/ call.at = "begin"))
    BY <1>1 DEF Writing, AtWork, Reads, FirstOfTwo
  <2> QED BY <2>1, <2>2 DEF End
<1>5. Given(d) = End(w, r) \/ Given(d) + Len(call.todo) = End(w, r)
  BY <1>3 DEF Owned
<1> QED BY <1>2, <1>4, <1>5

\* A transaction that goes on belongs to the same call.
LEMMA OwnedKept ==
    ASSUME NEW w \in Nat, NEW r \in Nat, NEW d \in Nat, NEW e \in Nat, Owned(w, r, d),
           UNCHANGED <<call, irq>>, Given(e)' = Given(d)
    PROVE  Owned(w, r, e)'
<1>1. /\ Counting' = Counting /\ WriteCount' = WriteCount /\ ReadCount' = ReadCount
      /\ End(w, r)' = End(w, r)
  BY DEF Counting, FirstOfTwo, WriteCount, ReadCount, End
<1>2. \A i : Step(w, r, i)' = Step(w, r, i)
  BY DEF Step, Command, WriteAddress, ReadAddress
<1> HIDE DEF Counting, WriteCount, ReadCount, End, Step, Given
<1> QED BY <1>1, <1>2 DEF Owned

\* A step of the core.
LEMMA CoreProgress ==
    ASSUME Control, Progress, Core
    PROVE  Progress'
<1>1. /\ TypesRight /\ TypesRight' /\ UNCHANGED <<call, irq, isr, registered>>
      /\ core'.en = core.en /\ core'.ints = core.ints
      /\ Fetched \/ Started \/ Written \/ Arrived \/ FellThrough
  BY CoreEffect DEF Control
<1>2. ~Quiet
  BY <1>1 DEF Quiet, Fetched, Started, Written, Arrived, FellThrough
<1>3. PICK w \in Nat, r \in Nat, d \in Nat : OnBus(w, r, d) /\ Owned(w, r, d)
  BY <1>2 DEF Progress, Session
<1>4. /\ Given(d) \in Nat /\ d <= Given(d) /\ Given(d) <= w + r
      /\ core.cur # Nothing => d + 1 <= Given(d)
  BY <1>1, <1>3, BusFacts
<1>5. /\ Stored' = Stored /\ Counting' = Counting /\ (Writing' <=> Writing) /\ (Reads' <=> Reads)
  BY <1>1 DEF Stored, Counting, Writing, Reads, FirstOfTwo
<1>6. Stream \in Seq(Nat) /\ target.sent \in Nat /\ Stored \in Seq(Nat) /\ core.rx \in Seq(Nat) /\ Bytes
  BY <1>1, StreamFacts, FieldTypes DEF Progress
<1>u. Undisturbed'
  BY <1>1, <1>5 DEF Progress, Undisturbed
<1>b. Buffers'
  BY <1>1 DEF Progress, Buffers, Increasing
<1>7. ASSUME core'.rx = core.rx PROVE NothingIn' /\ Fits' /\ Stream' = Stream
  <2>1. Stream' = Stream
    BY <1>5, <1>7 DEF Stream
  <2> QED BY <1>1, <1>5, <1>7, <2>1 DEF Progress, NothingIn, Fits
<1>8. CASE Fetched
  <2>1. OnBus(w, r, d)' /\ Owned(w, r, d)'
    BY <1>1, <1>3, <1>8, FetchedBus, OwnedKept
  <2>2. core'.rx = core.rx /\ target' = target
    BY <1>8 DEF Fetched
  <2>3. Bytes'
    BY <1>6, <1>7, <2>2 DEF Bytes
  <2> QED BY <1>7, <1>u, <1>b, <2>1, <2>2, <2>3 DEF Progress, Session
<1>9. CASE FellThrough
  <2>1. Quiet' /\ ~Live' /\ core'.rx = core.rx /\ core.cur # Nothing
    BY <1>9 DEF FellThrough, Quiet, Live
  <2>2. CASE target' = target
    <3>1. Bytes'
      BY <1>6, <1>7, <2>1, <2>2 DEF Bytes
    <3> QED BY <1>7, <1>u, <1>b, <2>1, <3>1 DEF Progress, Session
  <2>3. CASE core.bus = "free" /\ target'.sent = 0
    <3>1. d + 1 <= w + r
      BY <1>4, <2>1
    <3>2. d = 0
      BY <1>3, <2>3, <3>1 DEF OnBus, BusAt
    <3>3. Stream = <<>>
      BY <1>3, <3>2 DEF OnBus
    <3>4. Bytes'
      BY <1>7, <2>1, <2>3, <3>3, OrderedNone DEF Bytes
    <3> QED BY <1>7, <1>u, <1>b, <2>1, <3>4 DEF Progress, Session
  <2> QED BY <1>9, <2>2, <2>3 DEF FellThrough
<1>10. CASE Started \/ Written \/ Arrived
  <2>1. /\ core'.bus = BusAt(w, r, d + 1) /\ target'.msgs = MsgsAt(w, d + 1)
        /\ target'.sent = IF d + 1 <= w THEN 0 ELSE d + 1 - w - 1
        /\ d + 1 <= w => core'.rx = core.rx
        /\ Started => Stream = <<>>
        /\ Arrived => d > w
    BY <1>1, <1>3, <1>10, Acked
  <2>2. core.cur # Nothing /\ core'.cur = Nothing /\ core'.cmds = core.cmds /\ core'.nack = core.nack
        /\ core'.arb = core.arb
    BY <1>10 DEF Started, Written, Arrived
  <2>3. OnBus(w, r, d + 1)' /\ Given(d + 1)' = Given(d)
    BY <1>1, <1>3, <2>1, <2>2, ThroughBus
  <2>4. Owned(w, r, d + 1)' /\ d + 1 \in Nat
    BY <1>1, <1>3, <2>3, OwnedKept
  <2>5. Session'
    BY <2>3, <2>4 DEF Session
  <2>6. CASE Started \/ Written
    <3>1. core'.rx = core.rx
      BY <2>6 DEF Started, Written
    <3>2. Bytes'
      <4>1. CASE Started
        <5>1. Stream' = <<>> /\ target'.sent = 0
          BY <1>7, <2>1, <3>1, <4>1 DEF Started
        <5> QED BY <5>1, OrderedNone DEF Bytes
      <4>2. CASE Written
        <5>1. Stream' = Stream /\ target'.sent = target.sent
          BY <1>7, <3>1, <4>2 DEF Written
        <5> QED BY <1>6, <5>1 DEF Bytes
      <4> QED BY <2>6, <4>1, <4>2
    <3> QED BY <1>7, <1>u, <1>b, <2>5, <3>1, <3>2 DEF Progress
  <2>7. CASE Arrived
    <3>0. d > w /\ d + 1 <= w + r /\ d + 1 <= Given(d)
      BY <1>4, <2>1, <2>2, <2>7
    <3>1. target'.sent = target.sent + 1
          /\ (core'.rx = Append(core.rx, target.sent + 1) \/ core'.rx = core.rx)
      BY <2>7 DEF Arrived
    <3>2. Stream' = Append(Stream, target.sent + 1) \/ Stream' = Stream
      <4>1. target.sent + 1 \in Nat
        BY <1>6
      <4>2. Stored \o Append(core.rx, target.sent + 1) = Append(Stored \o core.rx, target.sent + 1)
        BY <1>6, <4>1, AppendBehind
      <4> QED BY <1>5, <3>1, <4>2 DEF Stream
    <3>3. Bytes'
      BY <1>6, <3>1, <3>2, OrderedNext DEF Bytes
    <3>4. Len(Stream') <= d - w /\ Len(Stream') \in Nat
      <4>1. target'.sent = d - w
        BY <2>1, <3>0
      <4>2. Len(Stream') <= target'.sent
        BY <3>3 DEF Bytes, OrderedBytes
      <4>3. Stream' \in Seq(Nat)
        <5>1. target.sent + 1 \in Nat
          BY <1>6
        <5>2. Append(Stream, target.sent + 1) \in Seq(Nat)
          BY <1>6, <5>1, AppendProperties
        <5> QED BY <1>6, <3>2, <5>2
      <4> QED BY <4>1, <4>2, <4>3
    <3>5. r > 0 /\ d - w <= r - 1
      BY <3>0
    <3>6. NothingIn'
      <4>1. ~(Writing \/ (call.at = "begin" /\ call.phase = 2))
        BY <1>1, <1>3, <1>4, <3>0, OnlyWrites
      <4>2. irq.busy # 1
        BY <1>3, <3>5 DEF Owned
      <4> QED BY <1>1, <1>5, <4>1, <4>2 DEF Progress, NothingIn
    <3>7. Fits'
      <4>1. irq.busy = 2 => Len(Stream') <= irq.want
        <5>1. irq.busy = 2 => r = irq.want + 1 /\ irq.want \in Nat
          BY <1>1, <1>3, FieldTypes DEF Owned
        <5> QED BY <3>4, <3>5, <5>1
      <4>2. call.at \in AtWork => Len(Stream') <= call.rx
        <5>1. call.at \in AtWork => r = ReadCount /\ call.rx \in Nat
          BY <1>1, <1>3, FieldTypes DEF Owned, Counting
        <5>2. ReadCount # 0 => ReadCount = call.rx + 1
          BY DEF ReadCount
        <5> QED BY <3>4, <3>5, <5>1, <5>2
      <4> QED BY <1>1, <1>5, <4>1, <4>2 DEF Progress, Fits
    <3> QED BY <1>u, <1>b, <2>5, <3>3, <3>6, <3>7 DEF Progress
  <2> QED BY <1>10, <2>6, <2>7
<1> QED BY <1>1, <1>8, <1>9, <1>10

-----------------------------------------------------------------------------
(* The driver's steps *)

\* The commands of a transmit or receive are those of the transaction, from where its
\* phase begins.
LEMMA CommandsOfPhase ==
    ASSUME TypesRight, call.op # "none", NEW w, w = WriteCount, NEW r, r = ReadCount,
           NEW base, base = IF call.phase = 2 THEN w ELSE 0,
           NEW end, end = IF call.op = "tx_rx" /\ call.phase = 1 THEN w ELSE w + r
    PROVE  /\ w \in Nat /\ r \in Nat /\ w + r > 0 /\ w # 1 /\ r # 1
           /\ Len(Commands) > 0 /\ base + Len(Commands) = end
           /\ \A i \in 1..Len(Commands) : Commands[i] = Step(w, r, base + i)
<1>1. /\ call.op \in {"tx", "rx", "tx_rx"} /\ call.phase \in {1, 2} /\ call.tx \in Nat /\ call.rx \in Nat
      /\ call.phase = 2 => call.op = "tx_rx"
      /\ call.op \in {"tx", "tx_rx"} => call.tx > 0
      /\ call.op \in {"rx", "tx_rx"} => call.rx > 0
  BY DEF TypesRight, CallType, CallSound
<1>2. /\ Reads => Receiving /\ Phase.size = call.rx /\ Phase.addr = ReadAddress
      /\ ~Reads => ~Receiving /\ Phase.size = call.tx /\ Phase.addr = WriteAddress
      /\ (Phase.restart <=> call.phase = 2) /\ (Phase.stop <=> ~FirstOfTwo)
      /\ Phase.restart \in BOOLEAN /\ Phase.stop \in BOOLEAN
  BY PhaseFacts DEF Reads
<1> DEFINE size == Phase.size
<1>3. /\ Len(Commands) = size + 1
      /\ \A i \in 1..size + 1 :
            Commands[i] = Command(IF i = 1 THEN Phase.addr ELSE IF Receiving THEN 0 ELSE i - 1,
                                  i = 1 /\ Phase.restart, i = size + 1 /\ Phase.stop)
  BY CommandsFacts
<1> DEFINE addr == Phase.addr
           restart == Phase.restart
           stop == Phase.stop
<1> HIDE DEF size, addr, restart, stop
<1>4. w \in Nat /\ r \in Nat /\ w + r > 0 /\ w # 1 /\ r # 1
  BY <1>1 DEF WriteCount, ReadCount
<1>5. size \in Nat /\ size > 0
  BY <1>1, <1>2 DEF size, Reads
<1>6. base + (size + 1) = end
  BY <1>1, <1>2, <1>4 DEF size, Reads, WriteCount, ReadCount
<1>7. ASSUME NEW i \in 1..size + 1, NEW j, j = base + i
      PROVE  /\ (IF i = 1 THEN addr ELSE IF Receiving THEN 0 ELSE i - 1) =
                 (IF j = 1 /\ w > 0 THEN WriteAddress
                  ELSE IF j <= w THEN j - 1 ELSE IF j = w + 1 THEN ReadAddress ELSE 0)
             /\ (i = 1 /\ restart) = (w > 0 /\ j = w + 1)
             /\ (i = size + 1 /\ stop) = (j = w + r)
  <2>1. CASE call.op = "tx"
    <3>1. base = 0 /\ r = 0 /\ w = size + 1 /\ ~Receiving /\ addr = WriteAddress /\ restart = FALSE /\ stop = TRUE
      BY <1>1, <1>2, <2>1 DEF size, addr, restart, stop, Reads, WriteCount, ReadCount, FirstOfTwo
    <3>2. i \in Nat /\ i > 0 /\ i <= size + 1
      BY <1>5
    <3> QED BY <1>5, <1>7, <3>1, <3>2
  <2>2. CASE call.op = "rx"
    <3>1. base = 0 /\ w = 0 /\ r = size + 1 /\ Receiving /\ addr = ReadAddress /\ restart = FALSE /\ stop = TRUE
      BY <1>1, <1>2, <2>2 DEF size, addr, restart, stop, Reads, WriteCount, ReadCount, FirstOfTwo
    <3>2. i \in Nat /\ i > 0 /\ i <= size + 1
      BY <1>5
    <3> QED BY <1>5, <1>7, <3>1, <3>2
  <2>3. CASE call.op = "tx_rx" /\ call.phase = 1
    <3>1. base = 0 /\ w = size + 1 /\ r > 0 /\ r \in Nat /\ ~Receiving /\ addr = WriteAddress
          /\ restart = FALSE /\ stop = FALSE
      BY <1>1, <1>2, <2>3 DEF size, addr, restart, stop, Reads, WriteCount, ReadCount, FirstOfTwo
    <3>2. i \in Nat /\ i > 0 /\ i <= size + 1
      BY <1>5
    <3> QED BY <1>5, <1>7, <3>1, <3>2
  <2>4. CASE call.op = "tx_rx" /\ call.phase = 2
    <3>1. base = w /\ r = size + 1 /\ w > 0 /\ w \in Nat /\ Receiving /\ addr = ReadAddress
          /\ restart = TRUE /\ stop = TRUE
      BY <1>1, <1>2, <2>4 DEF size, addr, restart, stop, Reads, WriteCount, ReadCount, FirstOfTwo
    <3>2. i \in Nat /\ i > 0 /\ i <= size + 1
      BY <1>5
    <3> QED BY <1>5, <1>7, <3>1, <3>2
  <2> QED BY <1>1, <2>1, <2>2, <2>3, <2>4
<1>8. ASSUME NEW i \in 1..size + 1, NEW j, j = base + i PROVE Commands[i] = Step(w, r, j)
  <2>1. Commands[i] = Command(IF i = 1 THEN addr ELSE IF Receiving THEN 0 ELSE i - 1,
                              i = 1 /\ restart, i = size + 1 /\ stop)
    BY <1>3 DEF addr, restart, stop
  <2>2. Step(w, r, j) =
          Command(IF j = 1 /\ w > 0 THEN WriteAddress
                  ELSE IF j <= w THEN j - 1 ELSE IF j = w + 1 THEN ReadAddress ELSE 0,
                  w > 0 /\ j = w + 1, j = w + r)
    BY DEF Step
  <2> QED BY <1>7, <1>8, <2>1, <2>2
<1> QED BY <1>3, <1>4, <1>5, <1>6, <1>8

\* The bus is left alone.
LEMMA SameBus ==
    ASSUME NEW w \in Nat, NEW r \in Nat, NEW d \in Nat, OnBus(w, r, d),
           core'.en = core.en, core'.cmds = core.cmds, core'.cur = core.cur, core'.bus = core.bus,
           ~Failed(core'), target' = target, d <= w => Stream' = <<>>
    PROVE  OnBus(w, r, d)' /\ Given(d)' = Given(d)
<1>1. Given(d)' = Given(d) /\ OnIt' = OnIt
  BY DEF Given, OnIt
<1> HIDE DEF Given, OnIt, Step, MsgsAt, BusAt
<1>2. /\ core.en /\ w + r > 0 /\ w # 1 /\ r # 1
      /\ Given(d) <= w + r
      /\ core.cur # Nothing => core.cur = Step(w, r, d + 1)
      /\ \A i \in 1..Len(core.cmds) : core.cmds[i] = Step(w, r, d + OnIt + i)
      /\ core.bus = BusAt(w, r, d)
      /\ d > 0 => target.msgs = MsgsAt(w, d) /\ target.sent = IF d <= w THEN 0 ELSE d - w - 1
  BY DEF OnBus
<1> QED BY <1>1, <1>2 DEF OnBus

\* A step after which no call counts on the core, and which leaves the bus alone.
LEMMA NotCountedOn ==
    ASSUME TypesRight, Session, ~Counting',
           core'.en = core.en, core'.cmds = core.cmds, core'.cur = core.cur, core'.bus = core.bus,
           Failed(core') => Failed(core), target' = target, Stream = <<>> => Stream' = <<>>,
           \A w \in Nat, r \in Nat, d \in Nat :
             Owned(w, r, d) => (irq'.busy = 1 => r = 0) /\ (irq'.busy = 2 => r = irq'.want + 1)
    PROVE  Session'
<1>1. CASE Quiet
  BY <1>1 DEF Session, Quiet
<1>2. CASE ~Quiet
  <2>1. PICK w \in Nat, r \in Nat, d \in Nat : OnBus(w, r, d) /\ Owned(w, r, d)
    BY <1>2 DEF Session
  <2>2. ~Failed(core') /\ (d <= w => Stream' = <<>>)
    BY <2>1 DEF OnBus
  <2>3. OnBus(w, r, d)'
    BY <2>1, <2>2, SameBus
  <2>4. Owned(w, r, d)'
    BY <2>1 DEF Owned
  <2> QED BY <2>3, <2>4 DEF Session
<1> QED BY <1>1, <1>2

\* The core switched off.
LEMMA SwitchedOff ==
    ASSUME TypesRight, core' = Disabled(core)
    PROVE  Session' /\ core'.rx = <<>> /\ core'.en = FALSE /\ core'.ints = core.ints
<1>1. core \in CoreType
  BY FieldTypes
<1>2. core'.en = FALSE /\ core'.cmds = <<>> /\ core'.cur = Nothing /\ core'.bus = "free" /\ core'.rx = <<>>
      /\ core'.ints = core.ints
  BY <1>1, OperationFields
<1> QED BY <1>2 DEF Session, Quiet, Live

\* A step that takes bytes out of the stream, or none.
LEMMA StreamAfter ==
    ASSUME TypesRight, Stored' \in {Stored, <<>>}, core'.rx \in {core.rx, <<>>}
    PROVE  /\ Segment(Stream', Stream) /\ Stream' \in Seq(Nat) /\ Len(Stream') <= Len(Stream)
           /\ Stream = <<>> => Stream' = <<>>
           /\ Bytes /\ target' = target => Bytes'
<1>1. /\ Stored \in Seq(Nat) /\ core.rx \in Seq(Nat) /\ Stream \in Seq(Nat)
      /\ Len(Stream) = Len(Stored) + Len(core.rx) /\ Len(Stored) \in Nat /\ Len(core.rx) \in Nat
      /\ Segment(Stored, Stream) /\ Segment(core.rx, Stream) /\ Segment(<<>>, Stream) /\ Segment(Stream, Stream)
      /\ Stream = <<>> => Stored = <<>> /\ core.rx = <<>>
  BY StreamFacts
<1>2. Stored \o <<>> = Stored /\ <<>> \o core.rx = core.rx /\ <<>> \o <<>> = <<>> /\ <<>> \in Seq(Nat) /\ Len(<<>>) = 0
  BY <1>1, ConcatEmptySeq, EmptySeq
<1>3. Stream' \in {Stream, Stored, core.rx, <<>>}
  <2>1. Stream' = Stored' \o core'.rx /\ Stream = Stored \o core.rx
    BY DEF Stream
  <2> HIDE DEF Stored
  <2> QED BY <1>2, <2>1
<1> HIDE DEF Stored, Stream
<1>4. Segment(Stream', Stream) /\ Stream' \in Seq(Nat) /\ Len(Stream') <= Len(Stream)
  <2>1. CASE Stream' = Stream
    BY <1>1, <2>1
  <2>2. CASE Stream' = Stored
    <3>1. Segment(Stored, Stream) /\ Stored \in Seq(Nat) /\ Len(Stored) <= Len(Stream)
      BY <1>1
    <3> QED BY <2>2, <3>1
  <2>3. CASE Stream' = core.rx
    <3>1. Segment(core.rx, Stream) /\ core.rx \in Seq(Nat) /\ Len(core.rx) <= Len(Stream)
      BY <1>1
    <3> QED BY <2>3, <3>1
  <2>4. CASE Stream' = <<>>
    <3>1. Segment(<<>>, Stream) /\ <<>> \in Seq(Nat) /\ Len(<<>>) <= Len(Stream)
      BY <1>1, <1>2
    <3> QED BY <2>4, <3>1
  <2> QED BY <1>3, <2>1, <2>2, <2>3, <2>4
<1>5. Stream = <<>> => Stream' = <<>>
  BY <1>1, <1>3
<1>6. ASSUME Bytes, target' = target PROVE Bytes'
  <2>1. target.sent \in Nat
    BY FieldTypes
  <2> QED BY <1>1, <1>4, <1>6, <2>1, OrderedSegment DEF Bytes
<1> QED BY <1>4, <1>5, <1>6

\* Bytes stored while there is nothing else in the buffer but the stream's.
LEMMA SameStream ==
    ASSUME TypesRight, NEW n \in Nat, n <= Len(core.rx),
           Stored' = Stored \o SubSeq(core.rx, 1, n), core'.rx = SubSeq(core.rx, n + 1, Len(core.rx))
    PROVE  Stream' = Stream
<1>1. Stored \in Seq(Nat) /\ core.rx \in Seq(Nat)
  BY StreamFacts
<1>2. Stream' = (Stored \o SubSeq(core.rx, 1, n)) \o SubSeq(core.rx, n + 1, Len(core.rx))
  BY DEF Stream
<1> HIDE DEF Stored
<1>3. (Stored \o SubSeq(core.rx, 1, n)) \o SubSeq(core.rx, n + 1, Len(core.rx)) = Stored \o core.rx
  BY <1>1, BytesMoved
<1> QED BY <1>2, <1>3 DEF Stream

\* Initially.
LEMMA InitProgress == Init => Progress
<1> SUFFICES ASSUME Init PROVE Progress
  OBVIOUS
<1>1. /\ core.en = FALSE /\ core.cmds = <<>> /\ core.cur = Nothing /\ core.bus = "free" /\ core.rx = <<>>
      /\ core.ints = {} /\ target.sent = 0
      /\ call.at = "idle" /\ call.got = <<>> /\ call.rx = 0 /\ irq.busy = 0 /\ irq.got = <<>> /\ irq.want = 0
  BY DEF Init, CoreInit, CoreReset
<1>2. Session
  BY <1>1 DEF Session, Quiet, Live
<1>3. NothingIn /\ Undisturbed /\ Fits
  BY <1>1 DEF NothingIn, Undisturbed, Fits, Writing, AtWork
<1>4. Bytes
  <2>1. Stream = <<>>
    <3>1. Stored = <<>>
      BY <1>1 DEF Stored, AtWork
    <3> QED BY <1>1, <3>1 DEF Stream
  <2> QED BY <1>1, <2>1, OrderedNone DEF Bytes
<1>5. Buffers
  <2>1. Len(<<>>) = 0 /\ Increasing(<<>>)
    BY DEF Increasing
  <2> QED BY <1>1, <2>1 DEF Buffers
<1> QED BY <1>2, <1>3, <1>4, <1>5 DEF Progress

\* The interrupt routine's transaction stays the same.
LEMMA SameIrq ==
    ASSUME irq'.busy = irq.busy, irq'.want = irq.want
    PROVE  \A w \in Nat, r \in Nat, d \in Nat :
             Owned(w, r, d) => (irq'.busy = 1 => r = 0) /\ (irq'.busy = 2 => r = irq'.want + 1)
  BY DEF Owned

\* An empty buffer.
LEMMA EmptyBuffer == Increasing(<<>>) /\ Len(<<>>) = 0
  BY DEF Increasing

\* A call begins.
LEMMA StartProgress ==
    ASSUME Control, Progress,
           NEW op \in {"tx", "rx", "tx_rx"}, NEW use_interrupts \in BOOLEAN, NEW tx \in Nat, NEW rx \in Nat,
           op = "tx" => rx = 0 /\ tx > 0, op = "rx" => tx = 0 /\ rx > 0, op = "tx_rx" => tx > 0 /\ rx > 0,
           Start(op, use_interrupts, tx, rx)
    PROVE  Progress'
<1>1. /\ TypesRight /\ TypesRight' /\ call.at = "idle" /\ isr = "off"
      /\ call'.at = "begin" /\ call'.phase = 1 /\ call'.got = <<>>
      /\ UNCHANGED <<core, target, irq, isr, registered>>
  BY StartEffect DEF At, Control
<1>2. Stored' = Stored
  BY <1>1 DEF Stored, AtWork
<1>3. /\ Segment(Stream', Stream) /\ Len(Stream') <= Len(Stream) /\ (Stream = <<>> => Stream' = <<>>) /\ Bytes'
      /\ Stream' = Stream
  BY <1>1, <1>2, StreamAfter DEF Progress, Stream
<1>4. ~Counting' /\ ~Writing'
  BY <1>1 DEF Counting, Writing, AtWork
<1>5. Session'
  BY <1>1, <1>3, <1>4, SameIrq, NotCountedOn DEF Progress
<1>6. NothingIn' /\ Undisturbed' /\ Fits'
  BY <1>1, <1>3, <1>4 DEF Progress, NothingIn, Undisturbed, Fits, AtWork
<1>7. Buffers'
  <2>1. call'.rx \in Nat
    BY <1>1 DEF TypesRight, CallType
  <2> QED BY <1>1, <2>1, EmptyBuffer DEF Progress, Buffers, Increasing
<1> QED BY <1>3, <1>5, <1>6, <1>7 DEF Progress

\* A transmit or receive is refused.
LEMMA RefuseProgress ==
    ASSUME Control, Progress, call.at = "begin", isr = "off", UNCHANGED <<core, target, irq, isr>>,
           SameOp, call'.at = "return", call'.got = call.got, call'.status \in {BAD_ARG, BUSY}
    PROVE  Progress'
<1>0. TypesRight /\ BAD_ARG # SUCCESS /\ BUSY # SUCCESS
  BY DEF Control, BAD_ARG, BUSY, SUCCESS
<1>2. Stored' = Stored
  BY DEF Stored, AtWork
<1>3. Len(Stream') <= Len(Stream) /\ (Stream = <<>> => Stream' = <<>>) /\ Bytes' /\ Stream' = Stream
  BY <1>0, <1>2, StreamAfter DEF Progress, Stream
<1>4. ~Counting' /\ ~Writing'
  BY <1>0 DEF Counting, Writing, AtWork
<1>5. Session'
  BY <1>0, <1>3, <1>4, SameIrq, NotCountedOn DEF Progress
<1>6. NothingIn' /\ Undisturbed' /\ Fits' /\ Buffers'
  BY <1>3, <1>4 DEF Progress, NothingIn, Undisturbed, Fits, Buffers, AtWork, SameOp, Increasing
<1> QED BY <1>3, <1>5, <1>6 DEF Progress

\* A transaction begins with a clean core.
LEMMA AcceptProgress ==
    ASSUME Control, Progress, call.at = "begin", call.phase = 1, isr = "off", isr' = "off", ~core.en,
           core' = Cleared(Enabled(core)), call.op # "none", SameOp, target' = target,
           call'.at = "cmd", call'.todo = Commands, call'.got = <<>>,
           irq'.busy = 0, irq'.got = irq.got, irq'.want = irq.want
    PROVE  Progress'
<1>0. TypesRight /\ core \in CoreType
  BY FieldTypes DEF Control
<1>1. core'.en = TRUE /\ core'.cmds = <<>> /\ core'.cur = Nothing /\ core'.bus = "free" /\ core'.rx = <<>>
      /\ ~Failed(core') /\ core'.ints = core.ints
  <2> DEFINE on == Enabled(core)
  <2>1. /\ on \in CoreType /\ on.en = TRUE /\ on.cmds = core.cmds /\ on.cur = core.cur /\ on.bus = core.bus
        /\ on.rx = core.rx /\ on.ints = core.ints
    BY <1>0, CoreOperations, OperationFields
  <2>2. core' = Cleared(on)
    OBVIOUS
  <2> HIDE DEF on
  <2>4. /\ Cleared(on).nack = FALSE /\ Cleared(on).arb = FALSE /\ Cleared(on).en = on.en
        /\ Cleared(on).cmds = on.cmds /\ Cleared(on).cur = on.cur /\ Cleared(on).bus = on.bus
        /\ Cleared(on).rx = on.rx /\ Cleared(on).ints = on.ints
    BY <2>1, OperationFields
  <2>3. /\ core'.en = TRUE /\ core'.cmds = core.cmds /\ core'.cur = core.cur /\ core'.bus = core.bus
        /\ core'.rx = core.rx /\ core'.ints = core.ints /\ core'.nack = FALSE /\ core'.arb = FALSE
    BY <2>1, <2>2, <2>4
  <2> QED BY <2>3 DEF Control, CoreQuiet, Failed
<1>2. Stream' = <<>> /\ "tx" \notin core.ints
  <2>1. Stored' = <<>>
    BY DEF Stored, AtWork
  <2> QED BY <1>1, <2>1 DEF Stream, Progress, Undisturbed
<1>3. Bytes'
  <2>1. target.sent \in Nat
    BY <1>0, FieldTypes
  <2> QED BY <1>2, <2>1, OrderedNone DEF Bytes
<1>4. PICK w \in Nat, r \in Nat : w = WriteCount /\ r = ReadCount
  BY <1>0 DEF WriteCount, ReadCount, TypesRight, CallType
<1>5. /\ w + r > 0 /\ w # 1 /\ r # 1
      /\ Len(Commands) = IF call.op = "tx_rx" THEN w ELSE w + r
      /\ \A i \in 1..Len(Commands) : Commands[i] = Step(w, r, i)
  <2> DEFINE end == IF call.op = "tx_rx" THEN w ELSE w + r
             base == 0
  <2>0. /\ end = IF call.op = "tx_rx" /\ call.phase = 1 THEN w ELSE w + r
        /\ base = IF call.phase = 2 THEN w ELSE 0
        /\ base = 0
    OBVIOUS
  <2>c. Len(Commands) \in Nat /\ (\A i \in Nat : 0 + i = i) /\ 1..Len(Commands) \subseteq Nat
    BY <1>0, CommandsFacts
  <2> HIDE DEF base, Commands, Step, end
  <2>1. /\ w + r > 0 /\ w # 1 /\ r # 1 /\ base + Len(Commands) = end
        /\ \A i \in 1..Len(Commands) : Commands[i] = Step(w, r, base + i)
    BY <1>0, <1>4, <2>0, CommandsOfPhase
  <2>2. \A i \in 1..Len(Commands) : Commands[i] = Step(w, r, i)
    <3> TAKE i \in 1..Len(Commands)
    <3>1. Commands[i] = Step(w, r, base + i)
      BY <2>1
    <3>2. base + i = i
      BY <2>0, <2>c
    <3> QED BY <3>1, <3>2
  <2>3. Len(Commands) = end
    BY <2>0, <2>1, <2>c
  <2> QED BY <2>1, <2>2, <2>3 DEF end
<1>6. OnIt' = 0 /\ Len(core'.cmds) = 0 /\ Given(0)' = 0
  BY <1>1 DEF OnIt, Given
<1>a. OnBus(w, r, 0)'
  <2>1. BusAt(w, r, 0)' = "free"
    BY DEF BusAt
  <2>2. 1..0 = {}
    OBVIOUS
  <2> HIDE DEF BusAt, MsgsAt, Step, Given, OnIt
  <2> QED BY <1>1, <1>2, <1>4, <1>5, <1>6, <2>1, <2>2 DEF OnBus
<1>b. Owned(w, r, 0)'
  <2>1. WriteCount' = w /\ ReadCount' = r
    BY <1>4 DEF WriteCount, ReadCount, SameOp
  <2>2. End(w, r)' = IF call.op = "tx_rx" THEN w ELSE w + r
    BY DEF End, SameOp
  <2>3. \A i \in 1..Len(Commands) : Commands[i] = Step(w, r, 0 + i)'
    <3> TAKE i \in 1..Len(Commands)
    <3>1. i \in Int /\ 0 + i = i
      BY <1>0, CommandsFacts
    <3>2. Commands[i] = Step(w, r, i)
      BY <1>5
    <3> QED BY <3>1, <3>2 DEF Step, Command, WriteAddress, ReadAddress
  <2>4. 0 + Len(Commands) = Len(Commands)
    BY <1>0, CommandsFacts
  <2> HIDE DEF Commands, Step, Given, End, WriteCount, ReadCount
  <2> QED BY <1>5, <1>6, <2>1, <2>2, <2>3, <2>4 DEF Owned
<1>7. Session'
  <2>1. 0 \in Nat
    OBVIOUS
  <2> QED BY <1>a, <1>b, <2>1 DEF Session
<1>8. NothingIn' /\ Undisturbed'
  BY <1>1, <1>2 DEF NothingIn, Undisturbed, Writing
<1>9. Fits' /\ Buffers'
  <2>1. call.rx \in Nat /\ (Reads => call.rx > 0) /\ (Reads' <=> Reads) /\ call'.rx = call.rx
    BY <1>0 DEF TypesRight, CallType, CallSound, Reads, SameOp
  <2> QED BY <1>2, <2>1, EmptyBuffer DEF Progress, Fits, Buffers, Increasing
<1> QED BY <1>3, <1>7, <1>8, <1>9 DEF Progress

\* The receive of an operation follows its transmit.
LEMMA FollowProgress ==
    ASSUME Control, Progress, call.at = "begin", call.phase = 2, isr = "off", UNCHANGED <<core, target, irq, isr>>,
           call.op # "none", SameOp, call'.at = "cmd", call'.todo = Commands, call'.got = <<>>
    PROVE  Progress'
<1>0. TypesRight /\ irq.busy = 0 /\ core.rx = <<>> /\ call.op = "tx_rx" /\ "tx" \notin core.ints
  BY DEF Control, Labels, Progress, NothingIn, TypesRight, CallSound, Undisturbed
<1>1. Stream' = <<>> /\ Stream = <<>>
  <2>1. Stored' = <<>> /\ Stored = <<>>
    BY <1>0 DEF Stored, AtWork
  <2> QED BY <1>0, <2>1 DEF Stream
<1>2. Bytes'
  BY <1>1 DEF Progress, Bytes
<1>3. Reads' /\ ~Writing' /\ Counting /\ call.rx \in Nat /\ call.rx > 0 /\ call'.rx = call.rx
  BY <1>0 DEF Reads, Writing, Counting, SameOp, FirstOfTwo, TypesRight, CallType, CallSound
<1>4. Session'
  <2>1. CASE Quiet /\ (Live => ~Counting)
    <3>1. Quiet' /\ ~Live'
      BY <1>3, <2>1 DEF Quiet, Live
    <3> QED BY <3>1 DEF Session
  <2>2. ASSUME NEW w \in Nat, NEW r \in Nat, NEW d \in Nat, OnBus(w, r, d), Owned(w, r, d)
        PROVE  Session'
    <3>1. Given(d) = w /\ w = WriteCount /\ r = ReadCount
      BY <1>0, <1>3, <2>2 DEF Owned, End
    <3>2. OnBus(w, r, d)' /\ Given(d)' = w
      <4>1. ~Failed(core')
        BY <2>2 DEF OnBus
      <4> QED BY <1>1, <2>2, <3>1, <4>1, SameBus
    <3>3. /\ w + Len(Commands) = w + r
          /\ \A i \in 1..Len(Commands) : Commands[i] = Step(w, r, w + i)
      <4> DEFINE e == w + r
      <4>0. e = IF call.op = "tx_rx" /\ call.phase = 1 THEN w ELSE w + r
        OBVIOUS
      <4> HIDE DEF e, Commands, Step
      <4>1. w + Len(Commands) = e /\ \A i \in 1..Len(Commands) : Commands[i] = Step(w, r, w + i)
        BY <1>0, <3>1, <4>0, CommandsOfPhase
      <4> QED BY <4>1 DEF e
    <3>4. Owned(w, r, d)'
      <4>1. WriteCount' = w /\ ReadCount' = r
        BY <3>1 DEF WriteCount, ReadCount, SameOp
      <4>2. End(w, r)' = w + r
        BY DEF End, SameOp
      <4>3. \A i \in 1..Len(Commands) : Commands[i] = Step(w, r, w + i)'
        BY <3>3 DEF Step, Command, WriteAddress, ReadAddress
      <4> HIDE DEF Commands, Step, Given, End, WriteCount, ReadCount
      <4> QED BY <1>0, <3>2, <3>3, <4>1, <4>2, <4>3 DEF Owned
    <3> QED BY <2>2, <3>2, <3>4 DEF Session
  <2> QED BY <2>1, <2>2 DEF Progress, Session
<1>5. NothingIn' /\ Undisturbed'
  BY <1>0, <1>3 DEF Progress, NothingIn, Undisturbed, Writing, Counting
<1>6. Fits' /\ Buffers'
  BY <1>0, <1>1, <1>3, EmptyBuffer DEF Progress, Fits, Buffers, Increasing
<1> QED BY <1>2, <1>4, <1>5, <1>6 DEF Progress

\* The first step of a transmit or receive.
LEMMA BeginProgress == Control /\ Progress /\ Begin => Progress'
<1> SUFFICES ASSUME Control, Progress, Begin PROVE Progress'
  OBVIOUS
<1>1. /\ TypesRight /\ Elsewhere /\ SameOp /\ call.at = "begin" /\ isr = "off" /\ call.op # "none"
      /\ \/ /\ call'.at = "return" /\ call'.got = call.got /\ UNCHANGED <<core, irq>>
            /\ call'.status \in {BAD_ARG, BUSY}
         \/ /\ call'.at = "cmd" /\ call'.todo = Commands /\ call'.got = <<>>
            /\ \/ call.phase = 2 /\ UNCHANGED <<core, irq>>
               \/ /\ call.phase = 1 /\ ~core.en /\ core' = Cleared(Enabled(core))
                  /\ irq' = IF registered THEN [irq EXCEPT !.busy = 0] ELSE irq
  BY BeginEffect DEF Control, At
<1> HIDE DEF Commands
<1>2. UNCHANGED <<target, isr>>
  BY <1>1 DEF Elsewhere
<1>3. CASE call'.at = "return"
  <2>1. call'.got = call.got /\ UNCHANGED <<core, irq>> /\ call'.status \in {BAD_ARG, BUSY}
    BY <1>1, <1>3
  <2> QED BY <1>1, <1>2, <1>3, <2>1, RefuseProgress
<1>4. CASE call'.at = "cmd" /\ call.phase = 2
  <2>1. call'.todo = Commands /\ call'.got = <<>> /\ UNCHANGED <<core, irq>>
    BY <1>1, <1>4
  <2> QED BY <1>1, <1>2, <1>4, <2>1, FollowProgress
<1>5. CASE call'.at = "cmd" /\ call.phase = 1
  <2>1. /\ call'.todo = Commands /\ call'.got = <<>> /\ ~core.en /\ core' = Cleared(Enabled(core))
        /\ irq' = IF registered THEN [irq EXCEPT !.busy = 0] ELSE irq
    BY <1>1, <1>5
  <2>2. irq'.busy = 0 /\ irq'.got = irq.got /\ irq'.want = irq.want
    <3>1. irq \in IrqType /\ (irq.busy # 0 => registered)
      BY <1>1 DEF TypesRight, Control, Labels
    <3>2. CASE registered
      BY <2>1, <3>1, <3>2 DEF IrqType
    <3>3. CASE ~registered
      BY <2>1, <3>1, <3>3
    <3> QED BY <3>2, <3>3
  <2> QED BY <1>1, <1>2, <1>5, <2>1, <2>2, AcceptProgress
<1>6. call.phase \in {1, 2}
  BY <1>1 DEF TypesRight, CallType
<1> QED BY <1>1, <1>3, <1>4, <1>5, <1>6

\* A transmit or receive gives up or finds that the core has failed.
LEMMA GivenUp ==
    ASSUME Control, Progress, call.at \in AtWork, TypesRight', isr = "off", UNCHANGED <<core, target, irq, isr>>, SameOp,
           call'.at = "wait", call'.status # SUCCESS, ~Reads \/ call.irq => call'.got = call.got,
           Increasing(call'.got), Len(call'.got) <= call.rx
    PROVE  Progress'
<1>0. TypesRight /\ irq.busy = 0
  BY DEF Control, Labels
<1>1. Stored' = <<>>
  BY <1>0 DEF Stored, AtWork
<1>2. (Stream = <<>> => Stream' = <<>>) /\ Bytes'
  BY <1>0, <1>1, StreamAfter DEF Progress
<1>3. ~Counting' /\ ~Writing'
  BY DEF Counting, Writing, AtWork
<1>4. Session'
  BY <1>0, <1>2, <1>3, SameIrq, NotCountedOn DEF Progress
<1>5. NothingIn' /\ Undisturbed' /\ Fits'
  BY <1>0, <1>3 DEF Progress, NothingIn, Undisturbed, Fits, AtWork, SameOp, Reads
<1>6. Buffers'
  BY DEF Progress, Buffers, Increasing, SameOp
<1> QED BY <1>2, <1>4, <1>5, <1>6 DEF Progress

\* One more command is given to the core.
LEMMA MoreGiven ==
    ASSUME TypesRight, NEW w \in Nat, NEW r \in Nat, NEW d \in Nat, OnBus(w, r, d), Given(d) + 1 <= w + r,
           core'.en = core.en, core'.cur = core.cur, core'.bus = core.bus, core'.nack = core.nack, core'.arb = core.arb,
           NEW n, n = Given(d) + 1, core'.cmds = Append(core.cmds, Step(w, r, n)), target' = target, Stream' = Stream
    PROVE  OnBus(w, r, d)' /\ Given(d)' = n
<1>1. core.cmds \in Seq(GivenCommand) /\ Len(core.cmds) \in Nat /\ OnIt \in {0, 1} /\ OnIt' = OnIt
  <2>1. core.cmds \in Seq(GivenCommand)
    BY FieldTypes
  <2>2. Len(core.cmds) \in Nat
    BY <2>1
  <2>3. OnIt \in {0, 1} /\ OnIt' = OnIt
    BY DEF OnIt
  <2> QED BY <2>1, <2>2, <2>3
<1>2. Given(d) = d + OnIt + Len(core.cmds) /\ Given(d)' = d + OnIt' + Len(core'.cmds)
  BY DEF Given
<1>3. n \in Nat \ {0}
  <2>1. Given(d) \in Nat
    BY BusFacts
  <2> HIDE DEF Given
  <2> QED BY <2>1
<1>4. Step(w, r, n) \in GivenCommand
  BY <1>3, StepFacts
<1> DEFINE step == Step(w, r, n)
           l == Len(core.cmds)
<1>5. /\ Len(core'.cmds) = l + 1
      /\ \A i \in 1..l + 1 : core'.cmds[i] = IF i = l + 1 THEN step ELSE core.cmds[i]
  <2> HIDE DEF step
  <2> QED BY <1>1, <1>4, AppendProperties DEF step, l
<1>6. Given(d)' = n
  <2>1. \A x \in {0, 1}, y \in Nat : d + x + (y + 1) = d + x + y + 1
    OBVIOUS
  <2> HIDE DEF Step
  <2> QED BY <1>1, <1>2, <1>5, <2>1
<1>7. \A i \in 1..Len(core'.cmds) : core'.cmds[i] = Step(w, r, d + OnIt' + i)
  <2> SUFFICES ASSUME NEW i \in 1..l + 1 PROVE core'.cmds[i] = Step(w, r, d + OnIt' + i)
    BY <1>5
  <2>1. CASE i = l + 1
    <3>1. d + OnIt' + i = n
      <4>1. \A x \in {0, 1}, y \in Nat : d + x + (y + 1) = d + x + y + 1
        OBVIOUS
      <4>2. n = d + OnIt + Len(core.cmds) + 1
        BY <1>2
      <4>3. d + OnIt' + i = d + OnIt + (Len(core.cmds) + 1)
        BY <1>1, <2>1
      <4> HIDE DEF Given, OnIt, l
      <4> QED BY <1>1, <4>1, <4>2, <4>3
    <3> HIDE DEF Step
    <3> QED BY <1>5, <2>1, <3>1
  <2>2. CASE i # l + 1
    <3>1. i \in 1..Len(core.cmds)
      BY <1>1, <2>2
    <3>2. core.cmds[i] = Step(w, r, d + OnIt + i)
      BY <3>1 DEF OnBus
    <3> HIDE DEF Step
    <3> QED BY <1>1, <1>5, <2>2, <3>2
  <2> QED BY <2>1, <2>2
<1>8. /\ core.en /\ ~Failed(core) /\ w + r > 0 /\ w # 1 /\ r # 1
      /\ core.cur # Nothing => core.cur = Step(w, r, d + 1)
      /\ core.bus = BusAt(w, r, d)
      /\ d > 0 => target.msgs = MsgsAt(w, d) /\ target.sent = IF d <= w THEN 0 ELSE d - w - 1
      /\ d <= w => Stream = <<>>
  BY DEF OnBus
<1>9. ~Failed(core')
  BY <1>8 DEF Failed
<1> HIDE DEF Step, Given, OnIt, BusAt, MsgsAt, step, l
<1> QED BY <1>6, <1>7, <1>8, <1>9 DEF OnBus

\* A command written, or the wait for room given up.
LEMMA CmdWriteProgress == Control /\ Progress /\ CmdWrite => Progress'
<1> SUFFICES ASSUME Control, Progress, CmdWrite PROVE Progress'
  OBVIOUS
<1>1. /\ TypesRight /\ TypesRight' /\ UNCHANGED <<target, isr>> /\ SameOp /\ irq' = irq
      /\ call.at = "cmd" /\ isr = "off" /\ call.op # "none"
      /\ call.todo # <<>> /\ call'.got = call.got
      /\ core'.en = core.en /\ core'.cur = core.cur /\ core'.bus = core.bus /\ core'.rx = core.rx
      /\ core'.nack = core.nack /\ core'.arb = core.arb /\ core'.ints = core.ints
      /\ \/ /\ call'.at = "check" /\ call'.todo = Tail(call.todo)
            /\ core'.cmds = IF core.en /\ ~Failed(core) THEN Append(core.cmds, Head(call.todo)) ELSE core.cmds
         \/ call'.at = "wait" /\ call'.status = TIMEOUT /\ core' = core
  BY CmdWriteEffect DEF Control, Elsewhere, At
<1>2. CASE call'.at = "wait"
  <2>1. core' = core /\ call'.status # SUCCESS
    BY <1>1, <1>2 DEF TIMEOUT, SUCCESS
  <2>2. Increasing(call'.got) /\ Len(call'.got) <= call.rx
    BY <1>1 DEF Progress, Buffers, Increasing
  <2> QED BY <1>1, <1>2, <2>1, <2>2, GivenUp DEF AtWork
<1>3. CASE call'.at = "check"
  <2>1. /\ call'.todo = Tail(call.todo)
        /\ core'.cmds = IF core.en /\ ~Failed(core) THEN Append(core.cmds, Head(call.todo)) ELSE core.cmds
    BY <1>1, <1>3
  <2>2. Stored' = Stored /\ Stream' = Stream
    BY <1>1, <1>3 DEF Stream, Stored, AtWork
  <2>3. Counting /\ (Writing' <=> Writing) /\ (Reads' <=> Reads) /\ (Failed(core') <=> Failed(core))
    BY <1>1, <1>3 DEF Counting, Writing, Reads, SameOp, AtWork, Failed
  <2>4. Session'
    <3>1. CASE Quiet /\ (Live => ~Counting)
      <4>1. ~(core.en /\ ~Failed(core))
        BY <1>1, <2>3, <3>1 DEF Live
      <4>2. Quiet' /\ ~Live'
        BY <1>1, <2>1, <2>3, <3>1, <4>1 DEF Quiet, Live
      <4> QED BY <4>2 DEF Session
    <3>2. ASSUME NEW w \in Nat, NEW r \in Nat, NEW d \in Nat, OnBus(w, r, d), Owned(w, r, d)
          PROVE  Session'
      <4>1. /\ w = WriteCount /\ r = ReadCount /\ Given(d) + Len(call.todo) = End(w, r)
            /\ \A i \in 1..Len(call.todo) : call.todo[i] = Step(w, r, Given(d) + i)
        BY <1>1, <2>3, <3>2 DEF Owned
      <4>2. core.en /\ ~Failed(core) /\ Given(d) \in Nat
        BY <1>1, <3>2, BusFacts DEF OnBus
      <4>3. call.todo \in Seq(GivenCommand) /\ Len(call.todo) \in Nat \ {0} /\ 1 \in 1..Len(call.todo)
        <5>1. call.todo \in Seq(GivenCommand)
          BY <1>1 DEF TypesRight, CallType
        <5> QED BY <1>1, <5>1
      <4>4. End(w, r) <= w + r
        BY DEF End
      <4>5. PICK n : n = Given(d) + 1
        OBVIOUS
      <4>6. Head(call.todo) = Step(w, r, n)
        BY <4>1, <4>3, <4>5
      <4>7. Given(d) + 1 <= w + r
        <5>1. End(w, r) \in Nat
          BY DEF End
        <5> HIDE DEF Given, End
        <5> QED BY <4>1, <4>2, <4>3, <4>4, <5>1
      <4>8. OnBus(w, r, d)' /\ Given(d)' = n
        <5>1. core'.cmds = Append(core.cmds, Step(w, r, n))
          BY <2>1, <4>2, <4>6
        <5> HIDE DEF Step, Given, OnBus
        <5> QED BY <1>1, <2>2, <3>2, <4>5, <4>7, <5>1, MoreGiven
      <4>9. Owned(w, r, d)'
        <5>1. WriteCount' = w /\ ReadCount' = r
          BY <1>1, <4>1 DEF WriteCount, ReadCount, SameOp
        <5>2. End(w, r)' = End(w, r)
          BY <1>1, <1>3 DEF End, SameOp
        <5>3. /\ Len(call'.todo) = Len(call.todo) - 1
              /\ \A i \in 1..Len(call'.todo) : call'.todo[i] = call.todo[i + 1] /\ i + 1 \in 1..Len(call.todo)
          BY <2>1, <4>3
        <5>4. n + Len(call'.todo) = End(w, r)
          <6>1. \A x, y \in Nat : (x + 1) + (y - 1) = x + y
            OBVIOUS
          <6>2. (Given(d) + 1) + (Len(call.todo) - 1) = Given(d) + Len(call.todo)
            BY <4>2, <4>3, <6>1
          <6> HIDE DEF Given, End
          <6> QED BY <4>1, <4>5, <5>3, <6>2
        <5>5. \A i \in 1..Len(call'.todo) : call'.todo[i] = Step(w, r, n + i)'
          <6> TAKE i \in 1..Len(call'.todo)
          <6>1. call'.todo[i] = Step(w, r, Given(d) + (i + 1))
            BY <4>1, <5>3
          <6>2. i \in Nat /\ Given(d) + (i + 1) = n + i
            BY <4>2, <4>3, <4>5, <5>3
          <6>3. call'.todo[i] = Step(w, r, n + i)
            BY <6>1, <6>2
          <6> QED BY <6>3 DEF Step, Command, WriteAddress, ReadAddress
        <5>6. irq'.busy = irq.busy /\ irq'.want = irq.want
          BY <1>1
        <5>7. (irq'.busy = 1 => r = 0) /\ (irq'.busy = 2 => r = irq'.want + 1)
          BY <3>2, <5>6 DEF Owned
        <5> HIDE DEF Given, End, Step, WriteCount, ReadCount
        <5> QED BY <1>3, <4>8, <5>1, <5>2, <5>4, <5>5, <5>7 DEF Owned
      <4> QED BY <3>2, <4>8, <4>9 DEF Session
    <3> QED BY <3>1, <3>2 DEF Progress, Session
  <2>5. Bytes'
    BY <1>1, <2>2 DEF Progress, Bytes
  <2>6. NothingIn' /\ Undisturbed'
    BY <1>1, <1>3, <2>3 DEF Progress, NothingIn, Undisturbed, AtWork, SameOp
  <2>7. Fits' /\ Buffers'
    BY <1>1, <1>3, <2>2, <2>3 DEF Progress, Fits, Buffers, Increasing, AtWork, SameOp
  <2> QED BY <2>4, <2>5, <2>6, <2>7 DEF Progress
<1> QED BY <1>1, <1>2, <1>3

\* A step after which the call counts on the core as it did.
LEMMA StillCountedOn ==
    ASSUME TypesRight, Session, Counting,
           core'.en = core.en, core'.cmds = core.cmds, core'.cur = core.cur, core'.bus = core.bus,
           core'.nack = core.nack, core'.arb = core.arb, UNCHANGED <<target, isr, irq>>,
           Stream = <<>> => Stream' = <<>>,
           WriteCount' = WriteCount, ReadCount' = ReadCount,
           \A w \in Nat, r \in Nat : End(w, r)' = End(w, r),
           \/ call.at \in {"cmd", "check"} /\ call'.at \in {"cmd", "check"} /\ call'.todo = call.todo
           \/ (call.at \notin {"cmd", "check"} \/ call.todo = <<>>) /\ call'.at \notin {"cmd", "check"}
    PROVE  Session'
<1>0. Failed(core') <=> Failed(core)
  BY DEF Failed
<1>1. CASE Quiet /\ (Live => ~Counting)
  <2>1. Quiet' /\ ~Live'
    BY <1>0, <1>1 DEF Quiet, Live
  <2> QED BY <2>1 DEF Session
<1>2. ASSUME NEW w \in Nat, NEW r \in Nat, NEW d \in Nat, OnBus(w, r, d), Owned(w, r, d)
      PROVE  Session'
  <2>1. OnBus(w, r, d)' /\ Given(d)' = Given(d)
    <3>1. ~Failed(core') /\ (d <= w => Stream' = <<>>)
      BY <1>0, <1>2 DEF OnBus
    <3> QED BY <1>2, <3>1, SameBus
  <2>2. /\ w = WriteCount /\ r = ReadCount
        /\ call.at \in {"cmd", "check"} =>
             /\ Given(d) + Len(call.todo) = End(w, r)
             /\ \A i \in 1..Len(call.todo) : call.todo[i] = Step(w, r, Given(d) + i)
        /\ call.at \notin {"cmd", "check"} => Given(d) = End(w, r)
        /\ (irq.busy = 1 => r = 0) /\ (irq.busy = 2 => r = irq.want + 1)
    BY <1>2 DEF Owned
  <2>3. Given(d) \in Nat /\ End(w, r)' = End(w, r)
    BY <1>2, BusFacts
  <2>4. Owned(w, r, d)'
    <3> HIDE DEF Step, End, Given, WriteCount, ReadCount
    <3>1. CASE call'.at \in {"cmd", "check"}
      <4>1. call.at \in {"cmd", "check"} /\ call'.todo = call.todo
        BY <3>1
      <4>2. \A i \in 1..Len(call.todo) : call.todo[i] = Step(w, r, Given(d) + i)'
        <5> TAKE i \in 1..Len(call.todo)
        <5>1. call.todo[i] = Step(w, r, Given(d) + i)
          BY <2>2, <4>1
        <5> QED BY <2>1, <5>1 DEF Step, Command, WriteAddress, ReadAddress
      <4> QED BY <2>1, <2>2, <2>3, <3>1, <4>1, <4>2 DEF Owned
    <3>2. CASE call'.at \notin {"cmd", "check"}
      <4>1. Given(d) = End(w, r)
        <5>1. CASE call.at \notin {"cmd", "check"}
          BY <2>2, <5>1
        <5>2. CASE call.at \in {"cmd", "check"}
          <6>1. Len(call.todo) = 0
            BY <3>2, <5>2
          <6> QED BY <2>2, <2>3, <5>2, <6>1
        <5> QED BY <5>1, <5>2
      <4> QED BY <2>1, <2>2, <2>3, <3>2, <4>1 DEF Owned
    <3> QED BY <3>1, <3>2
  <2> QED BY <1>2, <2>1, <2>4 DEF Session
<1> QED BY <1>1, <1>2 DEF Session

\* While the program has commands left to write, not all bytes have come.
LEMMA MoreToCome ==
    ASSUME Control, Progress, call.at \in {"cmd", "check"}, isr = "off", core.en, ~Failed(core), Reads,
           call.todo # <<>>
    PROVE  Len(Stream) < call.rx
<1>1. TypesRight /\ call.op # "none" /\ core.rx \in Seq(Nat) /\ call.todo \in Seq(GivenCommand) /\ call.rx \in Nat
      /\ call.op \in {"tx", "rx", "tx_rx"} /\ (call.phase = 2 => call.op = "tx_rx")
      /\ (Reads => call.rx > 0)
  BY FieldTypes DEF Control, TypesRight, CallSound, CallType, Reads
<1>2. ~(Quiet /\ (Live => ~Counting))
  BY DEF Live, Counting, AtWork
<1>3. ASSUME NEW w \in Nat, NEW r \in Nat, NEW d \in Nat, OnBus(w, r, d), Owned(w, r, d)
      PROVE  Len(Stream) < call.rx
  <2>1. Given(d) + Len(call.todo) = End(w, r) /\ r = ReadCount
    BY <1>3 DEF Owned, Counting, AtWork
  <2>2. Given(d) \in Nat /\ d <= Given(d) /\ Len(call.todo) \in Nat \ {0}
    BY <1>1, <1>3, BusFacts
  <2>3. End(w, r) = w + r /\ r = call.rx + 1
    BY <1>1, <2>1 DEF End, ReadCount, Reads
  <2>4. d <= w + call.rx
    <3>1. \A x, y \in Nat : y # 0 /\ x + y = w + (call.rx + 1) => x <= w + call.rx
      BY <1>1
    <3>2. Given(d) <= w + call.rx
      BY <1>1, <2>1, <2>2, <2>3, <3>1
    <3> HIDE DEF Given
    <3> QED BY <1>1, <2>2, <3>2
  <2>5. CASE d <= w
    BY <1>1, <1>3, <2>5 DEF OnBus
  <2>6. CASE d > w
    <3>1. target.sent = d - w - 1
      BY <1>3, <2>6 DEF OnBus
    <3>2. Len(Stream) <= target.sent /\ Len(Stream) \in Nat
      <4>1. Stream \in Seq(Nat)
        BY <1>1, StreamFacts
      <4>2. Len(Stream) \in Nat
        BY <4>1
      <4> QED BY <4>2 DEF Progress, Bytes, OrderedBytes
    <3> QED BY <1>1, <2>4, <2>6, <3>1, <3>2
  <2> QED BY <2>5, <2>6
<1> QED BY <1>2, <1>3 DEF Progress, Session

\* The status looked at.
LEMMA CmdCheckProgress == Control /\ Progress /\ CmdCheck => Progress'
<1> SUFFICES ASSUME Control, Progress, CmdCheck PROVE Progress'
  OBVIOUS
<1>1. /\ TypesRight /\ TypesRight' /\ UNCHANGED <<target, isr>> /\ SameOp /\ irq' = irq
      /\ call.at = "check" /\ isr = "off" /\ call.op # "none" /\ core \in CoreType
      /\ call'.todo = call.todo /\ call'.status = Checked
      /\ \/ Failed(core) /\ call'.at = "wait" /\ call'.got = call.got /\ core' = core
         \/ /\ ~Failed(core) /\ call.todo # <<>> /\ call'.at = "cmd"
            /\ \/ /\ Receiving /\ ~call.irq
                  /\ call'.got = call.got \o core.rx /\ core' = [core EXCEPT !.rx = <<>>]
               \/ ~(Receiving /\ ~call.irq) /\ call'.got = call.got /\ core' = core
         \/ /\ ~Failed(core) /\ call.todo = <<>> /\ call'.got = call.got /\ core' = core
            /\ call'.at = IF Receiving /\ ~call.irq THEN "take"
                           ELSE IF FirstOfTwo THEN "return" ELSE IF call.irq THEN "arm" ELSE "wait"
  BY CmdCheckEffect, FieldTypes DEF Control, Elsewhere, At
<1>2. (Receiving <=> Reads) /\ (Checked = SUCCESS <=> ~Failed(core))
  BY <1>1, PhaseFacts, CheckedFacts DEF Reads
<1>3. irq.busy = 0 /\ Counting /\ (Reads' <=> Reads) /\ (FirstOfTwo => ~Reads) /\ Stored = call.got
  BY <1>1 DEF Control, Labels, Counting, AtWork, Reads, SameOp, FirstOfTwo, TypesRight, CallSound, Stored
<1>4. /\ WriteCount' = WriteCount /\ ReadCount' = ReadCount
      /\ call'.at # "begin" => \A w \in Nat, r \in Nat : End(w, r)' = End(w, r)
  BY <1>1 DEF WriteCount, ReadCount, End, SameOp
<1> HIDE DEF Checked, Receiving
<1>5. CASE Failed(core)
  <2>1. Increasing(call'.got) /\ Len(call'.got) <= call.rx /\ call'.at = "wait" /\ core' = core /\ call'.got = call.got
    BY <1>1, <1>5 DEF Progress, Buffers, Increasing
  <2>2. call'.status # SUCCESS
    BY <1>1, <1>2, <1>5
  <2> QED BY <1>1, <2>1, <2>2, GivenUp DEF AtWork
<1>6. CASE ~Failed(core) /\ call.todo # <<>>
  <2>1. /\ call'.at = "cmd"
        /\ \/ /\ Reads /\ ~call.irq
              /\ call'.got = call.got \o core.rx /\ core' = [core EXCEPT !.rx = <<>>]
           \/ ~(Reads /\ ~call.irq) /\ call'.got = call.got /\ core' = core
    BY <1>1, <1>2, <1>6
  <2>2. /\ core'.en = core.en /\ core'.cmds = core.cmds /\ core'.cur = core.cur /\ core'.bus = core.bus
        /\ core'.nack = core.nack /\ core'.arb = core.arb /\ core'.ints = core.ints
        /\ core'.rx \in {core.rx, <<>>}
    <3>1. CASE core' = [core EXCEPT !.rx = <<>>]
      BY <1>1, <3>1, BytesTaken
    <3>2. CASE core' = core
      BY <3>2
    <3> QED BY <2>1, <3>1, <3>2
  <2>3. Stored' = call'.got
    BY <2>1 DEF Stored, AtWork
  <2>4. Stream' = Stream
    <3>1. CASE Reads /\ ~call.irq
      <4>1. core'.rx = <<>> /\ call'.got = call.got \o core.rx
        BY <1>1, <2>1, <3>1, BytesTaken
      <4>2. Stream = call.got \o core.rx /\ Stream \in Seq(Nat)
        BY <1>1, <1>3, StreamFacts DEF Stream
      <4>3. Stream' = call'.got \o <<>>
        BY <2>3, <4>1 DEF Stream
      <4>4. Stream \o <<>> = Stream
        BY <4>2, ConcatEmptySeq
      <4> QED BY <4>1, <4>2, <4>3, <4>4
    <3>2. CASE ~(Reads /\ ~call.irq)
      BY <1>3, <2>1, <2>3, <3>2 DEF Stream
    <3> QED BY <3>1, <3>2
  <2>5. Session'
    BY <1>1, <1>3, <1>4, <2>1, <2>2, <2>4, StillCountedOn DEF Progress
  <2>6. Bytes'
    BY <1>1, <2>4 DEF Progress, Bytes
  <2>7. NothingIn' /\ Undisturbed'
    <3>1. Writing' <=> Writing
      BY <1>1, <1>3, <2>1 DEF Writing, AtWork
    <3> QED BY <1>1, <1>3, <2>1, <2>2, <3>1 DEF Progress, NothingIn, Undisturbed, AtWork, SameOp
  <2>8. Increasing(call'.got) /\ Len(call'.got) <= call.rx /\ (Reads => Len(call'.got) < call.rx)
    <3>1. CASE call'.got = call.got
      BY <1>1, <3>1 DEF Progress, Buffers, Fits, AtWork, Increasing
    <3>2. CASE Reads /\ ~call.irq /\ call'.got # call.got
      <4>1. call'.got = call.got \o core.rx /\ call'.got = Stream
        BY <1>3, <2>1, <3>2 DEF Stream
      <4>2. core.rx # <<>>
        <5>1. call.got \in Seq(Nat)
          BY <1>1, FieldTypes
        <5> QED BY <3>2, <4>1, <5>1, ConcatEmptySeq
      <4>3. Len(Stream) < call.rx
        <5>1. core.en
          BY <4>2 DEF Control, CoreQuiet
        <5> QED BY <1>1, <1>6, <3>2, <5>1, MoreToCome
      <4>4. Stream \in Seq(Nat) /\ target.sent \in Nat
        BY <1>1, StreamFacts, FieldTypes
      <4>5. Increasing(Stream)
        BY <4>4, OrderedIncreasing DEF Progress, Bytes
      <4>6. call.rx \in Nat /\ Len(Stream) \in Nat
        BY <1>1, <4>4 DEF TypesRight, CallType
      <4> QED BY <4>1, <4>3, <4>5, <4>6
    <3> QED BY <2>1, <3>1, <3>2
  <2>9. Fits' /\ Buffers'
    <3>1. Len(Stream) <= call.rx
      BY <1>1 DEF Progress, Fits, AtWork
    <3> QED BY <1>1, <1>3, <2>4, <2>8, <3>1 DEF Progress, Fits, Buffers, Increasing, SameOp
  <2> QED BY <2>5, <2>6, <2>7, <2>9 DEF Progress
<1>7. CASE ~Failed(core) /\ call.todo = <<>>
  <2>1. /\ call'.got = call.got /\ core' = core /\ call'.status = SUCCESS
        /\ call'.at = IF Reads /\ ~call.irq THEN "take"
                       ELSE IF FirstOfTwo THEN "return" ELSE IF call.irq THEN "arm" ELSE "wait"
    BY <1>1, <1>2, <1>7
  <2>2. Stored' = Stored
    <3>1. CASE call'.at \in AtWork
      BY <1>3, <2>1, <3>1 DEF Stored
    <3>2. CASE call'.at \notin AtWork
      <4>1. call.got = <<>>
        BY <1>1, <1>3, <2>1, <3>2 DEF Progress, NothingIn, AtWork
      <4> QED BY <1>1, <1>3, <3>2, <4>1 DEF Stored
    <3> QED BY <3>1, <3>2
  <2>3. Stream' = Stream
    BY <2>1, <2>2 DEF Stream
  <2>4. Session'
    BY <1>1, <1>3, <1>4, <1>7, <2>1, <2>3, StillCountedOn DEF Progress
  <2>5. Bytes'
    BY <1>1, <2>3 DEF Progress, Bytes
  <2>6. NothingIn' /\ Undisturbed'
    <3>1. Writing' => Writing
      BY <1>1, <1>3, <2>1 DEF Writing, AtWork
    <3> QED BY <1>1, <1>3, <2>1, <3>1 DEF Progress, NothingIn, Undisturbed, AtWork, SameOp
  <2>7. Fits' /\ Buffers'
    <3>1. Len(Stream) <= call.rx /\ (Reads => Len(call.got) < call.rx)
      BY <1>1 DEF Progress, Fits, AtWork
    <3> QED BY <1>1, <1>3, <2>1, <2>3, <3>1 DEF Progress, Fits, Buffers, Increasing, SameOp
  <2> QED BY <2>4, <2>5, <2>6, <2>7 DEF Progress
<1> QED BY <1>5, <1>6, <1>7

\* A byte taken, or the wait for it given up.
LEMMA RxReadProgress == Control /\ Progress /\ RxRead => Progress'
<1> SUFFICES ASSUME Control, Progress, RxRead PROVE Progress'
  OBVIOUS
<1>1. /\ TypesRight /\ TypesRight' /\ UNCHANGED <<target, isr>> /\ SameOp /\ irq' = irq
      /\ call.at = "take" /\ isr = "off" /\ call.op # "none" /\ core \in CoreType
      /\ irq.busy = 0 /\ Reads /\ ~call.irq /\ ~FirstOfTwo
  <2>1. TypesRight /\ Labels
    BY DEF Control
  <2>2. /\ TypesRight' /\ UNCHANGED <<target, isr>> /\ SameOp /\ irq' = irq
        /\ call.at = "take" /\ isr = "off" /\ call.op # "none"
    BY <2>1, RxReadEffect DEF Elsewhere, At
  <2>3. irq.busy = 0 /\ Reads /\ ~call.irq
    BY <2>1, <2>2 DEF Labels, AtWork
  <2>4. ~FirstOfTwo
    BY <2>3 DEF FirstOfTwo, Reads
  <2> QED BY <2>1, <2>2, <2>3, <2>4, FieldTypes
<1>2. PICK byte \in Nat :
        /\ call'.got = Append(call.got, byte)
        /\ \/ core.rx # <<>> /\ byte = Head(core.rx) /\ core' = [core EXCEPT !.rx = Tail(core.rx)]
           \/ core.rx = <<>> /\ byte = GARBAGE /\ core' = core
        /\ \/ byte = GARBAGE /\ call'.status = TIMEOUT /\ call'.at = "wait"
           \/ /\ byte # GARBAGE /\ call'.status = SUCCESS
              /\ call'.at = IF Len(call.got) + 1 < Phase.size THEN "take"
                             ELSE IF FirstOfTwo THEN "return" ELSE IF call.irq THEN "arm" ELSE "wait"
  BY <1>1, RxReadEffect DEF Control
<1>3. Stored = call.got /\ Stream = call.got \o core.rx
  BY <1>1 DEF Stream, Stored, AtWork
<1>4. /\ call.got \in Seq(Nat) /\ core.rx \in Seq(Nat) /\ Stream \in Seq(Nat) /\ target.sent \in Nat /\ call.rx \in Nat
      /\ Len(call.got) \in Nat
  BY <1>1, FieldTypes, StreamFacts DEF TypesRight, CallType
<1>5. Len(call.got) < call.rx /\ Len(Stream) <= call.rx /\ Increasing(call.got)
  BY <1>1 DEF Progress, Fits, Buffers, AtWork
<1>6. Phase.size = call.rx
  BY <1>1, PhaseFacts DEF Reads
<1>7. CASE byte = GARBAGE
  <2>1. core' = core
    <3>1. CASE core.rx # <<>>
      <4>1. byte = Head(core.rx) /\ Head(core.rx) = core.rx[1] /\ 1 \in 1..Len(core.rx)
        BY <1>2, <1>4, <3>1
      <4>2. Segment(core.rx, Stream)
        BY <1>1, StreamFacts
      <4>3. OrderedBytes(core.rx, target.sent)
        BY <1>4, <4>2, OrderedSegment DEF Progress, Bytes
      <4>4. byte \in 1..target.sent
        BY <4>1, <4>3 DEF OrderedBytes
      <4> QED BY <1>4, <1>7, <4>4 DEF GARBAGE
    <3> QED BY <1>2, <3>1
  <2>2. call'.got = Append(call.got, GARBAGE) /\ call'.at = "wait" /\ call'.status # SUCCESS
    BY <1>2, <1>7 DEF TIMEOUT, SUCCESS
  <2>3. Increasing(call'.got)
    BY <1>4, <1>5, <2>2, GarbageBehind
  <2>4. Len(call'.got) <= call.rx
    BY <1>4, <1>5, <2>2
  <2> QED BY <1>1, <2>1, <2>2, <2>3, <2>4, GivenUp DEF AtWork
<1>8. CASE byte # GARBAGE
  <2>1. /\ core.rx # <<>> /\ byte = Head(core.rx) /\ core' = [core EXCEPT !.rx = Tail(core.rx)]
        /\ call'.status = SUCCESS
        /\ call'.at = IF Len(call.got) + 1 < call.rx THEN "take" ELSE "wait"
    BY <1>1, <1>2, <1>6, <1>8
  <2>2. /\ core'.en = core.en /\ core'.cmds = core.cmds /\ core'.cur = core.cur /\ core'.bus = core.bus
        /\ core'.nack = core.nack /\ core'.arb = core.arb /\ core'.ints = core.ints /\ core'.rx = Tail(core.rx)
    BY <1>1, <2>1, BytesTaken
  <2>3. /\ call'.got = call.got \o SubSeq(core.rx, 1, 1) /\ core'.rx = SubSeq(core.rx, 2, Len(core.rx))
        /\ 1 <= Len(core.rx) /\ core'.rx \in Seq(Nat)
    <3> DEFINE t == core.rx
               s == call.got
    <3>1. t \in Seq(Nat) /\ s \in Seq(Nat) /\ t # <<>> /\ byte = Head(t) /\ core'.rx = Tail(t) /\ call'.got = Append(s, byte)
      BY <1>2, <1>4, <2>1, <2>2
    <3> HIDE DEF t, s
    <3>2. SubSeq(t, 1, 1) = <<byte>> /\ Tail(t) = SubSeq(t, 2, Len(t)) /\ 1 <= Len(t) /\ Tail(t) \in Seq(Nat)
      <4>1. Len(t) \in Nat /\ 1 <= Len(t) /\ byte = t[1]
        BY <3>1
      <4>2. PICK k \in Nat : k = 1 /\ k + 1 = 2
        OBVIOUS
      <4>3. /\ SubSeq(t, 1, k) \in Seq(Nat) /\ Len(SubSeq(t, 1, k)) = k
            /\ \A i \in 1..k : SubSeq(t, 1, k)[i] = t[i]
            /\ SubSeq(t, k + 1, Len(t)) \in Seq(Nat) /\ Len(SubSeq(t, k + 1, Len(t))) = Len(t) - k
            /\ \A i \in 1..Len(t) - k : SubSeq(t, k + 1, Len(t))[i] = t[k + i]
        BY <3>1, <4>1, <4>2, Halves
      <4> DEFINE a == SubSeq(t, 1, 1)
                 b == SubSeq(t, 2, Len(t))
      <4>4. /\ a \in Seq(Nat) /\ Len(a) = 1 /\ a[1] = t[1]
            /\ b \in Seq(Nat) /\ Len(b) = Len(t) - 1
            /\ \A i \in 1..Len(t) - 1 : b[i] = t[1 + i]
        BY <4>2, <4>3
      <4> HIDE DEF a, b
      <4>5. a = <<byte>>
        BY <4>1, <4>4
      <4>6. Tail(t) \in Seq(Nat) /\ Len(Tail(t)) = Len(t) - 1 /\ \A i \in 1..Len(t) - 1 : Tail(t)[i] = t[i + 1]
        BY <3>1
      <4>7. Tail(t) = b
        <5>1. \A i \in 1..Len(t) - 1 : Tail(t)[i] = b[i]
          BY <4>1, <4>4, <4>6
        <5> QED BY <4>4, <4>6, <5>1, SeqEqual
      <4> QED BY <4>1, <4>5, <4>6, <4>7 DEF a, b
    <3>3. Append(s, byte) = s \o <<byte>>
      BY <3>1
    <3> QED BY <3>1, <3>2, <3>3 DEF t, s
  <2>4. call'.got \o core'.rx = Stream /\ call'.got \in Seq(Nat)
    <3>1. call'.got \in Seq(Nat)
      BY <1>2, <1>4
    <3>2. call'.got \o core'.rx = call.got \o core.rx
      <4>1. PICK n \in Nat : n = 1 /\ n + 1 = 2
        OBVIOUS
      <4> DEFINE g == call.got
                 t == core.rx
      <4>2. g \in Seq(Nat) /\ t \in Seq(Nat) /\ n <= Len(t)
        BY <1>4, <2>3, <4>1
      <4>3. call'.got = g \o SubSeq(t, 1, n) /\ core'.rx = SubSeq(t, n + 1, Len(t))
        BY <2>3, <4>1
      <4> HIDE DEF g, t
      <4>4. (g \o SubSeq(t, 1, n)) \o SubSeq(t, n + 1, Len(t)) = g \o t
        BY <4>2, BytesMoved
      <4> QED BY <4>3, <4>4 DEF g, t
    <3> QED BY <1>3, <3>1, <3>2
  <2>5. /\ Segment(call'.got, Stream) /\ Segment(core'.rx, Stream)
        /\ Len(call'.got) = Len(call.got) + 1 /\ Len(call'.got) \in Nat
    <3>1. Segment(call'.got, call'.got \o core'.rx) /\ Segment(core'.rx, call'.got \o core'.rx)
      BY <2>3, <2>4, Parts
    <3>2. Len(call'.got) = Len(call.got) + 1
      BY <1>2, <1>4
    <3> QED BY <1>4, <2>4, <3>1, <3>2
  <2>6. OrderedBytes(call'.got, target.sent) /\ OrderedBytes(core'.rx, target.sent)
    BY <1>4, <2>3, <2>4, <2>5, OrderedSegment DEF Progress, Bytes
  <2>7. Increasing(call'.got) /\ Len(call'.got) <= call.rx
    <3>1. Increasing(call'.got)
      BY <1>4, <2>4, <2>6, OrderedIncreasing
    <3> QED BY <1>4, <1>5, <2>5, <3>1
  <2>8. IF call'.at = "take" THEN Stream' = Stream ELSE Stream' = core'.rx
    <3>1. CASE call'.at = "take"
      <4>1. Stored' = call'.got
        BY <3>1 DEF Stored, AtWork
      <4> QED BY <2>4, <3>1, <4>1 DEF Stream
    <3>2. CASE call'.at = "wait"
      <4>1. Stored' = <<>>
        BY <1>1, <3>2 DEF Stored, AtWork
      <4> QED BY <2>3, <3>2, <4>1, ConcatEmptySeq DEF Stream
    <3> QED BY <2>1, <3>1, <3>2
  <2>9. Bytes'
    BY <1>1, <2>6, <2>8 DEF Progress, Bytes
  <2>10. Session'
    <3>1. Counting /\ Stream # <<>>
      <4>1. Stream = <<>> => core.rx = <<>>
        BY <1>1, StreamFacts
      <4> QED BY <1>1, <2>1, <4>1 DEF Counting, AtWork
    <3>2. /\ WriteCount' = WriteCount /\ ReadCount' = ReadCount
          /\ \A w \in Nat, r \in Nat : End(w, r)' = End(w, r)
      BY <1>1, <2>1 DEF WriteCount, ReadCount, End, SameOp
    <3> HIDE DEF Stream
    <3>3. call.at \notin {"cmd", "check"} /\ call'.at \notin {"cmd", "check"}
      BY <1>1, <2>1
    <3> QED BY <1>1, <2>2, <3>1, <3>2, <3>3, StillCountedOn DEF Progress
  <2>11. NothingIn' /\ Undisturbed'
    <3>1. ~Writing /\ ~Writing' /\ Reads' /\ ~call'.irq /\ call'.at # "begin" /\ call'.at # "return"
      BY <1>1, <2>1 DEF Writing, Reads, SameOp
    <3> QED BY <1>1, <2>1, <2>2, <3>1 DEF Progress, NothingIn, Undisturbed
  <2>12. Fits' /\ Buffers'
    <3>1. call'.at = "take" => Len(call'.got) < call.rx /\ Len(Stream') <= call.rx
      BY <1>5, <2>1, <2>5, <2>8
    <3>2. call'.rx = call.rx /\ (call'.at \in AtWork => call'.at = "take")
      BY <1>1, <2>1 DEF SameOp, AtWork
    <3> QED BY <1>1, <2>7, <3>1, <3>2 DEF Progress, Fits, Buffers, Increasing
  <2> QED BY <2>9, <2>10, <2>11, <2>12 DEF Progress
<1> QED BY <1>7, <1>8

\* The core switched off by the program.
LEMMA WaitIdleProgress == Control /\ Progress /\ WaitIdle => Progress'
<1> SUFFICES ASSUME Control, Progress, WaitIdle PROVE Progress'
  OBVIOUS
<1>1. /\ TypesRight /\ UNCHANGED <<target, isr>> /\ SameOp /\ irq' = irq /\ call.at = "wait" /\ irq.busy = 0
      /\ call'.at = "return" /\ call'.got = call.got /\ core' = Disabled(core)
      /\ call'.status = IF core.nack /\ ~call.irq THEN NACK_ERR ELSE IF Busy(core) THEN TIMEOUT ELSE call.status
      /\ call.status = SUCCESS => ~FirstOfTwo
  BY WaitIdleEffect DEF Control, Labels, Elsewhere, At
<1>2. Session' /\ core'.rx = <<>> /\ core'.en = FALSE /\ core'.ints = core.ints
  BY <1>1, SwitchedOff
<1>3. Bytes'
  <2>1. Stored' = <<>>
    BY <1>1 DEF Stored, AtWork
  <2> QED BY <1>1, <1>2, <2>1, StreamAfter DEF Progress
<1>4. ~Writing'
  BY <1>1 DEF Writing, AtWork, FirstOfTwo, SameOp, NACK_ERR, TIMEOUT, SUCCESS
<1>5. NothingIn' /\ Undisturbed' /\ Fits' /\ Buffers'
  BY <1>1, <1>2, <1>4 DEF Progress, NothingIn, Undisturbed, Fits, Buffers, Increasing, AtWork, SameOp
<1> QED BY <1>2, <1>3, <1>5 DEF Progress

\* The interrupts armed.
LEMMA ArmProgress == Control /\ Progress /\ Arm => Progress'
<1> SUFFICES ASSUME Control, Progress, Arm PROVE Progress'
  OBVIOUS
<1>1. /\ TypesRight /\ UNCHANGED <<target, isr>> /\ SameOp /\ call.at = "arm" /\ isr = "off" /\ call.op # "none"
      /\ call'.at = "return" /\ call'.got = call.got
      /\ core'.en = core.en /\ core'.cmds = core.cmds /\ core'.cur = core.cur /\ core'.bus = core.bus
      /\ core'.rx = core.rx /\ core'.nack = FALSE /\ core'.arb = FALSE
      /\ \/ /\ Receiving /\ core'.ints = core.ints \cup {"rx"}
            /\ irq' = [busy |-> 2, size |-> Phase.size, got |-> <<>>, want |-> Phase.size]
         \/ ~Receiving /\ core'.ints = core.ints \cup {"tx"} /\ irq' = [irq EXCEPT !.busy = 1]
      /\ irq.busy = 0 /\ ~FirstOfTwo /\ call.irq /\ irq \in IrqType
  BY ArmEffect, FieldTypes DEF Control, Labels, Elsewhere, At, AtWork
<1>2. (Receiving <=> Reads) /\ (Receiving => Phase.size = call.rx) /\ (~Reads => call.op = "tx") /\ call.rx \in Nat
  BY <1>1, PhaseFacts DEF Reads, FirstOfTwo, TypesRight, CallType
<1>3. call.got = <<>> /\ (~Reads => core.rx = <<>> /\ core.en) /\ "tx" \notin core.ints /\ Counting
  BY <1>1 DEF Progress, NothingIn, Undisturbed, Writing, AtWork, Counting
<1>4. /\ Reads => irq'.busy = 2 /\ irq'.size = call.rx /\ irq'.got = <<>> /\ irq'.want = call.rx
                  /\ core'.ints = core.ints \cup {"rx"}
      /\ ~Reads => irq'.busy = 1 /\ irq'.got = irq.got /\ irq'.want = irq.want
  <2>1. CASE Reads
    BY <1>1, <1>2, <2>1
  <2>2. CASE ~Reads
    <3>1. irq' = [irq EXCEPT !.busy = 1]
      BY <1>1, <1>2, <2>2
    <3> QED BY <1>1, <2>2, <3>1 DEF IrqType
  <2> QED BY <2>1, <2>2
<1>5. Stored' = <<>> /\ Stored = <<>>
  BY <1>1, <1>3, <1>4 DEF Stored, AtWork
<1>6. Stream' = Stream /\ (Stream = <<>> => Stream' = <<>>)
  BY <1>1, <1>5 DEF Stream
<1>7. ~Counting' /\ ~Writing'
  BY <1>1 DEF Counting, Writing, AtWork, FirstOfTwo, SameOp
<1>8. Session'
  <2>1. \A w \in Nat, r \in Nat, d \in Nat :
          Owned(w, r, d) => (irq'.busy = 1 => r = 0) /\ (irq'.busy = 2 => r = irq'.want + 1)
    <3> TAKE w \in Nat, r \in Nat, d \in Nat
    <3> HAVE Owned(w, r, d)
    <3>1. r = ReadCount
      BY <1>3 DEF Owned
    <3>2. (Reads => call.op # "tx") /\ (~Reads => call.op = "tx")
      BY <1>1, <1>2 DEF Reads, TypesRight, CallSound
    <3> QED BY <1>4, <3>1, <3>2 DEF ReadCount
  <2>2. ~Failed(core')
    BY <1>1 DEF Failed
  <2> HIDE DEF Stream
  <2> QED BY <1>1, <1>6, <1>7, <2>1, <2>2, NotCountedOn DEF Progress
<1>9. Bytes'
  BY <1>1, <1>6 DEF Progress, Bytes
<1>10. NothingIn' /\ Undisturbed'
  BY <1>1, <1>3, <1>4, <1>7, <1>2 DEF NothingIn, Undisturbed, AtWork
<1>11. Fits' /\ Buffers'
  <2>1. Len(Stream) <= call.rx
    BY <1>1 DEF Progress, Fits, AtWork
  <2>2. Fits'
    <3>1. irq'.busy = 2 => irq'.size + Len(irq'.got) = irq'.want /\ Len(Stream') <= irq'.want
      BY <1>2, <1>4, <1>6, <2>1, EmptyBuffer
    <3> QED BY <1>1, <3>1 DEF Fits, AtWork
  <2>3. Increasing(irq'.got) /\ Len(irq'.got) <= irq'.want
    BY <1>2, <1>4, EmptyBuffer DEF Progress, Buffers
  <2>4. Increasing(call'.got) /\ Len(call'.got) <= call'.rx
    BY <1>1 DEF Progress, Buffers, SameOp
  <2> QED BY <2>2, <2>3, <2>4 DEF Buffers, Increasing
<1> QED BY <1>8, <1>9, <1>10, <1>11 DEF Progress

\* A transmit or receive has ended.
LEMMA ReturnProgress == Control /\ Progress /\ Return => Progress'
<1> SUFFICES ASSUME Control, Progress, Return PROVE Progress'
  OBVIOUS
<1>1. /\ TypesRight /\ UNCHANGED <<core, irq, target, isr>> /\ call.at = "return" /\ isr = "off" /\ call.op # "none"
      /\ call'.op = call.op /\ call'.irq = call.irq /\ call'.tx = call.tx /\ call'.rx = call.rx
      /\ call'.got = call.got /\ call'.status = call.status
      /\ \/ call'.at = "begin" /\ call'.phase = 1
         \/ call.status \notin Retried /\ FirstOfTwo /\ call'.at = "begin" /\ call'.phase = 2
         \/ call'.at = "idle"
  BY ReturnEffect DEF Control, Elsewhere, At
<1>2. Stored' = Stored /\ Stream' = Stream /\ ~Writing'
  BY <1>1 DEF Stream, Stored, AtWork, Writing
<1>3. Bytes' /\ Fits' /\ Buffers' /\ Undisturbed'
  BY <1>1, <1>2 DEF Progress, Bytes, Fits, Buffers, Increasing, Undisturbed, AtWork
<1>4. CASE call'.at = "idle" \/ (call'.at = "begin" /\ call'.phase = 1)
  <2>1. ~Counting'
    BY <1>4 DEF Counting, AtWork
  <2>2. Session'
    <3> HIDE DEF Stream
    <3> QED BY <1>1, <1>2, <2>1, SameIrq, NotCountedOn DEF Progress
  <2>3. NothingIn'
    BY <1>1, <1>2, <1>4 DEF Progress, NothingIn, AtWork
  <2> QED BY <1>3, <2>2, <2>3 DEF Progress
<1>5. CASE call.status \notin Retried /\ FirstOfTwo /\ call'.at = "begin" /\ call'.phase = 2
  <2>1. CASE call.status = SUCCESS
    <3>1. Counting /\ core.rx = <<>>
      BY <1>1, <1>5, <2>1 DEF Counting, Writing, Progress, NothingIn
    <3>2. Session'
      <4>1. /\ WriteCount' = WriteCount /\ ReadCount' = ReadCount
            /\ \A w \in Nat, r \in Nat : End(w, r)' = End(w, r)
        BY <1>1, <1>5 DEF WriteCount, ReadCount, End, FirstOfTwo
      <4> HIDE DEF Stream
      <4>2. call.at \notin {"cmd", "check"} /\ call'.at \notin {"cmd", "check"}
        BY <1>1, <1>5
      <4> QED BY <1>1, <1>2, <3>1, <4>1, <4>2, StillCountedOn DEF Progress
    <3>3. NothingIn'
      BY <1>1, <1>5, <3>1 DEF Progress, NothingIn, AtWork
    <3> QED BY <1>3, <3>2, <3>3 DEF Progress
  <2>2. CASE call.status # SUCCESS
    <3>1. ~core.en
      BY <1>1, <1>5, <2>2 DEF Control, Labels, EnabledBy, AtWork
    <3>2. Quiet /\ core.rx = <<>>
      BY <3>1 DEF Control, CoreQuiet, Quiet
    <3>3. Session'
      BY <1>1, <3>1, <3>2 DEF Session, Quiet, Live
    <3>4. NothingIn'
      BY <1>1, <1>5, <3>2 DEF Progress, NothingIn, AtWork
    <3> QED BY <1>3, <3>3, <3>4 DEF Progress
  <2> QED BY <2>1, <2>2
<1> QED BY <1>1, <1>4, <1>5

\* A query.
LEMMA QueryProgress == Control /\ Progress /\ Query => Progress'
<1> SUFFICES ASSUME Control, Progress, Query PROVE Progress'
  OBVIOUS
<1>1. /\ TypesRight /\ UNCHANGED <<target, isr>> /\ SameOp /\ irq' = irq /\ call.at = "idle" /\ isr = "off"
      /\ call'.got = call.got /\ core \in CoreType
      /\ core' = core \/ core' = [core EXCEPT !.ints = {}]
      /\ call'.at \in {"idle", "abort"}
  BY QueryEffect, FieldTypes DEF Control, Elsewhere, At
<1>2. /\ core'.en = core.en /\ core'.cur = core.cur /\ core'.bus = core.bus /\ core'.cmds = core.cmds
      /\ core'.nack = core.nack /\ core'.arb = core.arb /\ core'.rx = core.rx
      /\ core'.ints \in {core.ints, {}}
  <2>1. CASE core' = [core EXCEPT !.ints = {}]
    BY <1>1, <2>1, IntsSwitched
  <2>2. CASE core' = core
    BY <2>2
  <2> QED BY <1>1, <2>1, <2>2
<1>3. Stored' = Stored /\ Stream' = Stream /\ ~Writing' /\ ~Counting' /\ (Failed(core') => Failed(core))
  BY <1>1, <1>2 DEF Stream, Stored, AtWork, Writing, Counting, Failed
<1>4. Session'
  <2> HIDE DEF Stream
  <2> QED BY <1>1, <1>2, <1>3, SameIrq, NotCountedOn DEF Progress
<1>5. Bytes' /\ Fits' /\ Buffers' /\ NothingIn' /\ Undisturbed'
  BY <1>1, <1>2, <1>3 DEF Progress, Bytes, Fits, Buffers, Increasing, NothingIn, Undisturbed, AtWork, SameOp
<1> QED BY <1>4, <1>5 DEF Progress

\* A failed transaction ended by the query.
LEMMA QueryAbortProgress == Control /\ Progress /\ QueryAbort => Progress'
<1> SUFFICES ASSUME Control, Progress, QueryAbort PROVE Progress'
  OBVIOUS
<1>1. /\ TypesRight /\ UNCHANGED <<target, isr>> /\ SameOp /\ call.at = "abort"
      /\ call'.got = call.got /\ call'.at = "idle" /\ core' = Disabled(core)
      /\ irq'.busy = 0 /\ irq'.got = irq.got \o core.rx /\ irq'.want = irq.want
      /\ irq.busy \in {1, 2} /\ core.ints = {} /\ irq.got \in Seq(Nat)
  BY QueryAbortEffect DEF Control, Labels, Elsewhere, At, TypesRight, IrqType
<1>2. Session' /\ core'.rx = <<>> /\ core'.en = FALSE /\ core'.ints = core.ints
  BY <1>1, SwitchedOff
<1>3. Bytes'
  <2>1. Stored' = <<>>
    BY <1>1 DEF Stored, AtWork
  <2> QED BY <1>1, <1>2, <2>1, StreamAfter DEF Progress
<1>4. ~Writing'
  BY <1>1 DEF Writing, AtWork
<1>5. NothingIn' /\ Undisturbed' /\ Fits'
  BY <1>1, <1>2, <1>4 DEF Progress, NothingIn, Undisturbed, Fits, AtWork
<1>6. Increasing(irq'.got) /\ Len(irq'.got) <= irq'.want
  <2>1. CASE irq.busy = 1
    <3>1. core.rx = <<>>
      BY <2>1 DEF Progress, NothingIn
    <3>2. irq'.got = irq.got
      BY <1>1, <3>1, ConcatEmptySeq
    <3> QED BY <1>1, <3>2 DEF Progress, Buffers
  <2>2. CASE irq.busy = 2
    <3>1. irq'.got = Stream
      BY <1>1, <2>2 DEF Stream, Stored, AtWork
    <3>2. Stream \in Seq(Nat) /\ target.sent \in Nat
      BY <1>1, StreamFacts, FieldTypes
    <3>3. Increasing(Stream) /\ Len(Stream) <= irq.want
      BY <2>2, <3>2, OrderedIncreasing DEF Progress, Bytes, Fits
    <3> QED BY <1>1, <3>1, <3>3
  <2> QED BY <1>1, <2>1, <2>2
<1>7. Buffers'
  BY <1>1, <1>6 DEF Progress, Buffers, Increasing, SameOp
<1> QED BY <1>2, <1>3, <1>5, <1>7 DEF Progress

\* The interrupt routine entered.
LEMMA IsrEnterProgress == Control /\ Progress /\ IsrEnter => Progress'
<1> SUFFICES ASSUME Control, Progress, IsrEnter PROVE Progress'
  OBVIOUS
<1>1. /\ TypesRight /\ isr = "off" /\ Interrupting(core) /\ UNCHANGED <<call, target>>
      /\ core'.en = core.en /\ core'.cmds = core.cmds /\ core'.cur = core.cur /\ core'.bus = core.bus
      /\ core'.nack = FALSE /\ core'.arb = FALSE
      /\ \/ irq.busy # 2 /\ irq' = irq /\ core'.ints = {} /\ core'.rx = core.rx /\ isr' = "wait"
         \/ /\ irq.busy = 2 /\ irq'.busy = 2 /\ irq'.want = irq.want
            /\ \E n \in Nat : /\ n <= irq.size /\ n <= Len(core.rx)
                              /\ irq'.size = irq.size - n
                              /\ irq'.got = irq.got \o SubSeq(core.rx, 1, n)
                              /\ core'.rx = SubSeq(core.rx, n + 1, Len(core.rx))
            /\ core'.ints \in {{"rx"}, {}}
  BY IsrEnterEffect DEF Control
<1>2. /\ call.at \in AtWork \cup {"wait"} => irq.busy = 0
      /\ call.at = "begin" /\ call.phase = 2 => irq.busy = 0
      /\ call.at = "return" /\ FirstOfTwo /\ call.status = SUCCESS => irq.busy = 0
  BY DEF Control, Labels, Retried, SUCCESS, ARB_LOST_ERR, NACK_ERR, BUSY
<1>3. ~Failed(core')
  BY <1>1 DEF Failed
<1>4. ~Writing
  <2> SUFFICES ASSUME Writing PROVE FALSE
    OBVIOUS
  <2>1. irq.busy = 0 /\ core.rx = <<>>
    BY <1>2 DEF Writing, Progress, NothingIn
  <2>2. "tx" \notin core.ints
    BY <2>1 DEF Progress, Undisturbed
  <2>3. ~RxReady(core)
    BY <2>1, DepthAssumption DEF RxReady
  <2> QED BY <1>1, <2>2, <2>3 DEF Interrupting
<1>5. ~Writing' /\ Counting' = Counting /\ (Reads' <=> Reads)
  BY <1>1, <1>4 DEF Writing, Counting, Reads, FirstOfTwo
<1>6. CASE irq.busy # 2
  <2>1. irq' = irq /\ core'.ints = {} /\ core'.rx = core.rx /\ isr' = "wait"
    BY <1>1, <1>6
  <2>2. Stored' = Stored /\ Stream' = Stream
    BY <1>1, <2>1 DEF Stream, Stored
  <2>3. Session'
    <3>1. CASE Quiet
      BY <1>1, <2>1, <3>1 DEF Session, Quiet, Live
    <3>2. ASSUME NEW w \in Nat, NEW r \in Nat, NEW d \in Nat, OnBus(w, r, d), Owned(w, r, d)
          PROVE  Session'
      <4>1. d <= w => Stream' = <<>>
        BY <2>2, <3>2 DEF OnBus
      <4>2. OnBus(w, r, d)' /\ Given(d)' = Given(d)
        BY <1>1, <1>3, <3>2, <4>1, SameBus
      <4>3. Owned(w, r, d)'
        BY <1>1, <2>1, <3>2, <4>2, OwnedKept
      <4> QED BY <3>2, <4>2, <4>3 DEF Session
    <3> QED BY <3>1, <3>2 DEF Progress, Session
  <2>4. Bytes' /\ NothingIn' /\ Undisturbed'
    BY <1>1, <1>5, <2>1, <2>2 DEF Progress, Bytes, NothingIn, Undisturbed
  <2>5. Fits' /\ Buffers'
    BY <1>1, <1>5, <2>1, <2>2 DEF Progress, Fits, Buffers, Increasing
  <2> QED BY <2>3, <2>4, <2>5 DEF Progress
<1>7. CASE irq.busy = 2
  <2>1. /\ irq'.busy = 2 /\ irq'.want = irq.want /\ core'.ints \in {{"rx"}, {}}
    BY <1>1, <1>7
  <2>2. PICK n \in Nat : /\ n <= irq.size /\ n <= Len(core.rx)
                         /\ irq'.size = irq.size - n
                         /\ irq'.got = irq.got \o SubSeq(core.rx, 1, n)
                         /\ core'.rx = SubSeq(core.rx, n + 1, Len(core.rx))
    BY <1>1, <1>7
  <2>3. ~Counting /\ call.at \notin AtWork \cup {"wait"} /\ ~(call.at = "begin" /\ call.phase = 2)
    BY <1>2, <1>7 DEF Counting
  <2>4. Stored = irq.got /\ Stored' = irq'.got
    BY <1>1, <1>7, <2>1, <2>3 DEF Stored
  <2>5. irq.got \in Seq(Nat) /\ core.rx \in Seq(Nat) /\ irq.size \in Nat /\ Len(irq.got) \in Nat
        /\ Stream \in Seq(Nat) /\ target.sent \in Nat /\ irq.want \in Nat
    <3>1. irq.got \in Seq(Nat) /\ irq.size \in Nat /\ irq.want \in Nat
      BY <1>1 DEF TypesRight, IrqType
    <3>2. Len(irq.got) \in Nat
      BY <3>1
    <3>3. core.rx \in Seq(Nat) /\ Stream \in Seq(Nat)
      BY <1>1, StreamFacts
    <3>4. target.sent \in Nat
      BY <1>1, FieldTypes
    <3> QED BY <3>1, <3>2, <3>3, <3>4
  <2>6. Stream' = Stream
    <3> HIDE DEF Stored, Stream
    <3> QED BY <1>1, <2>2, <2>4, SameStream
  <2>7. /\ irq'.got \in Seq(Nat) /\ Len(irq'.got) = Len(irq.got) + n /\ Segment(irq'.got, Stream)
        /\ Len(irq'.got) \in Nat
    <3> DEFINE a == SubSeq(core.rx, 1, n)
               b == SubSeq(core.rx, n + 1, Len(core.rx))
    <3>1. a \in Seq(Nat) /\ Len(a) = n /\ b \in Seq(Nat)
      <4> DEFINE t == core.rx
      <4>1. t \in Seq(Nat) /\ n \in Nat /\ n <= Len(t)
        BY <2>2, <2>5
      <4> HIDE DEF t
      <4>2. SubSeq(t, 1, n) \in Seq(Nat) /\ Len(SubSeq(t, 1, n)) = n /\ SubSeq(t, n + 1, Len(t)) \in Seq(Nat)
        BY <4>1, Halves
      <4> QED BY <4>2 DEF t
    <3>2. irq'.got = irq.got \o a /\ core'.rx = b
      BY <2>2
    <3> HIDE DEF a, b
    <3>3. irq'.got \in Seq(Nat) /\ Len(irq'.got) = Len(irq.got) + n
      <4> DEFINE g == irq.got
      <4>1. g \in Seq(Nat)
        BY <2>5
      <4> HIDE DEF g
      <4>2. g \o a \in Seq(Nat) /\ Len(g \o a) = Len(g) + n
        BY <3>1, <4>1
      <4> QED BY <3>2, <4>2 DEF g
    <3>4. Segment(irq'.got, irq'.got \o core'.rx)
      BY <3>1, <3>2, <3>3, Parts
    <3>5. irq'.got \o core'.rx = Stream
      BY <2>4, <2>6 DEF Stream
    <3>6. Len(irq'.got) \in Nat
      BY <3>3
    <3> QED BY <3>3, <3>4, <3>5, <3>6
  <2>8. Session'
    <3>1. \A w \in Nat, r \in Nat, d \in Nat :
            Owned(w, r, d) => (irq'.busy = 1 => r = 0) /\ (irq'.busy = 2 => r = irq'.want + 1)
      BY <1>7, <2>1 DEF Owned
    <3>2. ~Counting'
      BY <1>5, <2>3
    <3> HIDE DEF Stream
    <3> QED BY <1>1, <1>3, <2>6, <3>1, <3>2, NotCountedOn DEF Progress
  <2>9. Bytes' /\ NothingIn' /\ Undisturbed'
    BY <1>1, <1>5, <2>1, <2>3, <2>6 DEF Progress, Bytes, NothingIn, Undisturbed
  <2>10. Fits'
    <3>1. irq'.size + Len(irq'.got) = irq'.want
      <4>1. irq.size + Len(irq.got) = irq.want
        BY <1>7 DEF Progress, Fits
      <4>2. \A x, y \in Nat : n <= x => (x - n) + (y + n) = x + y
        OBVIOUS
      <4>3. (irq.size - n) + (Len(irq.got) + n) = irq.size + Len(irq.got)
        BY <2>2, <2>5, <4>2
      <4>4. irq'.size = irq.size - n /\ Len(irq'.got) = Len(irq.got) + n /\ irq'.want = irq.want
        BY <2>1, <2>2, <2>7
      <4> QED BY <4>1, <4>3, <4>4
    <3>2. Len(Stream') <= irq'.want
      BY <1>7, <2>1, <2>6 DEF Progress, Fits
    <3> QED BY <1>1, <2>3, <3>1, <3>2 DEF Fits
  <2>11. Buffers'
    <3>1. OrderedBytes(irq'.got, target.sent) /\ Len(irq'.got) <= Len(Stream)
      BY <2>5, <2>7, OrderedSegment DEF Progress, Bytes
    <3>2. Increasing(irq'.got)
      BY <2>5, <2>7, <3>1, OrderedIncreasing
    <3>3. Len(irq'.got) <= irq'.want
      <4>1. Len(Stream) <= irq.want /\ Len(Stream) \in Nat
        BY <1>7, <2>5 DEF Progress, Fits
      <4> QED BY <2>1, <2>5, <2>7, <3>1, <4>1
    <3> QED BY <1>1, <3>2, <3>3 DEF Progress, Buffers, Increasing
  <2> QED BY <2>8, <2>9, <2>10, <2>11 DEF Progress
<1> QED BY <1>6, <1>7

\* The core switched off by the interrupt routine.
LEMMA IsrWaitProgress == Control /\ Progress /\ IsrWait => Progress'
<1> SUFFICES ASSUME Control, Progress, IsrWait PROVE Progress'
  OBVIOUS
<1>1. /\ TypesRight /\ UNCHANGED <<call, target>> /\ isr = "wait" /\ isr' = "off"
      /\ core' = Disabled(core) /\ irq'.busy = 0 /\ irq'.got = irq.got /\ irq'.want = irq.want
  BY IsrWaitEffect DEF Control
<1>2. Session' /\ core'.rx = <<>> /\ core'.en = FALSE /\ core'.ints = core.ints
  BY <1>1, SwitchedOff
<1>3. Bytes' /\ Len(Stream') <= Len(Stream) /\ Len(Stream') \in Nat /\ Len(Stream) \in Nat
  <2>1. Stored' \in {Stored, <<>>}
    BY <1>1 DEF Stored
  <2>2. Bytes' /\ Len(Stream') <= Len(Stream) /\ Stream' \in Seq(Nat) /\ Stream \in Seq(Nat)
    BY <1>1, <1>2, <2>1, StreamAfter, StreamFacts DEF Progress
  <2> QED BY <2>2
<1>4. ~Writing /\ "tx" \notin core.ints
  BY <1>1 DEF Progress, Undisturbed
<1>5. ~Writing' /\ (Reads' <=> Reads)
  BY <1>1, <1>4 DEF Writing, Reads, FirstOfTwo
<1>6. NothingIn' /\ Undisturbed' /\ Buffers'
  BY <1>1, <1>2, <1>4, <1>5 DEF Progress, NothingIn, Undisturbed, Buffers, Increasing
<1>7. Fits'
  <2>1. call.at \in AtWork => Len(Stream) <= call.rx /\ call.rx \in Nat /\ (Reads => Len(call.got) < call.rx)
    BY <1>1 DEF Progress, Fits, TypesRight, CallType
  <2> QED BY <1>1, <1>3, <1>5, <2>1 DEF Fits
<1> QED BY <1>2, <1>3, <1>6, <1>7 DEF Progress

\* A step of the driver.
LEMMA NextProgress == Control /\ Progress /\ [Next]_vars => Progress'
<1> SUFFICES ASSUME Control, Progress, [Next]_vars PROVE Progress'
  OBVIOUS
<1>1. CASE UNCHANGED vars
  <2>1. UNCHANGED <<core, target, call, irq, isr>>
    BY <1>1 DEF vars, driver
  <2>2. /\ Stream' = Stream /\ (Reads' <=> Reads) /\ (Writing' <=> Writing) /\ Counting' = Counting
        /\ (Quiet' <=> Quiet) /\ (Live' <=> Live)
    BY <2>1 DEF Stream, Stored, Reads, Writing, Counting, FirstOfTwo, Quiet, Live
  <2>3. Session'
    <3>1. CASE Quiet /\ (Live => ~Counting)
      BY <2>2, <3>1 DEF Session
    <3>2. ASSUME NEW w \in Nat, NEW r \in Nat, NEW d \in Nat, OnBus(w, r, d), Owned(w, r, d)
          PROVE  Session'
      <4>1. OnBus(w, r, d)' /\ Given(d)' = Given(d)
        BY <2>1, <2>2, <3>2, SameBus DEF OnBus
      <4>2. Owned(w, r, d)'
        BY <2>1, <3>2, <4>1, OwnedKept
      <4> QED BY <3>2, <4>1, <4>2 DEF Session
    <3> QED BY <3>1, <3>2 DEF Progress, Session
  <2>4. Bytes' /\ NothingIn' /\ Undisturbed'
    BY <2>1, <2>2 DEF Progress, Bytes, NothingIn, Undisturbed
  <2>5. Fits' /\ Buffers'
    BY <2>1, <2>2 DEF Progress, Fits, Buffers, Increasing
  <2> QED BY <2>3, <2>4, <2>5 DEF Progress
<1>2. CASE Next
  <2>0. TxSizes \subseteq Nat /\ RxSizes \subseteq Nat
        /\ (\A n \in TxSizes : n > 0) /\ (\A n \in RxSizes : n > 0)
    BY DriverAssumption
  <2>1. ASSUME NEW u \in BOOLEAN, NEW tx \in TxSizes, Start("tx", u, tx, 0) PROVE Progress'
    BY <2>0, <2>1, StartProgress
  <2>2. ASSUME NEW u \in BOOLEAN, NEW rx \in RxSizes, Start("rx", u, 0, rx) PROVE Progress'
    BY <2>0, <2>2, StartProgress
  <2>3. ASSUME NEW u \in BOOLEAN, NEW tx \in TxSizes, NEW rx \in RxSizes, Start("tx_rx", u, tx, rx) PROVE Progress'
    BY <2>0, <2>3, StartProgress
  <2>4. CASE Program
    BY <2>4, BeginProgress, CmdWriteProgress, CmdCheckProgress, RxReadProgress, WaitIdleProgress, ArmProgress,
       ReturnProgress, QueryAbortProgress DEF Program
  <2>5. CASE Isr
    BY <2>5, IsrEnterProgress, IsrWaitProgress DEF Isr
  <2>6. CASE Query \/ Core
    BY <2>6, QueryProgress, CoreProgress
  <2> QED BY <1>2, <2>1, <2>2, <2>3, <2>4, <2>5, <2>6 DEF Next
<1> QED BY <1>1, <1>2

\* What Progress says of the buffers.
LEMMA ProgressOrders == Control /\ Progress => BuffersInOrder
  BY DEF Progress, Buffers, BuffersInOrder, Increasing

\* A byte lands in a buffer at most once, in order, and never beyond the buffer's end:
\* whatever fails, however often a transaction is tried again, and whether the program or
\* the interrupt routine stores it.
THEOREM BytesLandInOrder == Spec => []BuffersInOrder
<1>1. Init => Control /\ Progress
  BY InitControl, InitProgress
<1>2. Control /\ Progress /\ [Next]_vars => Control' /\ Progress'
  BY NextControl, NextProgress
<1> QED BY <1>1, <1>2, ProgressOrders, PTL DEF Spec

-----------------------------------------------------------------------------
(* A transaction that went through *)

\* When all bytes have come the transaction is over.
Received ==
    /\ call.at \in AtWork /\ Reads /\ Len(Stream) = call.rx =>
         /\ target.msgs = Expected /\ Stream = UpTo(call.rx)
         /\ core.cur = Nothing /\ core.cmds = <<>>
    /\ call.at = "wait" /\ call.status = SUCCESS /\ Reads =>
         /\ target.msgs = Expected /\ call.got = UpTo(call.rx)
         /\ core.cur = Nothing /\ core.cmds = <<>> /\ core.rx = <<>>

\* A polled operation has ended with success.
Succeeded ==
    call.at \in {"return", "idle", "abort"} /\ ~call.irq /\ call.op # "none" /\ call.status = SUCCESS /\ ~FirstOfTwo
Finished ==
    Succeeded => /\ ~core.en /\ irq.busy = 0 /\ isr = "off"
                 /\ ~core.arb => target.msgs = Expected /\ call.got = UpTo(call.rx)

Delivered == Received /\ Finished

\* What the target has seen at the end.
LEMMA SeenAtEnd ==
    ASSUME TypesRight, call.op # "none", NEW w, w = WriteCount, NEW r, r = ReadCount, NEW d, d = w + r
    PROVE  MsgsAt(w, d) = Expected
<1>1. call.op \in {"tx", "rx", "tx_rx"} /\ call.tx \in Nat /\ call.rx \in Nat
  BY DEF TypesRight, CallType
<1>2. <<WriteAddress>> \o UpTo(call.tx) = Message(call.tx + 1)
  BY <1>1, MessageFacts
<1> HIDE DEF Message, UpTo
<1>3. CASE call.op = "tx"
  <2>1. w = call.tx + 1 /\ d = w
    BY <1>1, <1>3 DEF WriteCount, ReadCount
  <2>2. MsgsAt(w, d) = <<Message(w)>>
    BY <1>1, <2>1 DEF MsgsAt
  <2>3. Expected = <<<<WriteAddress>> \o UpTo(call.tx)>>
    BY <1>3 DEF Expected
  <2> QED BY <1>2, <2>1, <2>2, <2>3
<1>4. CASE call.op = "rx"
  <2>1. w = 0 /\ ~(d <= w)
    BY <1>1, <1>4 DEF WriteCount, ReadCount
  <2> QED BY <1>4, <2>1 DEF MsgsAt, Expected
<1>5. CASE call.op = "tx_rx"
  <2>1. w = call.tx + 1 /\ w > 0 /\ ~(d <= w)
    BY <1>1, <1>5 DEF WriteCount, ReadCount
  <2>2. MsgsAt(w, d) = <<Message(w), <<ReadAddress>>>>
    BY <2>1 DEF MsgsAt
  <2>3. Expected = <<<<WriteAddress>> \o UpTo(call.tx), <<ReadAddress>>>>
    BY <1>5 DEF Expected
  <2> QED BY <1>2, <2>1, <2>2, <2>3
<1> QED BY <1>1, <1>3, <1>4, <1>5

\* The bytes 1, 2, 3, ... in order.
LEMMA AllBytes ==
    ASSUME NEW s \in Seq(Nat), NEW n \in Nat, OrderedBytes(s, n), Len(s) = n
    PROVE  s = UpTo(n)
<1>1. \A i \in 1..n : s[i] = i
  BY DEF OrderedBytes
<1>2. DOMAIN s = 1..n /\ DOMAIN UpTo(n) = 1..n /\ \A i \in 1..n : UpTo(n)[i] = i
  BY DEF UpTo
<1> QED BY <1>1, <1>2 DEF UpTo

\* Initially.
LEMMA InitDelivered == Init => Delivered
<1> SUFFICES ASSUME Init PROVE Delivered
  OBVIOUS
<1>1. call.at = "idle" /\ call.op = "none"
  BY DEF Init
<1> QED BY <1>1 DEF Delivered, Received, Finished, Succeeded, AtWork

\* A step of the core.
LEMMA CoreDelivered == Control /\ Progress /\ Progress' /\ Delivered /\ Core => Delivered'
<1> SUFFICES ASSUME Control, Progress, Progress', Delivered, Core PROVE Delivered'
  OBVIOUS
<1>1. /\ TypesRight /\ TypesRight' /\ UNCHANGED <<call, irq, isr, registered>>
      /\ core'.en = core.en
      /\ Fetched \/ Started \/ Written \/ Arrived \/ FellThrough
  BY CoreEffect DEF Control
<1>2. ~(core.cur = Nothing /\ core.cmds = <<>>)
  BY <1>1 DEF Fetched, Started, Written, Arrived, FellThrough
<1>3. core.en
  BY <1>2 DEF Control, CoreQuiet
<1>4. Finished'
  BY <1>1, <1>3 DEF Delivered, Finished, Succeeded, FirstOfTwo
<1>5. ~(call.at = "wait" /\ call.status = SUCCESS /\ Reads)
  BY <1>2 DEF Delivered, Received
<1>6. ASSUME call.at \in AtWork, Reads, Len(Stream') = call.rx
      PROVE  target'.msgs = Expected /\ Stream' = UpTo(call.rx) /\ core'.cur = Nothing /\ core'.cmds = <<>>
  <2>1. Len(Stream) # call.rx
    BY <1>2, <1>6 DEF Delivered, Received
  <2>2. Stored' = Stored /\ Stored \in Seq(Nat) /\ core.rx \in Seq(Nat)
    BY <1>1, StreamFacts DEF Stored
  <2>3. core'.rx # core.rx
    <3>1. Stream' # Stream
      BY <1>6, <2>1
    <3> QED BY <2>2, <3>1 DEF Stream
  <2>4. Arrived
    BY <1>1, <2>3 DEF Fetched, Started, Written, FellThrough
  <2>5. PICK w \in Nat, r \in Nat, d \in Nat : OnBus(w, r, d) /\ Owned(w, r, d)
    BY <1>2 DEF Progress, Session, Quiet
  <2>6. /\ target'.msgs = MsgsAt(w, d + 1) /\ d > w
        /\ target'.sent = IF d + 1 <= w THEN 0 ELSE d + 1 - w - 1
    BY <1>1, <2>4, <2>5, Acked
  <2>7. core.cur # Nothing /\ core'.cur = Nothing /\ core'.cmds = core.cmds
    BY <2>4 DEF Arrived
  <2>8. w = WriteCount /\ r = ReadCount /\ call.op # "none" /\ r = call.rx + 1 /\ call.rx \in Nat
    <3>1. w = WriteCount /\ r = ReadCount
      BY <1>6, <2>5 DEF Owned, Counting
    <3>2. call.op # "none" /\ call.op # "tx" /\ call.rx \in Nat
      BY <1>1, <1>6 DEF TypesRight, CallSound, CallType, Reads, AtWork
    <3> QED BY <3>1, <3>2 DEF ReadCount
  <2>9. /\ Given(d) \in Nat /\ Given(d) <= w + r /\ d + 1 <= Given(d)
    BY <1>1, <2>5, <2>7, BusFacts
  <2>10. Stream' \in Seq(Nat) /\ target'.sent = d - w /\ Len(Stream') <= target'.sent /\ OrderedBytes(Stream', target'.sent)
    <3>1. Stream' \in Seq(Nat)
      <4>1. core'.rx \in Seq(Nat)
        BY <1>1 DEF TypesRight, CoreType
      <4>2. Stream' = Stored \o core'.rx
        BY <2>2 DEF Stream
      <4> HIDE DEF Stored
      <4> QED BY <2>2, <4>1, <4>2
    <3>2. OrderedBytes(Stream', target'.sent)
      BY DEF Progress, Bytes
    <3>3. Len(Stream') <= target'.sent
      BY <3>2 DEF OrderedBytes
    <3>4. target'.sent = d - w
      BY <2>6
    <3> QED BY <3>1, <3>2, <3>3, <3>4
  <2>11. d - w = call.rx /\ d + 1 = w + r /\ Given(d) = d + 1
    <3>1. call.rx <= d - w
      BY <1>6, <2>10
    <3>2. PICK g \in Nat : g = Given(d) /\ g <= w + r /\ d + 1 <= g
      BY <2>9
    <3>3. PICK c \in Nat : c = call.rx /\ c <= d - w /\ r = c + 1
      BY <2>8, <3>1
    <3>4. d - w = c /\ d + 1 = w + r /\ g = d + 1
      BY <3>2, <3>3
    <3> QED BY <3>2, <3>3, <3>4
  <2>12. target'.msgs = Expected
    <3>1. PICK e : e = d + 1 /\ e = w + r
      BY <2>11
    <3>2. MsgsAt(w, e) = Expected
      BY <1>1, <2>8, <3>1, SeenAtEnd
    <3> QED BY <2>6, <3>1, <3>2
  <2>13. Stream' = UpTo(call.rx)
    BY <1>6, <2>8, <2>10, <2>11, AllBytes
  <2>14. core.cmds = <<>>
    <3>1. core.cmds \in Seq(GivenCommand) /\ Len(core.cmds) \in Nat
      BY <1>1, FieldTypes
    <3>2. d + 1 + Len(core.cmds) = d + 1
      BY <2>7, <2>11 DEF Given, OnIt
    <3>3. Len(core.cmds) = 0
      <4>1. \A x \in Nat : d + 1 + x = d + 1 => x = 0
        OBVIOUS
      <4> QED BY <3>1, <3>2, <4>1
    <3> QED BY <3>1, <3>3
  <2> QED BY <2>7, <2>12, <2>13, <2>14
<1>7. Received'
  <2>1. Expected' = Expected /\ (Reads' <=> Reads)
    BY <1>1 DEF Expected, Reads
  <2> QED BY <1>1, <1>5, <1>6, <2>1 DEF Received
<1> QED BY <1>4, <1>7 DEF Delivered

\* A step that leaves the transmit or receive where it was.
LEMMA DeliveredKept ==
    ASSUME Delivered, SameOp, target' = target, call'.at \in AtWork, Stream' = Stream,
           Reads /\ Len(Stream) = call.rx =>
             call.at \in AtWork /\ core'.cur = core.cur /\ core'.cmds = core.cmds
    PROVE  Delivered'
<1>1. Expected' = Expected /\ (Reads' <=> Reads)
  BY DEF Expected, Reads, SameOp
<1>2. Received'
  BY <1>1 DEF Delivered, Received, SameOp, AtWork
<1>3. Finished'
  BY DEF Finished, Succeeded, AtWork
<1> QED BY <1>2, <1>3 DEF Delivered

\* A call that is elsewhere.
LEMMA NothingDelivered ==
    ASSUME call'.at \notin AtWork, call'.at # "wait" \/ ~Reads' \/ call'.status # SUCCESS, ~Succeeded'
    PROVE  Delivered'
  BY DEF Delivered, Received, Finished

\* The program's steps that begin or give up a transmit or receive.
LEMMA BeginDelivered == Control /\ Progress /\ Delivered /\ Begin => Delivered'
<1> SUFFICES ASSUME Control, Progress, Delivered, Begin PROVE Delivered'
  OBVIOUS
<1>1. /\ TypesRight /\ target' = target /\ SameOp /\ call.at = "begin" /\ call.op # "none" /\ core \in CoreType
      /\ \/ /\ call'.at = "return" /\ call'.status \in {BAD_ARG, BUSY}
         \/ /\ call'.at = "cmd" /\ call'.got = <<>>
            /\ \/ call.phase = 2 /\ UNCHANGED <<core, irq>>
               \/ call.phase = 1 /\ ~core.en /\ core' = Cleared(Enabled(core))
  BY BeginEffect, FieldTypes DEF Control, At, Elsewhere
<1>2. CASE call'.at = "return"
  <2>1. call'.status # SUCCESS
    BY <1>1, <1>2 DEF BAD_ARG, BUSY, SUCCESS
  <2> QED BY <1>2, <2>1, NothingDelivered DEF Succeeded, AtWork
<1>3. CASE call'.at = "cmd"
  <2>1. core'.rx = <<>>
    <3>1. CASE call.phase = 2
      BY <1>1, <1>3, <3>1 DEF Progress, NothingIn
    <3>2. CASE call.phase = 1
      <4>1. core.rx = <<>> /\ core' = Cleared(Enabled(core))
        BY <1>1, <1>3, <3>2 DEF Control, CoreQuiet
      <4> DEFINE on == Enabled(core)
      <4>2. on \in CoreType /\ on.rx = core.rx
        BY <1>1, CoreOperations, OperationFields
      <4> HIDE DEF on
      <4>3. Cleared(on).rx = on.rx
        BY <4>2, OperationFields
      <4> QED BY <4>1, <4>2, <4>3 DEF on
    <3>3. call.phase \in {1, 2}
      BY <1>1 DEF TypesRight, CallType
    <3> QED BY <3>1, <3>2, <3>3
  <2>2. Stream' = <<>> /\ Len(<<>>) = 0
    <3>1. Stored' = <<>>
      BY <1>1, <1>3 DEF Stored, AtWork
    <3> QED BY <2>1, <3>1 DEF Stream
  <2>3. Reads => call.rx > 0 /\ call.rx \in Nat
    BY <1>1 DEF Reads, TypesRight, CallSound, CallType
  <2>4. Received'
    BY <1>1, <1>3, <2>2, <2>3 DEF Received, Reads, SameOp
  <2> QED BY <1>3, <2>4 DEF Delivered, Finished, Succeeded
<1> QED BY <1>1, <1>2, <1>3

\* A command written, or the wait for room given up.
LEMMA CmdWriteDelivered == Control /\ Progress /\ Delivered /\ CmdWrite => Delivered'
<1> SUFFICES ASSUME Control, Progress, Delivered, CmdWrite PROVE Delivered'
  OBVIOUS
<1>1. /\ TypesRight /\ target' = target /\ SameOp /\ call.at = "cmd" /\ isr = "off"
      /\ call.todo # <<>> /\ call'.got = call.got /\ core'.cur = core.cur /\ core'.rx = core.rx
      /\ \/ /\ call'.at = "check"
            /\ core'.cmds = IF core.en /\ ~Failed(core) THEN Append(core.cmds, Head(call.todo)) ELSE core.cmds
         \/ call'.at = "wait" /\ call'.status = TIMEOUT
  BY CmdWriteEffect DEF Control, Elsewhere, At
<1>2. CASE call'.at = "wait"
  <2>1. call'.status # SUCCESS
    BY <1>1, <1>2 DEF TIMEOUT, SUCCESS
  <2> QED BY <1>2, <2>1, NothingDelivered DEF Succeeded, AtWork
<1>3. CASE call'.at = "check"
  <2>1. Stored' = Stored
    BY <1>1, <1>3 DEF Stored, AtWork
  <2>2. Stream' = Stream
    BY <1>1, <2>1 DEF Stream
  <2>3. ASSUME Reads, Len(Stream) = call.rx PROVE core'.cmds = core.cmds
    <3>1. call.rx \in Nat
      BY <1>1 DEF TypesRight, CallType
    <3>2. ~(core.en /\ ~Failed(core))
      BY <1>1, <2>3, <3>1, MoreToCome
    <3> QED BY <1>1, <1>3, <3>2
  <2>4. call.at \in AtWork /\ call'.at \in AtWork
    BY <1>1, <1>3 DEF AtWork
  <2> HIDE DEF Stream
  <2> QED BY <1>1, <2>2, <2>3, <2>4, DeliveredKept
<1> QED BY <1>1, <1>2, <1>3

\* The status looked at.
LEMMA CmdCheckDelivered == Control /\ Progress /\ Delivered /\ CmdCheck => Delivered'
<1> SUFFICES ASSUME Control, Progress, Delivered, CmdCheck PROVE Delivered'
  OBVIOUS
<1>1. /\ TypesRight /\ target' = target /\ SameOp /\ call.at = "check" /\ call.op # "none" /\ core \in CoreType
      /\ call'.status = Checked
      /\ \/ Failed(core) /\ call'.at = "wait"
         \/ /\ ~Failed(core) /\ call'.at = "cmd"
            /\ \/ call'.got = call.got \o core.rx /\ core' = [core EXCEPT !.rx = <<>>]
               \/ call'.got = call.got /\ core' = core
         \/ /\ ~Failed(core) /\ call'.got = call.got /\ core' = core
            /\ call'.at = IF Receiving /\ ~call.irq THEN "take"
                           ELSE IF FirstOfTwo THEN "return" ELSE IF call.irq THEN "arm" ELSE "wait"
  BY CmdCheckEffect, FieldTypes DEF Control, Elsewhere, At
<1>2. (Receiving <=> Reads) /\ (Checked = SUCCESS <=> ~Failed(core)) /\ (Reads' <=> Reads) /\ (FirstOfTwo' <=> FirstOfTwo)
  BY <1>1, PhaseFacts, CheckedFacts DEF Reads, SameOp, FirstOfTwo
<1> HIDE DEF Checked, Receiving
<1>3. CASE call'.at \notin AtWork
  <2>1. call'.at # "wait" \/ ~Reads' \/ call'.status # SUCCESS
    BY <1>1, <1>2, <1>3 DEF AtWork
  <2>2. ~Succeeded'
    BY <1>1, <1>2, <1>3 DEF Succeeded, AtWork
  <2> QED BY <1>3, <2>1, <2>2, NothingDelivered
<1>4. CASE call'.at \in AtWork
  <2>1. \/ call'.got = call.got \o core.rx /\ core' = [core EXCEPT !.rx = <<>>]
        \/ call'.got = call.got /\ core' = core
    BY <1>1, <1>4 DEF AtWork
  <2>2. Stored = call.got /\ Stored' = call'.got /\ call.at \in AtWork
    BY <1>1, <1>4 DEF Stored, AtWork
  <2>3. CASE call'.got = call.got /\ core' = core
    <3>1. Stream' = Stream
      BY <2>2, <2>3 DEF Stream
    <3> HIDE DEF Stream
    <3> QED BY <1>1, <1>4, <2>2, <2>3, <3>1, DeliveredKept
  <2>4. CASE call'.got = call.got \o core.rx /\ core' = [core EXCEPT !.rx = <<>>]
    <3>1. core'.cur = core.cur /\ core'.cmds = core.cmds /\ core'.rx = <<>>
      BY <1>1, <2>4, BytesTaken
    <3>2. Stream = call.got \o core.rx /\ Stream \in Seq(Nat)
      BY <1>1, <2>2, StreamFacts DEF Stream
    <3>3. Stream' = call'.got \o <<>>
      BY <2>2, <3>1 DEF Stream
    <3>4. Stream' = Stream
      BY <2>4, <3>2, <3>3, ConcatEmptySeq
    <3> HIDE DEF Stream
    <3> QED BY <1>1, <1>4, <2>2, <3>1, <3>4, DeliveredKept
  <2> QED BY <2>1, <2>3, <2>4
<1> QED BY <1>3, <1>4

\* A byte taken.  With the last one the transaction is over.
LEMMA RxReadDelivered == Control /\ Progress /\ Delivered /\ RxRead => Delivered'
<1> SUFFICES ASSUME Control, Progress, Delivered, RxRead PROVE Delivered'
  OBVIOUS
<1>0. TypesRight /\ Labels
  BY DEF Control
<1>1. /\ target' = target /\ SameOp /\ call.at = "take" /\ core \in CoreType /\ call.op # "none" /\ Reads /\ ~call.irq
      /\ Reads' /\ irq.busy = 0 /\ irq' = irq /\ ~FirstOfTwo
  <2>1. target' = target /\ SameOp /\ call.at = "take" /\ call.op # "none" /\ irq' = irq
    BY <1>0, RxReadEffect DEF Elsewhere, At
  <2>2. Reads /\ ~call.irq /\ irq.busy = 0
    BY <1>0, <2>1 DEF Labels, AtWork
  <2>3. Reads' /\ ~FirstOfTwo
    BY <2>1, <2>2 DEF Reads, SameOp, FirstOfTwo
  <2> QED BY <1>0, <2>1, <2>2, <2>3, FieldTypes
<1>2. PICK byte \in Nat :
        /\ call'.got = Append(call.got, byte)
        /\ \/ core.rx # <<>> /\ byte = Head(core.rx) /\ core' = [core EXCEPT !.rx = Tail(core.rx)]
           \/ core.rx = <<>> /\ byte = GARBAGE /\ core' = core
        /\ \/ byte = GARBAGE /\ call'.status = TIMEOUT /\ call'.at = "wait"
           \/ /\ byte # GARBAGE /\ call'.status = SUCCESS
              /\ call'.at = IF Len(call.got) + 1 < Phase.size THEN "take"
                             ELSE IF FirstOfTwo THEN "return" ELSE IF call.irq THEN "arm" ELSE "wait"
  BY <1>0, RxReadEffect
<1>3. Stored = call.got /\ Stream = call.got \o core.rx
  BY <1>1 DEF Stream, Stored, AtWork
<1>4. /\ call.got \in Seq(Nat) /\ core.rx \in Seq(Nat) /\ call.rx \in Nat /\ Phase.size = call.rx
      /\ Len(call.got) \in Nat /\ Len(call.got) < call.rx /\ Len(Stream) <= call.rx
  <2>1. call.got \in Seq(Nat) /\ core.rx \in Seq(Nat) /\ call.rx \in Nat
    BY <1>0, FieldTypes DEF TypesRight, CallType
  <2>2. Len(call.got) < call.rx /\ Len(Stream) <= call.rx
    BY <1>1 DEF Progress, Fits, AtWork
  <2>3. Phase.size = call.rx
    BY <1>0, <1>1, PhaseFacts DEF Reads
  <2>4. Len(call.got) \in Nat
    BY <2>1
  <2> QED BY <2>1, <2>2, <2>3, <2>4
<1>5. CASE byte = GARBAGE
  <2>1. call'.at = "wait" /\ call'.status # SUCCESS
    BY <1>2, <1>5 DEF TIMEOUT, SUCCESS
  <2> QED BY <2>1, NothingDelivered DEF Succeeded, AtWork
<1>6. CASE byte # GARBAGE
  <2>1. /\ core.rx # <<>> /\ byte = Head(core.rx) /\ core' = [core EXCEPT !.rx = Tail(core.rx)]
        /\ call'.status = SUCCESS
        /\ call'.at = IF Len(call.got) + 1 < call.rx THEN "take" ELSE "wait"
    BY <1>1, <1>2, <1>4, <1>6
  <2>2. core'.cmds = core.cmds /\ core'.cur = core.cur /\ core'.rx = Tail(core.rx)
    BY <1>1, <2>1, BytesTaken
  <2>3. /\ call'.got \o core'.rx = Stream /\ call'.got \in Seq(Nat) /\ core'.rx \in Seq(Nat)
        /\ Len(call'.got) = Len(call.got) + 1 /\ Len(Stream) = Len(call'.got) + Len(core'.rx)
    <3> DEFINE t == core.rx
               s == call.got
    <3>1. t \in Seq(Nat) /\ s \in Seq(Nat) /\ t # <<>> /\ byte = Head(t) /\ core'.rx = Tail(t)
          /\ call'.got = Append(s, byte) /\ Stream = s \o t
      BY <1>2, <1>3, <1>4, <2>1, <2>2
    <3> HIDE DEF t, s
    <3>2. Append(s, byte) = s \o <<byte>> /\ Append(s, byte) \in Seq(Nat) /\ Len(Append(s, byte)) = Len(s) + 1
          /\ Tail(t) \in Seq(Nat) /\ <<byte>> \in Seq(Nat)
      BY <3>1
    <3>3. <<byte>> \o Tail(t) = t
      <4> DEFINE a == <<byte>>
                 b == Tail(t)
      <4>1. a \in Seq(Nat) /\ b \in Seq(Nat) /\ Len(a) = 1 /\ a[1] = t[1] /\ Len(b) = Len(t) - 1 /\ Len(t) \in Nat \ {0}
            /\ \A i \in 1..Len(t) - 1 : b[i] = t[i + 1]
        BY <3>1
      <4> HIDE DEF a, b
      <4>2. a \o b \in Seq(Nat) /\ Len(a \o b) = Len(t)
            /\ (a \o b)[1] = a[1] /\ \A i \in 1..Len(t) - 1 : (a \o b)[1 + i] = b[i]
        <5>1. /\ a \o b \in Seq(Nat) /\ Len(a \o b) = Len(a) + Len(b)
              /\ \A i \in 1..Len(a) : (a \o b)[i] = a[i]
              /\ \A i \in 1..Len(b) : (a \o b)[Len(a) + i] = b[i]
          BY <4>1, Elements
        <5> QED BY <4>1, <5>1
      <4>3. \A i \in 1..Len(t) : (a \o b)[i] = t[i]
        <5> SUFFICES ASSUME NEW i \in 1..Len(t) PROVE (a \o b)[i] = t[i]
          OBVIOUS
        <5>1. CASE i = 1
          BY <4>1, <4>2, <5>1
        <5>2. CASE i # 1
          <6>1. PICK k \in 1..Len(t) - 1 : i = 1 + k /\ i = k + 1
            BY <4>1, <5>2
          <6> QED BY <4>1, <4>2, <6>1
        <5> QED BY <5>1, <5>2
      <4>4. a \o b = t
        BY <3>1, <4>2, <4>3, SeqEqual
      <4> QED BY <4>4 DEF a, b
    <3>4. (s \o <<byte>>) \o Tail(t) = s \o (<<byte>> \o Tail(t))
      <4> DEFINE a == <<byte>>
                 b == Tail(t)
      <4>1. s \in Seq(Nat) /\ a \in Seq(Nat) /\ b \in Seq(Nat)
        BY <3>1, <3>2
      <4> HIDE DEF a, b
      <4>2. (s \o a) \o b = s \o (a \o b)
        BY <4>1, Associates
      <4> QED BY <4>2 DEF a, b
    <3>5. Append(s, byte) \o Tail(t) = s \o t
      BY <3>2, <3>3, <3>4
    <3>6. Len(Append(s, byte) \o Tail(t)) = Len(Append(s, byte)) + Len(Tail(t))
      BY <3>2, Elements
    <3>7. Len(call'.got) = Len(call.got) + 1
      BY <3>1, <3>2 DEF s
    <3> QED BY <3>1, <3>2, <3>5, <3>6, <3>7
  <2>4. CASE call'.at = "take"
    <3>1. Stored' = call'.got
      BY <2>4 DEF Stored, AtWork
    <3>2. Stream' = Stream
      BY <2>3, <3>1 DEF Stream
    <3>3. call.at \in AtWork /\ call'.at \in AtWork
      BY <1>1, <2>4 DEF AtWork
    <3> HIDE DEF Stream
    <3> QED BY <1>1, <2>2, <3>2, <3>3, DeliveredKept
  <2>5. CASE call'.at = "wait"
    <3>1. Len(call'.got) = call.rx /\ Len(core'.rx) = 0 /\ Len(Stream) = call.rx
      <4>1. ~(Len(call.got) + 1 < call.rx)
        BY <2>1, <2>5
      <4>2. Len(core'.rx) \in Nat
        BY <2>3
      <4>3. Len(call'.got) = call.rx
        BY <1>4, <2>3, <4>1
      <4>4. \A x, y \in Nat : x + y <= x => y = 0 /\ x + y = x
        OBVIOUS
      <4>5. call.rx + Len(core'.rx) <= call.rx /\ Len(Stream) = call.rx + Len(core'.rx)
        BY <1>4, <2>3, <4>3
      <4> HIDE DEF Stream
      <4> QED BY <1>4, <4>2, <4>3, <4>4, <4>5
    <3>2. core'.rx = <<>> /\ Stream = call'.got
      <4>1. core'.rx = <<>>
        BY <2>3, <3>1
      <4> QED BY <2>3, <4>1, ConcatEmptySeq
    <3>3. target.msgs = Expected /\ Stream = UpTo(call.rx) /\ core.cur = Nothing /\ core.cmds = <<>>
      BY <1>1, <3>1 DEF Delivered, Received, AtWork
    <3>4. Expected' = Expected /\ call'.rx = call.rx
      BY <1>1 DEF Expected, SameOp
    <3> HIDE DEF Stream
    <3>5. target'.msgs = Expected' /\ call'.got = UpTo(call'.rx) /\ core'.cur = Nothing /\ core'.cmds = <<>>
      BY <1>1, <2>2, <3>2, <3>3, <3>4
    <3>6. Received'
      BY <2>5, <3>2, <3>5 DEF Received, AtWork
    <3> QED BY <2>5, <3>6 DEF Delivered, Finished, Succeeded
  <2> QED BY <2>1, <2>4, <2>5
<1> QED BY <1>5, <1>6

\* The core switched off: a polled operation has come to its end.
LEMMA WaitIdleDelivered == Control /\ Progress /\ Delivered /\ WaitIdle => Delivered'
<1> SUFFICES ASSUME Control, Progress, Delivered, WaitIdle PROVE Delivered'
  OBVIOUS
<1>1. /\ TypesRight /\ UNCHANGED <<target, isr>> /\ SameOp /\ irq' = irq /\ call.at = "wait" /\ isr = "off"
      /\ call.op # "none" /\ irq.busy = 0 /\ core \in CoreType
      /\ call'.at = "return" /\ call'.got = call.got /\ core' = Disabled(core)
      /\ call'.status = IF core.nack /\ ~call.irq THEN NACK_ERR ELSE IF Busy(core) THEN TIMEOUT ELSE call.status
  BY WaitIdleEffect, FieldTypes DEF Control, Labels, Elsewhere, At
<1>2. core'.en = FALSE /\ core'.arb = core.arb
  BY <1>1, OperationFields
<1>3. Expected' = Expected /\ FirstOfTwo' = FirstOfTwo
  BY <1>1 DEF Expected, FirstOfTwo, SameOp
<1>4. ASSUME Succeeded', ~core.arb PROVE target.msgs = Expected /\ call.got = UpTo(call.rx)
  <2>1. ~core.nack /\ ~Busy(core) /\ call.status = SUCCESS /\ ~FirstOfTwo /\ ~call.irq
    BY <1>1, <1>3, <1>4 DEF Succeeded, SameOp, NACK_ERR, TIMEOUT, SUCCESS
  <2>2. CASE Reads
    BY <1>1, <2>1, <2>2 DEF Delivered, Received
  <2>3. CASE ~Reads
    <3>1. Quiet /\ Counting /\ ~Failed(core) /\ core.en /\ Live
      BY <1>1, <1>4, <2>1, <2>3 DEF Busy, Quiet, Counting, Failed, Progress, Undisturbed, Writing, Live
    <3>2. PICK w \in Nat, r \in Nat, d \in Nat : OnBus(w, r, d) /\ Owned(w, r, d)
      BY <3>1 DEF Progress, Session
    <3>3. call.op = "tx" /\ call.rx = 0 /\ call.tx \in Nat /\ call.tx > 0
      BY <1>1, <2>1, <2>3 DEF TypesRight, CallType, CallSound, Reads, FirstOfTwo
    <3>4. w = WriteCount /\ r = ReadCount /\ Given(d) = w + r
      BY <1>1, <3>1, <3>2, <3>3 DEF Owned, End
    <3>5. Given(d) = d
      BY <1>1, <3>1, <3>2, BusFacts DEF Quiet
    <3>6. d > 0
      BY <3>3, <3>4, <3>5 DEF WriteCount
    <3>7. target.msgs = MsgsAt(w, d)
      BY <3>2, <3>6 DEF OnBus
    <3>8. MsgsAt(w, d) = Expected
      <4>1. d = w + r
        BY <3>4, <3>5
      <4> QED BY <1>1, <3>4, <4>1, SeenAtEnd
    <3>9. call.got = <<>> /\ UpTo(0) = <<>>
      BY <1>1, <2>3 DEF Progress, NothingIn, UpTo
    <3> QED BY <3>3, <3>7, <3>8, <3>9
  <2> QED BY <2>2, <2>3
<1>5. Finished'
  <2> SUFFICES ASSUME Succeeded' PROVE /\ ~core'.en /\ irq'.busy = 0 /\ isr' = "off"
                                       /\ ~core'.arb => target'.msgs = Expected' /\ call'.got = UpTo(call'.rx)
    BY DEF Finished
  <2>1. call'.rx = call.rx
    BY <1>1 DEF SameOp
  <2> QED BY <1>1, <1>2, <1>3, <1>4, <2>1
<1> QED BY <1>1, <1>5 DEF Delivered, Received, AtWork

\* The interrupts armed.
LEMMA ArmDelivered == Control /\ Arm => Delivered'
<1> SUFFICES ASSUME Control, Arm PROVE Delivered'
  OBVIOUS
<1>1. call'.at = "return" /\ call'.irq
  BY ArmEffect DEF Control, Labels, SameOp, At
<1> QED BY <1>1, NothingDelivered DEF Succeeded, AtWork

\* A transmit or receive has ended.
LEMMA ReturnDelivered == Delivered /\ Control /\ Return => Delivered'
<1> SUFFICES ASSUME Delivered, Control, Return PROVE Delivered'
  OBVIOUS
<1>1. /\ UNCHANGED <<core, irq, target, isr>> /\ call.at = "return" /\ isr = "off" /\ call.op # "none"
      /\ call'.op = call.op /\ call'.irq = call.irq /\ call'.tx = call.tx /\ call'.rx = call.rx
      /\ call'.got = call.got /\ call'.status = call.status
      /\ call'.at = "begin" \/ (call'.at = "idle" /\ call'.phase = call.phase)
  BY ReturnEffect DEF Control, Elsewhere, At
<1>2. CASE call'.at = "begin"
  BY <1>2, NothingDelivered DEF Succeeded, AtWork
<1>3. CASE call'.at = "idle" /\ call'.phase = call.phase
  <2>1. Expected' = Expected /\ FirstOfTwo' = FirstOfTwo
    BY <1>1, <1>3 DEF Expected, FirstOfTwo
  <2>2. Finished'
    BY <1>1, <1>3, <2>1 DEF Delivered, Finished, Succeeded
  <2> QED BY <1>3, <2>2 DEF Delivered, Received, AtWork
<1> QED BY <1>1, <1>2, <1>3

\* A query.  It ends nothing but a transaction left to the interrupts.
LEMMA QueryDelivered == Control /\ Delivered /\ (Query \/ QueryAbort) => Delivered'
<1> SUFFICES ASSUME Control, Delivered, Query \/ QueryAbort PROVE Delivered'
  OBVIOUS
<1>0. TypesRight /\ Labels /\ core \in CoreType
  BY FieldTypes DEF Control
<1>1. CASE Query
  <2>1. /\ UNCHANGED <<target, isr>> /\ SameOp /\ irq' = irq /\ call.at = "idle"
        /\ call'.got = call.got /\ call'.status = call.status
        /\ core' = core \/ core' = [core EXCEPT !.ints = {}]
        /\ call'.at \in {"abort", "idle"}
    BY <1>0, <1>1, QueryEffect DEF Elsewhere, At
  <2>2. core'.en = core.en /\ core'.arb = core.arb
    <3>1. CASE core' = core
      BY <3>1
    <3>2. CASE core' = [core EXCEPT !.ints = {}]
      BY <1>0, <3>2, IntsSwitched
    <3> QED BY <2>1, <3>1, <3>2
  <2>3. Expected' = Expected /\ FirstOfTwo' = FirstOfTwo
    BY <2>1 DEF Expected, FirstOfTwo, SameOp
  <2>4. Finished'
    BY <2>1, <2>2, <2>3 DEF Delivered, Finished, Succeeded, SameOp
  <2> QED BY <2>1, <2>4 DEF Delivered, Received, AtWork
<1>2. CASE QueryAbort
  <2>1. SameOp /\ call.at = "abort" /\ call'.status = call.status /\ call'.at = "idle" /\ irq.busy # 0
    BY <1>0, <1>2, QueryAbortEffect DEF At, Labels
  <2>2. ~Succeeded
    BY <2>1 DEF Delivered, Finished
  <2>3. ~Succeeded'
    BY <2>1, <2>2 DEF Succeeded, SameOp, FirstOfTwo
  <2> QED BY <2>1, <2>3, NothingDelivered DEF AtWork
<1> QED BY <1>1, <1>2

\* The interrupt routine.  It has nothing to do after a polled operation that succeeded.
LEMMA IsrDelivered == Control /\ Progress /\ Delivered /\ Isr => Delivered'
<1> SUFFICES ASSUME Control, Progress, Delivered, Isr PROVE Delivered'
  OBVIOUS
<1>0. TypesRight
  BY DEF Control
<1>1. ~Succeeded
  <2> SUFFICES ASSUME Succeeded PROVE FALSE
    OBVIOUS
  <2>1. ~core.en /\ irq.busy = 0 /\ isr = "off"
    BY DEF Delivered, Finished
  <2>2. core.rx = <<>> /\ "tx" \notin core.ints
    BY <2>1 DEF Control, CoreQuiet, Progress, Undisturbed
  <2>3. ~Interrupting(core)
    BY <2>2, DepthAssumption DEF Interrupting, RxReady
  <2> QED BY <2>1, <2>3 DEF Isr, IsrEnter, IsrWait
<1>2. UNCHANGED <<call, target>>
  BY <1>0, IsrEnterEffect, IsrWaitEffect DEF Isr
<1>3. Expected' = Expected /\ (Reads' <=> Reads) /\ ~Succeeded'
  BY <1>1, <1>2 DEF Expected, Reads, Succeeded, FirstOfTwo
<1>4. CASE IsrEnter
  <2>1. /\ core'.cmds = core.cmds /\ core'.cur = core.cur
        /\ irq.busy # 2 => irq' = irq /\ core'.rx = core.rx
    BY <1>0, <1>4, IsrEnterEffect
  <2>2. CASE call.at \in AtWork \cup {"wait"}
    <3>1. irq' = irq /\ core'.rx = core.rx
      BY <2>1, <2>2 DEF Control, Labels
    <3>2. Stream' = Stream
      BY <1>2, <3>1 DEF Stream, Stored
    <3> QED BY <1>2, <1>3, <2>1, <3>1, <3>2 DEF Delivered, Received, Finished
  <2>3. CASE call.at \notin AtWork \cup {"wait"}
    BY <1>2, <1>3, <2>3 DEF Delivered, Received, Finished
  <2> QED BY <2>2, <2>3
<1>5. CASE IsrWait
  <2>1. core \in CoreType /\ core' = Disabled(core)
    BY <1>0, <1>5, IsrWaitEffect, FieldTypes
  <2>2. core'.cmds = <<>> /\ core'.cur = Nothing /\ core'.rx = <<>>
    BY <2>1, OperationFields
  <2>3. ~(call.at \in AtWork /\ Reads /\ Len(Stream') = call.rx)
    <3> SUFFICES ASSUME call.at \in AtWork, Reads PROVE Len(Stream') # call.rx
      OBVIOUS
    <3>1. Stored' = call.got /\ call.got \in Seq(Nat) /\ call.rx \in Nat
      BY <1>0, <1>2, FieldTypes DEF Stored, TypesRight, CallType
    <3>2. Stream' = call.got
      BY <2>2, <3>1, ConcatEmptySeq DEF Stream
    <3>3. Len(call.got) < call.rx
      BY DEF Progress, Fits
    <3>4. Len(call.got) \in Nat
      BY <3>1
    <3> QED BY <3>1, <3>2, <3>3, <3>4
  <2> QED BY <1>2, <1>3, <2>2, <2>3 DEF Delivered, Received, Finished
<1> QED BY <1>4, <1>5 DEF Isr

\* A step of the driver.
LEMMA NextDelivered == Control /\ Progress /\ Progress' /\ Delivered /\ [Next]_vars => Delivered'
<1> SUFFICES ASSUME Control, Progress, Progress', Delivered, [Next]_vars PROVE Delivered'
  OBVIOUS
<1>1. CASE UNCHANGED vars
  <2>1. UNCHANGED <<core, target, call, irq, isr>>
    BY <1>1 DEF vars, driver
  <2>2. Stream' = Stream /\ (Reads' <=> Reads) /\ Expected' = Expected /\ (Succeeded' <=> Succeeded)
    BY <2>1 DEF Stream, Stored, Reads, Expected, Succeeded, FirstOfTwo
  <2> QED BY <2>1, <2>2 DEF Delivered, Received, Finished
<1>2. CASE Next
  <2>1. ASSUME NEW op, NEW u, NEW tx, NEW rx, Start(op, u, tx, rx) PROVE Delivered'
    <3>1. call'.at = "begin"
      BY <2>1 DEF Start, Control, TypesRight, CallType
    <3> QED BY <3>1, NothingDelivered DEF Succeeded, AtWork
  <2>2. CASE Program
    BY <2>2, BeginDelivered, CmdWriteDelivered, CmdCheckDelivered, RxReadDelivered, WaitIdleDelivered,
       ArmDelivered, ReturnDelivered, QueryDelivered DEF Program
  <2>3. CASE Query \/ Isr \/ Core
    BY <2>3, QueryDelivered, IsrDelivered, CoreDelivered
  <2> QED BY <1>2, <2>1, <2>2, <2>3 DEF Next
<1> QED BY <1>1, <1>2

\* What Delivered says of an idle driver.
LEMMA DeliveredSays == Control /\ Delivered => SuccessMeansDelivered
<1> SUFFICES ASSUME Control, Delivered PROVE SuccessMeansDelivered
  OBVIOUS
<1>1. SUCCESS \notin Retried
  BY DEF SUCCESS, Retried, ARB_LOST_ERR, NACK_ERR, BUSY
<1> QED BY <1>1 DEF Control, Labels, Delivered, Finished, Succeeded, SuccessMeansDelivered

\* A polled transaction reports success only if the target acknowledged every byte of it,
\* and then the buffer holds the target's bytes, however often it was tried again.
THEOREM SuccessIsDelivery == Spec => []SuccessMeansDelivered
<1>1. Init => Control /\ Progress /\ Delivered
  BY InitControl, InitProgress, InitDelivered
<1>2. Control /\ Progress /\ Delivered /\ [Next]_vars => Control' /\ Progress' /\ Delivered'
  BY NextControl, NextProgress, NextDelivered
<1> QED BY <1>1, <1>2, DeliveredSays, PTL DEF Spec

\* What the run checks of the driver, for the specification of the run.
THEOREM DriverDelivers ==
    BothSpec => [](SuccessMeansDelivered /\ BuffersInOrder /\ ReleasedWhenIdle)
<1>1. BothInit => Control /\ Progress /\ Delivered
  BY EitherRuns, InitControl, InitProgress, InitDelivered
<1>2. Control /\ Progress /\ Delivered /\ [BothNext]_<<block, vars, firmware>>
        => Control' /\ Progress' /\ Delivered'
  BY EitherRuns, NextControl, NextProgress, NextDelivered
<1>3. Control /\ Progress /\ Delivered => SuccessMeansDelivered /\ BuffersInOrder /\ ReleasedWhenIdle
  BY DeliveredSays, ProgressOrders, ControlReleases
<1> QED BY <1>1, <1>2, <1>3, PTL DEF BothSpec

===============================================================================
