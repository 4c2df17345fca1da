---------------------------- MODULE ArpProc_proofs ----------------------------
(***************************************************************************)
(* arp_proc, for all packets, buffer depths, life times and bounds: what   *)
(* it sends is framed, goes to hosts that asked, and rests on decisions    *)
(* each taken on one frame; a request goes out only for a stale entry.     *)
(***************************************************************************)
EXTENDS ArpProc, L8Stream_proofs

-----------------------------------------------------------------------------
(* The values of the registers.                                            *)

StagedBeats == Beats \cup {BlankBeat}

\* The addresses that may stand in the registers, and the beats sent.
Macs ==
    ({Half(b, 3, "smac", 1) : b \in StagedBeats} \X {Half(b, 4, "smac", 2) : b \in StagedBeats})
        \cup {NoAddr, BCAST_MAC}

Ips == {Field(b, 4, "sip") : b \in StagedBeats} \cup {NoAddr, GTW_IP}

OutBeats ==
    [kind : {REQUEST, REPLY}, n : 0..5, mac : Macs, ip : (UNION {{a[1], a[2]} : a \in Ips}) \cup {""}]

Queries == [mac : Macs, ip : Ips]

InTypeOK ==
    /\ ch_in \in Seq(Beats) /\ sent \in Seq(Beats)
    /\ in_stage0 \in Slot
    /\ in_stage \in [1..5 -> StagedBeats]

SendTypeOK ==
    /\ out_send_mode \in {IDLE, REQUEST, REPLY}
    /\ out_send_idx \in 0..6
    /\ out_send_mode # IDLE => out_send_idx # 6
    /\ out_send_arp_rpy_stdby \in BOOLEAN /\ out_send_arp_req_stdby \in BOOLEAN

OutTypeOK ==
    /\ out \in Seq(OutBeats)
    /\ out_stage \in Seq(OutBeats) /\ Len(out_stage) <= 1

AddrTypeOK ==
    /\ rpy_mac \in Macs /\ rpy_ip \in Ips
    /\ queries \in Seq(Queries)

-----------------------------------------------------------------------------
(* The invariant.                                                          *)

\* The number of beats that have been shifted into in_stage.
Shifted == Len(sent) - Len(ch_in) - Len(in_stage0)

\* The registers hold consecutive beats of the stream received, the newest in
\* front, and behind the first beat what the reset left.
Window ==
    /\ Framed(sent)
    /\ Shifted >= 0
    /\ \A i \in 1..5 :
         in_stage[i] = IF Shifted + 1 - i >= 1 THEN sent[Shifted + 1 - i] ELSE BlankBeat
    /\ in_stage0 # <<>> => in_stage0[1] = sent[Shifted + 1]
    /\ \A j \in 1..Len(ch_in) : ch_in[j] = sent[Shifted + Len(in_stage0) + j]

\* The counter counts down what the age counts up.
Aged ==
    /\ arp_cache_invalidate_count \in Nat /\ age \in Nat
    /\ arp_cache_invalidate_count + age = ARP_CACHE_LIFETIME

\* What has been sent, the output register included.
Passed == out \o out_stage

WholeFrames(s) ==
    /\ s # <<>> => s[1].n = 0
    /\ \A i \in 1..Len(s) - 1 :
         IF s[i].n = 5 THEN s[i + 1].n = 0
         ELSE s[i + 1].n = s[i].n + 1 /\ s[i + 1].kind = s[i].kind

\* A machine that has sent s may be in this mode, with the beat idx to send next.
StandsAt(s, mode, idx) ==
    IF mode # IDLE /\ idx > 0
    THEN s # <<>> /\ s[Len(s)].n = idx - 1 /\ s[Len(s)].kind = mode
    ELSE s # <<>> => s[Len(s)].n = 5

Framing == WholeFrames(Passed) /\ StandsAt(Passed, out_send_mode, out_send_idx)

\* The replies begun, the one whose first beat is still to be fetched included.
BeginsReply == out_send_mode = REPLY /\ out_send_idx = 0
RepliesIn(s) == ReplyNo(s, Len(s))
Begun == RepliesIn(Passed) + (IF BeginsReply THEN 1 ELSE 0)

\* Every query accepted has its reply begun or waiting to begin, and the
\* registers of the addresses hold the last one.
Accounted ==
    /\ Len(queries) = Begun + (IF out_send_arp_rpy_stdby THEN 1 ELSE 0)
    /\ out_send_mode = REPLY => Begun # 0
    /\ queries # <<>> =>
         rpy_mac = queries[Len(queries)].mac /\ rpy_ip = queries[Len(queries)].ip

\* ReplyFromThisOrNextQuery for the stream s, of which the queries are qs.
FromThisOrNext(s, qs) ==
    \A i \in 1..Len(s) : s[i].kind = REPLY =>
        LET k == ReplyNo(s, i)
            asked == {qs[j] : j \in {k, k + 1} \cap 1..Len(qs)}
        IN  /\ k <= Len(qs)
            /\ s[i].n \in {0, 4} => s[i].mac \in {q.mac : q \in asked}
            /\ s[i].n = 5 => s[i].ip \in {q.ip[2] : q \in asked}

\* The frame that a query or the gateway's address was taken from.
Announced(s, p) == \E i \in 1..Len(s) : s[i].pkt = p

DecidedOn(s, qs, gtw) ==
    /\ \A k \in 1..Len(qs) :
         \E p \in Packets : /\ Announced(s, p) /\ p.op = "REQ" /\ p.dip = OWN_IP
                            /\ qs[k] = [mac |-> p.smac, ip |-> p.sip]
    /\ gtw # NoAddr =>
         \E p \in Packets : Announced(s, p) /\ p.sip = GTW_IP /\ p.smac = gtw

SendInv == SendTypeOK /\ OutTypeOK /\ AddrTypeOK /\ Framing /\ Accounted /\ FromThisOrNext(Passed, queries)

DecideInv == InTypeOK /\ AddrTypeOK /\ Window /\ DecidedOn(sent, queries, gtw_mac)

-----------------------------------------------------------------------------
(* Which steps change what.                                                *)

\* A step receives, counts the pulse, or is an invocation.
LEMMA Steps ==
    ASSUME [Next]_vars
    PROVE  \/ \E b \in NextBeats(sent) : Supply(b)
           \/ \E accepting \in BOOLEAN : Invoke(accepting)
           \/ UNCHANGED <<inVars, outVars, addrVars, sent, out, queries, age>>
<1>1. CASE Next
  BY <1>1 DEF Next, Pulse
<1>2. CASE UNCHANGED vars
  BY <1>2 DEF vars
<1> QED BY <1>1, <1>2

-----------------------------------------------------------------------------
(* The life time of the gateway's address.                                 *)

\* Counter and age run against each other.
LEMMA AgedInvariant == Spec => []Aged
<1>1. Init => Aged
  BY LifetimeAssumption DEF Init, Aged
<1>2. ASSUME Aged, [Next]_vars PROVE Aged'
  <2>1. CASE \E b \in NextBeats(sent) : Supply(b)
    BY <1>2, <2>1 DEF Aged, Supply, addrVars
  <2>2. CASE \E accepting \in BOOLEAN : Invoke(accepting)
    <3>1. arp_cache_invalidate_count' =
            IF UpdatesCache THEN ARP_CACHE_LIFETIME ELSE CountedDown
      BY <2>2 DEF Invoke, Learn
    <3>2. age' = CASE UpdatesCache -> 0
                   [] ~UpdatesCache /\ ch_pps_in /\ age < ARP_CACHE_LIFETIME -> age + 1
                   [] OTHER -> age
      BY <2>2 DEF Invoke
    <3>3. CASE UpdatesCache
      BY <3>1, <3>2, <3>3, LifetimeAssumption DEF Aged
    <3>4. CASE ~UpdatesCache /\ ch_pps_in
      <4>1. age < ARP_CACHE_LIFETIME <=> arp_cache_invalidate_count > 0
        BY <1>2, LifetimeAssumption DEF Aged
      <4> QED BY <1>2, <3>1, <3>2, <3>4, <4>1, LifetimeAssumption DEF Aged, CountedDown
    <3>5. CASE ~UpdatesCache /\ ~ch_pps_in
      BY <1>2, <3>1, <3>2, <3>5 DEF Aged, CountedDown
    <3> QED BY <3>3, <3>4, <3>5
  <2>3. CASE UNCHANGED <<inVars, outVars, addrVars, sent, out, queries, age>>
    BY <1>2, <2>3 DEF Aged, addrVars
  <2> QED BY <1>2, <2>1, <2>2, <2>3, Steps
<1> QED BY <1>1, <1>2, PTL DEF Spec

\* A request is queued only by a pulse that finds the gateway not heard for
\* the life time of its address, whatever else the same invocation does.
THEOREM RequestsOnlyWhenStale == Spec => RequestOnlyWhenStale
<1> DEFINE Asks == /\ ~out_send_arp_req_stdby
                   /\ \/ out_send_arp_req_stdby'
                      \/ out_send_mode # REQUEST /\ out_send_mode' = REQUEST
           Stale == ch_pps_in /\ age = ARP_CACHE_LIFETIME
<1>1. ASSUME Aged, [Next]_vars, Asks PROVE Stale
  <2>1. CASE \E accepting \in BOOLEAN : Invoke(accepting)
    <3>1. PICK accepting \in BOOLEAN : ChooseMode(accepting)
      BY <2>1 DEF Invoke
    <3>2. ReqWaits
      BY <1>1, <3>1 DEF ChooseMode, IDLE, REQUEST, REPLY
    <3>3. ch_pps_in /\ arp_cache_invalidate_count = 0
      BY <1>1, <3>2 DEF ReqWaits, Expires
    <3> QED BY <1>1, <3>3, LifetimeAssumption DEF Aged
  <2>2. CASE \E b \in NextBeats(sent) : Supply(b)
    BY <1>1, <2>2 DEF Supply, outVars
  <2>3. CASE UNCHANGED <<inVars, outVars, addrVars, sent, out, queries, age>>
    BY <1>1, <2>3 DEF outVars
  <2> QED BY <1>1, <2>1, <2>2, <2>3, Steps
<1>2. Aged /\ [Next]_vars => [Asks => Stale]_vars
  BY <1>1
<1> QED BY <1>2, AgedInvariant, PTL DEF Spec, RequestOnlyWhenStale

-----------------------------------------------------------------------------
(* What is sent.                                                           *)

\* The fields of a beat that stand in a register have the values named above.
LEMMA ReceivedTypes ==
    ASSUME InTypeOK
    PROVE  recv_src_mac \in Macs /\ recv_src_ip \in Ips
<1>1. in_stage[3] \in StagedBeats /\ in_stage[2] \in StagedBeats
  BY DEF InTypeOK
<1> QED BY <1>1 DEF recv_src_mac, recv_src_ip, Macs, Ips

\* What is sent is a beat of a request or reply.
LEMMA SendBeatType ==
    ASSUME SendTypeOK, AddrTypeOK, out_send_mode # IDLE
    PROVE  /\ SendBeat \in OutBeats
           /\ SendBeat.kind = out_send_mode /\ SendBeat.n = out_send_idx
<1> DEFINE mac == IF out_send_mode = REQUEST THEN BCAST_MAC ELSE rpy_mac
           ip == IF out_send_mode = REQUEST THEN GTW_IP ELSE rpy_ip
           beatMac == IF out_send_idx \in {0, 4} THEN mac ELSE NoAddr
           beatIp == CASE out_send_idx = 4 -> GTW_IP[1]
                       [] out_send_idx = 5 -> ip[2]
                       [] OTHER -> ""
           ips == (UNION {{a[1], a[2]} : a \in Ips}) \cup {""}
<1>1. NoAddr \in Macs /\ BCAST_MAC \in Macs /\ rpy_mac \in Macs
  BY DEF AddrTypeOK, Macs
<1>2. beatMac \in Macs
  BY <1>1
<1>3. GTW_IP \in Ips /\ rpy_ip \in Ips
  BY DEF AddrTypeOK, Ips
<1>4. ip \in Ips
  BY <1>3
<1>5. \A a \in Ips : a[1] \in ips /\ a[2] \in ips
  OBVIOUS
<1>6. "" \in ips
  <2>1. \A A, e : e \in A \cup {e}
    OBVIOUS
  <2> QED BY <2>1
<1>7. beatIp \in ips
  <2> HIDE DEF ips, ip
  <2> QED BY <1>3, <1>4, <1>5, <1>6
<1>8. SendBeat = [kind |-> out_send_mode, n |-> out_send_idx, mac |-> beatMac, ip |-> beatIp]
  BY DEF SendBeat
<1>9. out_send_mode \in {REQUEST, REPLY} /\ out_send_idx \in 0..5
  BY DEF SendTypeOK
<1> HIDE DEF beatMac, beatIp, ips
<1> QED BY <1>2, <1>7, <1>8, <1>9 DEF OutBeats, ips

\* The choice at the end of an invocation: a reply begins, or a request, or
\* nothing is to send, or a frame goes on.
Idles(accepting) == out_send_mode = IDLE \/ (Fetches(accepting) /\ out_send_idx = 5)

BeginsReplyNow(accepting) ==
    /\ Idles(accepting) /\ RpyWaits
    /\ out_send_mode' = REPLY /\ out_send_idx' = 0
    /\ out_send_arp_rpy_stdby' = FALSE

BeginsRequestNow(accepting) ==
    /\ Idles(accepting) /\ ~RpyWaits
    /\ out_send_mode' = REQUEST /\ out_send_idx' = 0
    /\ out_send_arp_rpy_stdby' = FALSE

RestsNow(accepting) ==
    /\ Idles(accepting) /\ ~RpyWaits
    /\ out_send_mode' = IDLE
    /\ out_send_idx' = IF Fetches(accepting) THEN out_send_idx + 1 ELSE out_send_idx
    /\ out_send_arp_rpy_stdby' = FALSE

GoesOn(accepting) ==
    /\ ~Idles(accepting)
    /\ out_send_mode' = out_send_mode
    /\ out_send_idx' = IF Fetches(accepting) THEN out_send_idx + 1 ELSE out_send_idx
    /\ out_send_arp_rpy_stdby' = RpyWaits

\* There is no other choice.
LEMMA SendChoices ==
    ASSUME SendTypeOK, NEW accepting \in BOOLEAN, ChooseMode(accepting)
    PROVE  /\ out_send_arp_req_stdby' \in BOOLEAN
           /\ \/ BeginsReplyNow(accepting) \/ BeginsRequestNow(accepting)
              \/ RestsNow(accepting) \/ GoesOn(accepting)
<1> DEFINE idle == out_send_mode = IDLE \/ (Fetches(accepting) /\ out_send_idx = 5)
           starts == idle /\ (RpyWaits \/ ReqWaits)
<1>1. /\ out_send_mode' = CASE starts /\ RpyWaits -> REPLY
                            [] starts /\ ~RpyWaits -> REQUEST
                            [] idle /\ ~starts -> IDLE
                            [] OTHER -> out_send_mode
      /\ out_send_arp_rpy_stdby' = (RpyWaits /\ ~idle)
      /\ out_send_arp_req_stdby' = (ReqWaits /\ (idle => RpyWaits))
      /\ out_send_idx' = CASE starts -> 0
                           [] ~starts /\ Fetches(accepting) -> out_send_idx + 1
                           [] OTHER -> out_send_idx
  BY Zenon DEF ChooseMode
<1>2. Idles(accepting) <=> idle
  BY DEF Idles
<1>3. out_send_arp_req_stdby' \in BOOLEAN
  BY <1>1
<1>4. RpyWaits \in BOOLEAN
  BY DEF RpyWaits, SendTypeOK
<1> HIDE DEF idle
<1>5. CASE idle /\ RpyWaits
  BY <1>1, <1>2, <1>5 DEF BeginsReplyNow
<1>6. CASE idle /\ ~RpyWaits /\ ReqWaits
  BY <1>1, <1>2, <1>6 DEF BeginsRequestNow
<1>7. CASE idle /\ ~RpyWaits /\ ~ReqWaits
  BY <1>1, <1>2, <1>7 DEF RestsNow
<1>8. CASE ~idle
  BY <1>1, <1>2, <1>4, <1>8 DEF GoesOn
<1> QED BY <1>3, <1>5, <1>6, <1>7, <1>8

\* What the receiver takes and what is fetched into the free register makes
\* the stream that has passed longer by the beat fetched.
LEMMA TransmitPassed ==
    ASSUME SendTypeOK, OutTypeOK, AddrTypeOK,
           NEW accepting \in BOOLEAN, Transmit(accepting)
    PROVE  /\ OutTypeOK'
           /\ Fetches(accepting) => Passed' = Passed \o <<SendBeat>>
           /\ ~Fetches(accepting) => Passed' = Passed
<1> DEFINE fetches == Fetches(accepting)
<1>1. /\ out' = IF accepting THEN out \o out_stage ELSE out
      /\ out_stage' = IF fetches THEN <<SendBeat>> ELSE IF accepting THEN <<>> ELSE out_stage
  BY DEF Transmit, Latch
<1>2. out \in Seq(OutBeats) /\ out_stage \in Seq(OutBeats) /\ Len(out_stage) <= 1
  BY DEF OutTypeOK
<1>3. fetches => SendBeat \in OutBeats /\ (out_stage = <<>> \/ accepting)
  BY SendBeatType DEF Fetches
<1> HIDE DEF fetches
<1>4. CASE fetches
  <2>1. <<SendBeat>> \in Seq(OutBeats) /\ Len(<<SendBeat>>) <= 1
    BY <1>3, <1>4
  <2>2. out \o out_stage \in Seq(OutBeats)
    BY <1>2
  <2>3. out_stage = <<>> => out \o out_stage = out
    BY <1>2
  <2>4. out' = out \o out_stage
    BY <1>1, <1>3, <1>4, <2>3
  <2> QED BY <1>1, <1>4, <2>1, <2>2, <2>4 DEF OutTypeOK, Passed, fetches
<1>5. CASE ~fetches /\ accepting
  <2>1. out \o out_stage \in Seq(OutBeats)
    BY <1>2
  <2>2. <<>> \in Seq(OutBeats) /\ Len(<<>>) <= 1 /\ (out \o out_stage) \o <<>> = out \o out_stage
    BY <2>1
  <2> QED BY <1>1, <1>5, <2>1, <2>2 DEF OutTypeOK, Passed, fetches
<1>6. CASE ~fetches /\ ~accepting
  BY <1>1, <1>2, <1>6 DEF OutTypeOK, Passed, fetches
<1> QED BY <1>4, <1>5, <1>6

\* Where the machine stands after the invocation: after a beat that has been
\* fetched, one further; and at the end of a frame it stands at the next.
LEMMA FramingKept ==
    ASSUME SendTypeOK, OutTypeOK, AddrTypeOK, Framing,
           NEW accepting \in BOOLEAN, Transmit(accepting), ChooseMode(accepting)
    PROVE  SendTypeOK' /\ Framing'
<1> DEFINE b == SendBeat
           s == Passed
<1>1. s \in Seq(OutBeats)
  BY DEF OutTypeOK, Passed
<1>2. Fetches(accepting) => /\ out_send_mode # IDLE
                            /\ b \in OutBeats /\ b.kind = out_send_mode /\ b.n = out_send_idx
                            /\ out_send_idx \in 0..5
  BY SendBeatType DEF Fetches, SendTypeOK
<1>3. /\ Fetches(accepting) => Passed' = s \o <<b>>
      /\ ~Fetches(accepting) => Passed' = s
  BY TransmitPassed
<1>4. SendTypeOK'
  <2>1. out_send_idx \in Nat /\ RpyWaits \in BOOLEAN
    BY DEF SendTypeOK, RpyWaits
  <2>2. out_send_arp_req_stdby' \in BOOLEAN
    BY SendChoices
  <2>3. CASE BeginsReplyNow(accepting)
    <3>1. out_send_arp_rpy_stdby' \in BOOLEAN
      BY <2>3, Zenon DEF BeginsReplyNow
    <3> QED BY <2>2, <2>3, <3>1 DEF BeginsReplyNow, SendTypeOK, IDLE, REPLY, REQUEST
  <2>4. CASE BeginsRequestNow(accepting)
    <3>1. out_send_arp_rpy_stdby' \in BOOLEAN
      BY <2>4, Zenon DEF BeginsRequestNow
    <3> QED BY <2>2, <2>4, <3>1 DEF BeginsRequestNow, SendTypeOK, IDLE, REPLY, REQUEST
  <2>5. CASE RestsNow(accepting)
    <3>1. out_send_arp_rpy_stdby' \in BOOLEAN
      BY <2>5, Zenon DEF RestsNow
    <3> QED BY <1>2, <2>1, <2>2, <2>5, <3>1 DEF RestsNow, SendTypeOK, IDLE, REPLY, REQUEST
  <2>6. CASE GoesOn(accepting)
    BY <1>2, <2>1, <2>2, <2>6 DEF GoesOn, Idles, SendTypeOK, IDLE, REPLY, REQUEST
  <2> QED BY <2>3, <2>4, <2>5, <2>6, SendChoices
<1> HIDE DEF b, s
<1>5. s # <<>> <=> Len(s) # 0
  BY <1>1
<1>6. WholeFrames(s) /\ StandsAt(s, out_send_mode, out_send_idx)
  BY DEF Framing, s
<1>7. CASE Fetches(accepting)
  <2> DEFINE t == s \o <<b>>
  <2>1. /\ t \in Seq(OutBeats) /\ Len(t) = Len(s) + 1 /\ t # <<>> /\ Len(s) \in Nat
        /\ t[Len(t)] = b /\ \A i \in 1..Len(s) : t[i] = s[i]
    BY <1>1, <1>2, <1>7, AppendOne
  <2> HIDE DEF t
  <2>2. s = <<>> => out_send_idx = 0
    BY <1>2, <1>6, <1>7 DEF StandsAt
  <2>3. s # <<>> => IF s[Len(s)].n = 5 THEN b.n = 0
                    ELSE b.n = s[Len(s)].n + 1 /\ b.kind = s[Len(s)].kind
    <3>1. CASE out_send_idx > 0
      BY <1>2, <1>6, <1>7, <3>1 DEF StandsAt
    <3>2. CASE out_send_idx = 0
      BY <1>2, <1>6, <1>7, <3>2 DEF StandsAt
    <3> QED BY <1>2, <1>7, <3>1, <3>2
  <2>4. WholeFrames(t)
    <3>1. t[1].n = 0
      <4>1. CASE s = <<>>
        BY <1>2, <1>5, <1>7, <2>1, <2>2, <4>1
      <4>2. CASE s # <<>>
        BY <1>5, <1>6, <2>1, <4>2 DEF WholeFrames
      <4> QED BY <4>1, <4>2
    <3>2. ASSUME NEW i \in 1..Len(t) - 1
          PROVE  IF t[i].n = 5 THEN t[i + 1].n = 0
                 ELSE t[i + 1].n = t[i].n + 1 /\ t[i + 1].kind = t[i].kind
      <4>1. CASE i = Len(s)
        <5>1. s # <<>> /\ t[i] = s[Len(s)] /\ t[i + 1] = b
          BY <1>5, <2>1, <4>1
        <5> QED BY <2>3, <5>1
      <4>2. CASE i # Len(s)
        <5>1. i \in 1..Len(s) - 1 /\ i \in 1..Len(s) /\ i + 1 \in 1..Len(s)
          BY <2>1, <4>2
        <5>2. t[i] = s[i] /\ t[i + 1] = s[i + 1]
          BY <2>1, <5>1
        <5> QED BY <1>6, <5>1, <5>2 DEF WholeFrames
      <4> QED BY <4>1, <4>2
    <3> QED BY <3>1, <3>2 DEF WholeFrames
  <2>5. Idles(accepting) <=> out_send_idx = 5
    BY <1>2, <1>7 DEF Idles
  <2>6. StandsAt(t, out_send_mode', out_send_idx')
    <3>1. CASE BeginsReplyNow(accepting)
      BY <1>2, <1>7, <2>1, <2>5, <3>1 DEF BeginsReplyNow, StandsAt
    <3>2. CASE BeginsRequestNow(accepting)
      BY <1>2, <1>7, <2>1, <2>5, <3>2 DEF BeginsRequestNow, StandsAt
    <3>3. CASE RestsNow(accepting)
      BY <1>2, <1>7, <2>1, <2>5, <3>3 DEF RestsNow, StandsAt
    <3>4. CASE GoesOn(accepting)
      BY <1>2, <1>7, <2>1, <3>4 DEF GoesOn, StandsAt
    <3> QED BY <3>1, <3>2, <3>3, <3>4, SendChoices
  <2>7. Passed' = t
    BY <1>3, <1>7 DEF t
  <2> QED BY <1>4, <2>4, <2>6, <2>7 DEF Framing
<1>8. CASE ~Fetches(accepting)
  <2>1. Idles(accepting) <=> out_send_mode = IDLE
    BY <1>8 DEF Idles
  <2>2. StandsAt(s, out_send_mode', out_send_idx')
    <3>1. CASE BeginsReplyNow(accepting)
      BY <1>6, <2>1, <3>1 DEF BeginsReplyNow, StandsAt
    <3>2. CASE BeginsRequestNow(accepting)
      BY <1>6, <2>1, <3>2 DEF BeginsRequestNow, StandsAt
    <3>3. CASE RestsNow(accepting)
      BY <1>6, <2>1, <3>3 DEF RestsNow, StandsAt
    <3>4. CASE GoesOn(accepting)
      BY <1>6, <1>8, <3>4 DEF GoesOn, StandsAt
    <3> QED BY <3>1, <3>2, <3>3, <3>4, SendChoices
  <2>3. Passed' = s
    BY <1>3, <1>8
  <2> QED BY <1>4, <1>6, <2>2, <2>3 DEF Framing
<1> QED BY <1>7, <1>8

-----------------------------------------------------------------------------
(* Replies and the queries they answer.                                    *)

BeginsReplyAt(s, i) == s[i].kind = REPLY /\ s[i].n = 0

\* The number of a reply counts the beats that begin one.
LEMMA ReplyNoNext ==
    ASSUME NEW s, NEW i \in Nat
    PROVE  /\ ReplyNo(s, i) \in Nat
           /\ ReplyNo(s, i + 1) = ReplyNo(s, i) + (IF BeginsReplyAt(s, i + 1) THEN 1 ELSE 0)
<1> DEFINE P(k) == {j \in 1..k : s[j].kind = REPLY /\ s[j].n = 0}
<1>1. \A k \in Nat : IsFiniteSet(P(k))
  <2> TAKE k \in Nat
  <2>1. IsFiniteSet(1..k)
    BY FS_Interval
  <2>2. P(k) \subseteq 1..k
    OBVIOUS
  <2> QED BY <2>1, <2>2, FS_Subset
<1>2. ReplyNo(s, i) = Cardinality(P(i)) /\ ReplyNo(s, i + 1) = Cardinality(P(i + 1))
  BY DEF ReplyNo
<1>3. i + 1 \notin P(i)
  OBVIOUS
<1>4. P(i + 1) = IF BeginsReplyAt(s, i + 1) THEN P(i) \cup {i + 1} ELSE P(i)
  <2>1. \A j : j \in 1..(i + 1) <=> j \in 1..i \/ j = i + 1
    OBVIOUS
  <2> QED BY <2>1 DEF BeginsReplyAt
<1> HIDE DEF P
<1>5. Cardinality(P(i) \cup {i + 1}) = Cardinality(P(i)) + 1
  BY <1>1, <1>3, FS_AddElement
<1>6. Cardinality(P(i)) \in Nat
  BY <1>1, FS_CardinalityType
<1> QED BY <1>2, <1>4, <1>5, <1>6

\* It depends on the beats before only.
LEMMA ReplyNoSame ==
    ASSUME NEW s, NEW t, NEW i \in Nat, \A j \in 1..i : t[j] = s[j]
    PROVE  ReplyNo(t, i) = ReplyNo(s, i)
<1>1. {j \in 1..i : t[j].kind = REPLY /\ t[j].n = 0} = {j \in 1..i : s[j].kind = REPLY /\ s[j].n = 0}
  OBVIOUS
<1> QED BY <1>1 DEF ReplyNo

\* The replies of a stream, and of one with a beat more.
LEMMA RepliesInAppend ==
    ASSUME NEW s \in Seq(OutBeats), NEW b \in OutBeats
    PROVE  /\ RepliesIn(s) \in Nat
           /\ RepliesIn(s \o <<b>>) =
                RepliesIn(s) + (IF b.kind = REPLY /\ b.n = 0 THEN 1 ELSE 0)
           /\ \A i \in 1..Len(s) : ReplyNo(s \o <<b>>, i) = ReplyNo(s, i)
<1> DEFINE t == s \o <<b>>
<1>1. /\ t \in Seq(OutBeats) /\ Len(t) = Len(s) + 1 /\ Len(s) \in Nat
      /\ t[Len(s) + 1] = b /\ \A i \in 1..Len(s) : t[i] = s[i]
  BY AppendOne
<1> HIDE DEF t
<1>2. ReplyNo(t, Len(s) + 1) =
        ReplyNo(t, Len(s)) + (IF BeginsReplyAt(t, Len(s) + 1) THEN 1 ELSE 0)
  BY <1>1, ReplyNoNext
<1>3. ReplyNo(t, Len(s)) = ReplyNo(s, Len(s))
  BY <1>1, ReplyNoSame
<1>4. \A i \in 1..Len(s) : ReplyNo(t, i) = ReplyNo(s, i)
  <2> TAKE i \in 1..Len(s)
  <2>1. i \in Nat /\ \A j \in 1..i : t[j] = s[j]
    BY <1>1
  <2> QED BY <2>1, ReplyNoSame
<1>5. ReplyNo(s, Len(s)) \in Nat
  BY <1>1, ReplyNoNext
<1> QED BY <1>1, <1>2, <1>3, <1>4, <1>5 DEF RepliesIn, BeginsReplyAt, t

\* What a stream took from the queries, it also took from more queries.
LEMMA MoreQueries ==
    ASSUME NEW s, NEW qs \in Seq(Queries), NEW q \in Queries, FromThisOrNext(s, qs)
    PROVE  FromThisOrNext(s, Append(qs, q))
<1> DEFINE rs == Append(qs, q)
           Asked(ps, k) == {ps[j] : j \in {k, k + 1} \cap 1..Len(ps)}
<1>1. Len(rs) = Len(qs) + 1 /\ Len(qs) \in Nat /\ \A j \in 1..Len(qs) : rs[j] = qs[j]
  OBVIOUS
<1> HIDE DEF rs
<1>2. \A k : Asked(qs, k) \subseteq Asked(rs, k)
  <2>1. \A j : j \in 1..Len(qs) => j \in 1..Len(rs)
    BY <1>1
  <2> QED BY <1>1, <2>1
<1>3. ASSUME NEW i \in 1..Len(s), s[i].kind = REPLY
      PROVE  /\ ReplyNo(s, i) <= Len(rs)
             /\ s[i].n \in {0, 4} => s[i].mac \in {p.mac : p \in Asked(rs, ReplyNo(s, i))}
             /\ s[i].n = 5 => s[i].ip \in {p.ip[2] : p \in Asked(rs, ReplyNo(s, i))}
  <2> DEFINE k == ReplyNo(s, i)
  <2>1. /\ k <= Len(qs)
        /\ s[i].n \in {0, 4} => s[i].mac \in {p.mac : p \in Asked(qs, k)}
        /\ s[i].n = 5 => s[i].ip \in {p.ip[2] : p \in Asked(qs, k)}
    BY <1>3 DEF FromThisOrNext
  <2>2. i \in Nat
    OBVIOUS
  <2>3. k \in Nat
    <3>1. \E n \in Nat : i = n
      BY <2>2
    <3> QED BY <3>1, ReplyNoNext
  <2> HIDE DEF k, Asked
  <2>4. k <= Len(rs)
    BY <1>1, <2>1, <2>3
  <2>5. \A p : p \in Asked(qs, k) => p \in Asked(rs, k)
    BY <1>2
  <2> QED BY <2>1, <2>4, <2>5 DEF k
<1> QED BY <1>3 DEF FromThisOrNext, rs

\* A beat of a reply carries addresses of the last query accepted, and that is
\* the query the reply is for or the one after it.
LEMMA OneBeatMore ==
    ASSUME NEW s \in Seq(OutBeats), NEW b \in OutBeats, NEW qs \in Seq(Queries),
           FromThisOrNext(s, qs),
           b.kind = REPLY =>
             /\ RepliesIn(s \o <<b>>) # 0
             /\ Len(qs) \in {RepliesIn(s \o <<b>>), RepliesIn(s \o <<b>>) + 1}
             /\ b.n \in {0, 4} => b.mac = qs[Len(qs)].mac
             /\ b.n = 5 => b.ip = qs[Len(qs)].ip[2]
    PROVE  FromThisOrNext(s \o <<b>>, qs)
<1> DEFINE t == s \o <<b>>
           Asked(k) == {qs[j] : j \in {k, k + 1} \cap 1..Len(qs)}
           Right(u, i) == /\ ReplyNo(u, i) <= Len(qs)
                          /\ u[i].n \in {0, 4} => u[i].mac \in {p.mac : p \in Asked(ReplyNo(u, i))}
                          /\ u[i].n = 5 => u[i].ip \in {p.ip[2] : p \in Asked(ReplyNo(u, i))}
<1>1. /\ t \in Seq(OutBeats) /\ Len(t) = Len(s) + 1 /\ Len(s) \in Nat
      /\ t[Len(s) + 1] = b /\ \A i \in 1..Len(s) : t[i] = s[i]
  BY AppendOne
<1>2. RepliesIn(t) \in Nat /\ RepliesIn(t) = ReplyNo(t, Len(t))
  BY <1>1, RepliesInAppend DEF RepliesIn
<1>3. \A i \in 1..Len(s) : ReplyNo(t, i) = ReplyNo(s, i)
  BY RepliesInAppend
<1>4. b.kind = REPLY => /\ RepliesIn(t) # 0
                        /\ Len(qs) \in {RepliesIn(t), RepliesIn(t) + 1}
                        /\ b.n \in {0, 4} => b.mac = qs[Len(qs)].mac
                        /\ b.n = 5 => b.ip = qs[Len(qs)].ip[2]
  OBVIOUS
<1> HIDE DEF t
<1>5. ASSUME NEW i \in 1..Len(t), t[i].kind = REPLY PROVE Right(t, i)
  <2>1. CASE i \in 1..Len(s)
    <3>1. t[i] = s[i] /\ ReplyNo(t, i) = ReplyNo(s, i)
      BY <1>1, <1>3, <2>1
    <3>2. Right(s, i)
      BY <1>5, <2>1, <3>1 DEF FromThisOrNext
    <3> QED BY <3>1, <3>2
  <2>2. CASE i \notin 1..Len(s)
    <3>1. i = Len(t) /\ t[i] = b
      BY <1>1, <2>2
    <3>2. RepliesIn(t) = ReplyNo(t, i)
      BY <1>2, <3>1
    <3>3. Len(qs) \in 1..Len(qs) /\ Len(qs) \in {ReplyNo(t, i), ReplyNo(t, i) + 1} /\ ReplyNo(t, i) <= Len(qs)
      BY <1>2, <1>4, <1>5, <3>1, <3>2
    <3>4. qs[Len(qs)] \in Asked(ReplyNo(t, i))
      BY <3>3
    <3> HIDE DEF Asked
    <3> QED BY <1>4, <1>5, <3>1, <3>3, <3>4
  <2> QED BY <2>1, <2>2
<1>6. FromThisOrNext(t, qs)
  BY <1>5 DEF FromThisOrNext
<1> QED BY <1>6 DEF t

\* An invocation begins a reply only in the way BeginsReplyNow says; otherwise
\* the first beat of one moves from being due to having passed.
LEMMA BegunAfter ==
    ASSUME SendTypeOK, OutTypeOK, AddrTypeOK,
           NEW accepting \in BOOLEAN, Transmit(accepting), ChooseMode(accepting)
    PROVE  /\ Begun \in Nat
           /\ BeginsReplyNow(accepting) => Begun' = Begun + 1
           /\ ~BeginsReplyNow(accepting) => Begun' = Begun
           /\ Fetches(accepting) /\ out_send_mode = REPLY => RepliesIn(Passed') = Begun
<1> DEFINE r == RepliesIn(Passed)
           m == RepliesIn(Passed')
<1>1. Passed \in Seq(OutBeats)
  BY DEF OutTypeOK, Passed
<1>2. Fetches(accepting) => /\ SendBeat \in OutBeats
                            /\ SendBeat.kind = out_send_mode /\ SendBeat.n = out_send_idx
                            /\ out_send_mode # IDLE
  BY SendBeatType DEF Fetches
<1>3. r \in Nat
  <2>1. \E e : e \in OutBeats
    <3>1. [kind |-> REPLY, n |-> 0, mac |-> NoAddr, ip |-> ""] \in OutBeats
      BY DEF OutBeats, Macs
    <3> QED BY <3>1
  <2> QED BY <1>1, <2>1, RepliesInAppend
<1>4. m = IF Fetches(accepting) /\ BeginsReply THEN r + 1 ELSE r
  <2>1. CASE Fetches(accepting)
    <3>1. Passed' = Passed \o <<SendBeat>>
      BY <2>1, TransmitPassed
    <3>2. m = r + (IF SendBeat.kind = REPLY /\ SendBeat.n = 0 THEN 1 ELSE 0)
      BY <1>1, <1>2, <2>1, <3>1, RepliesInAppend
    <3> HIDE DEF m, r
    <3> QED BY <1>2, <1>3, <2>1, <3>2 DEF BeginsReply
  <2>2. CASE ~Fetches(accepting)
    BY <2>2, TransmitPassed
  <2> QED BY <2>1, <2>2
<1>5. Begun = r + (IF BeginsReply THEN 1 ELSE 0)
  BY DEF Begun
<1>6. Begun' = m + (IF BeginsReply' THEN 1 ELSE 0)
  BY DEF Begun
<1> HIDE DEF r, m
<1>7. out_send_idx \in Nat
  BY DEF SendTypeOK
<1>8. CASE BeginsReplyNow(accepting)
  <2>1. BeginsReply'
    BY <1>8 DEF BeginsReplyNow, BeginsReply
  <2>2. ~(Fetches(accepting) /\ BeginsReply) /\ ~BeginsReply
    BY <1>8 DEF BeginsReplyNow, BeginsReply, Idles, IDLE, REPLY
  <2>3. out_send_mode = REPLY /\ Fetches(accepting) => m = Begun
    BY <1>3, <1>4, <1>5, <2>2
  <2> QED BY <1>3, <1>4, <1>5, <1>6, <1>8, <2>1, <2>2, <2>3 DEF m
<1>9. CASE ~BeginsReplyNow(accepting)
  <2>1. /\ BeginsReply' => BeginsReply /\ ~Fetches(accepting)
        /\ BeginsReply => Fetches(accepting) \/ BeginsReply'
    <3>1. CASE BeginsRequestNow(accepting)
      BY <3>1 DEF BeginsRequestNow, BeginsReply, Idles, IDLE, REPLY, REQUEST
    <3>2. CASE RestsNow(accepting)
      BY <3>2 DEF RestsNow, BeginsReply, Idles, IDLE, REPLY
    <3>3. CASE GoesOn(accepting)
      BY <1>7, <3>3 DEF GoesOn, BeginsReply
    <3> QED BY <1>9, <3>1, <3>2, <3>3, SendChoices
  <2>2. Begun' = Begun
    BY <1>3, <1>4, <1>5, <1>6, <2>1
  <2>3. Fetches(accepting) => m = Begun
    BY <1>3, <1>4, <1>5
  <2>4. Begun \in Nat
    BY <1>3, <1>5
  <2> QED BY <1>9, <2>2, <2>3, <2>4 DEF m
<1> QED BY <1>8, <1>9

\* The registers of the addresses always hold those of the last query accepted.
LEMMA QueriesNext ==
    ASSUME InTypeOK, AddrTypeOK, SendTypeOK, Accounted, NEW accepting \in BOOLEAN, Invoke(accepting)
    PROVE  /\ AddrTypeOK'
           /\ AcceptsQuery => /\ queries' = Append(queries, [mac |-> recv_src_mac, ip |-> recv_src_ip])
                              /\ [mac |-> recv_src_mac, ip |-> recv_src_ip] \in Queries
           /\ ~AcceptsQuery => queries' = queries
           /\ queries' # <<>> =>
                /\ rpy_mac' = queries'[Len(queries')].mac
                /\ rpy_ip' = queries'[Len(queries')].ip
<1> DEFINE q == [mac |-> recv_src_mac, ip |-> recv_src_ip]
<1>1. q \in Queries /\ q.mac = recv_src_mac /\ q.ip = recv_src_ip
  BY ReceivedTypes DEF Queries
<1>2. /\ rpy_mac' = IF AcceptsQuery THEN recv_src_mac ELSE rpy_mac
      /\ rpy_ip' = IF AcceptsQuery THEN recv_src_ip ELSE rpy_ip
      /\ queries' = IF AcceptsQuery THEN Append(queries, q) ELSE queries
  BY DEF Invoke, Learn
<1>3. queries \in Seq(Queries) /\ rpy_mac \in Macs /\ rpy_ip \in Ips
  BY DEF AddrTypeOK
<1> HIDE DEF q
<1>4. CASE AcceptsQuery
  <2>1. Append(queries, q) \in Seq(Queries) /\ Append(queries, q)[Len(Append(queries, q))] = q
    BY <1>1, <1>3
  <2>2. rpy_mac' \in Macs /\ rpy_ip' \in Ips
    BY <1>2, <1>4, ReceivedTypes
  <2>3. queries' = Append(queries, q) /\ rpy_mac' = q.mac /\ rpy_ip' = q.ip
    BY <1>1, <1>2, <1>4
  <2> QED BY <1>1, <1>4, <2>1, <2>2, <2>3 DEF AddrTypeOK, q
<1>5. CASE ~AcceptsQuery
  <2>1. queries' = queries /\ rpy_mac' = rpy_mac /\ rpy_ip' = rpy_ip
    BY <1>2, <1>5
  <2> QED BY <1>3, <1>5, <2>1 DEF AddrTypeOK, Accounted
<1> QED BY <1>4, <1>5

\* An invocation leaves no accepted query without a reply, and takes what it
\* sends from the last one.
LEMMA AccountedKept ==
    ASSUME InTypeOK, SendInv, NEW accepting \in BOOLEAN, Invoke(accepting)
    PROVE  Accounted' /\ FromThisOrNext(Passed, queries)'
<1> USE DEF SendInv
<1>1. Transmit(accepting) /\ ChooseMode(accepting)
  BY DEF Invoke
<1>2. /\ Begun \in Nat
      /\ BeginsReplyNow(accepting) => Begun' = Begun + 1
      /\ ~BeginsReplyNow(accepting) => Begun' = Begun
      /\ Fetches(accepting) /\ out_send_mode = REPLY => RepliesIn(Passed') = Begun
  BY <1>1, BegunAfter
<1>3. queries \in Seq(Queries) /\ Len(queries) \in Nat
  BY DEF AddrTypeOK
<1>4. Len(queries') = Len(queries) + (IF AcceptsQuery THEN 1 ELSE 0)
  BY <1>3, QueriesNext
<1>5. AcceptsQuery => ~out_send_arp_rpy_stdby
  BY DEF AcceptsQuery
<1>6. /\ Len(queries) = Begun + (IF out_send_arp_rpy_stdby THEN 1 ELSE 0)
      /\ out_send_mode = REPLY => Begun # 0
      /\ queries # <<>> =>
           rpy_mac = queries[Len(queries)].mac /\ rpy_ip = queries[Len(queries)].ip
  BY DEF Accounted
<1>7. /\ Len(queries') = Begun' + (IF out_send_arp_rpy_stdby' THEN 1 ELSE 0)
      /\ out_send_mode' = REPLY => Begun' # 0
  <2>1. CASE BeginsReplyNow(accepting)
    BY <1>2, <1>4, <1>5, <1>6, <2>1 DEF BeginsReplyNow, RpyWaits
  <2>2. CASE BeginsRequestNow(accepting) \/ RestsNow(accepting)
    <3>1. ~BeginsReplyNow(accepting) /\ ~RpyWaits
      BY <2>2 DEF BeginsRequestNow, BeginsReplyNow, RestsNow
    <3>2. ~out_send_arp_rpy_stdby' /\ out_send_mode' # REPLY
      BY <2>2 DEF BeginsRequestNow, RestsNow, IDLE, REQUEST, REPLY
    <3> QED BY <1>2, <1>4, <1>6, <3>1, <3>2 DEF RpyWaits
  <2>3. CASE GoesOn(accepting)
    <3>1. ~BeginsReplyNow(accepting) /\ out_send_mode' = out_send_mode
      BY <2>3 DEF GoesOn, BeginsReplyNow
    <3>2. out_send_arp_rpy_stdby' <=> out_send_arp_rpy_stdby \/ AcceptsQuery
      BY <2>3 DEF GoesOn, RpyWaits
    <3> QED BY <1>2, <1>4, <1>5, <1>6, <3>1, <3>2
  <2> QED BY <1>1, <2>1, <2>2, <2>3, SendChoices
<1>8. Accounted'
  BY <1>7, QueriesNext DEF Accounted
<1>9. FromThisOrNext(Passed', queries)
  <2>1. Passed \in Seq(OutBeats)
    BY DEF OutTypeOK, Passed
  <2>2. CASE Fetches(accepting)
    <3>1. /\ Passed' = Passed \o <<SendBeat>>
          /\ SendBeat \in OutBeats /\ SendBeat.kind = out_send_mode /\ SendBeat.n = out_send_idx
      BY <1>1, <2>2, TransmitPassed, SendBeatType DEF Fetches
    <3>2. ASSUME out_send_mode = REPLY
          PROVE  /\ out_send_idx \in {0, 4} => SendBeat.mac = rpy_mac
                 /\ out_send_idx = 5 => SendBeat.ip = rpy_ip[2]
      <4>1. out_send_mode # REQUEST
        BY <3>2 DEF REPLY, REQUEST
      <4> DEFINE mac == IF out_send_idx \in {0, 4} THEN rpy_mac ELSE NoAddr
                 ip == CASE out_send_idx = 4 -> GTW_IP[1]
                         [] out_send_idx = 5 -> rpy_ip[2]
                         [] OTHER -> ""
      <4>2. SendBeat = [kind |-> out_send_mode, n |-> out_send_idx, mac |-> mac, ip |-> ip]
        BY <4>1 DEF SendBeat
      <4>3. SendBeat.mac = mac /\ SendBeat.ip = ip
        <5> HIDE DEF mac, ip
        <5> QED BY <4>2
      <4>4. out_send_idx \in {0, 4} => mac = rpy_mac
        OBVIOUS
      <4>5. out_send_idx = 5 => ip = rpy_ip[2]
        BY Z3
      <4> HIDE DEF mac, ip
      <4> QED BY <4>3, <4>4, <4>5
    <3>3. ASSUME out_send_mode = REPLY
          PROVE  /\ RepliesIn(Passed') # 0
                 /\ Len(queries) \in {RepliesIn(Passed'), RepliesIn(Passed') + 1}
                 /\ queries # <<>>
      <4>1. RepliesIn(Passed') = Begun /\ Begun # 0
        BY <1>2, <1>6, <2>2, <3>3
      <4>2. Len(queries) # 0 /\ Len(queries) \in {Begun, Begun + 1}
        BY <1>2, <1>6, <4>1
      <4> QED BY <1>3, <4>1, <4>2
    <3>4. SendBeat.kind = REPLY =>
             /\ RepliesIn(Passed \o <<SendBeat>>) # 0
             /\ Len(queries) \in {RepliesIn(Passed \o <<SendBeat>>), RepliesIn(Passed \o <<SendBeat>>) + 1}
             /\ SendBeat.n \in {0, 4} => SendBeat.mac = queries[Len(queries)].mac
             /\ SendBeat.n = 5 => SendBeat.ip = queries[Len(queries)].ip[2]
      BY <1>6, <3>1, <3>2, <3>3
    <3> QED BY <1>3, <2>1, <3>1, <3>4, OneBeatMore
  <2>3. CASE ~Fetches(accepting)
    BY <1>1, <2>3, TransmitPassed
  <2> QED BY <2>2, <2>3
<1>10. FromThisOrNext(Passed', queries')
  BY <1>3, <1>9, QueriesNext, MoreQueries
<1> QED BY <1>8, <1>10

\* The invariant of what is sent.
LEMMA SendInvInvariant == Spec => [](InTypeOK /\ SendInv)
<1>1. Init => InTypeOK /\ SendInv
  <2> SUFFICES ASSUME Init PROVE InTypeOK /\ SendInv
    OBVIOUS
  <2> USE DEF Init
  <2>1. InTypeOK
    BY DEF InTypeOK, Slot, StagedBeats
  <2>2. SendTypeOK
    <3>1. out_send_arp_rpy_stdby \in BOOLEAN /\ out_send_arp_req_stdby \in BOOLEAN
      BY Zenon
    <3> QED BY <3>1 DEF SendTypeOK, IDLE, REPLY, REQUEST
  <2>8. OutTypeOK
    <3>1. <<>> \in Seq(OutBeats) /\ Len(<<>>) <= 1
      OBVIOUS
    <3> QED BY <3>1 DEF OutTypeOK
  <2>3. AddrTypeOK
    BY DEF AddrTypeOK, Macs, Ips
  <2>4. Passed = <<>>
    BY DEF Passed
  <2>5. Framing
    BY <2>4 DEF Framing, WholeFrames, StandsAt
  <2>6. FromThisOrNext(Passed, queries)
    BY <2>4 DEF FromThisOrNext
  <2>7. Accounted
    <3>1. ReplyNo(<<>>, 0) = 0
      <4>1. {j \in 1..0 : <<>>[j].kind = REPLY /\ <<>>[j].n = 0} = {}
        OBVIOUS
      <4> QED BY <4>1, FS_EmptySet DEF ReplyNo
    <3>2. Begun = 0
      BY <2>4, <3>1 DEF Begun, RepliesIn, BeginsReply, IDLE, REPLY
    <3> QED BY <3>2 DEF Accounted, IDLE, REPLY
  <2> QED BY <2>1, <2>2, <2>3, <2>5, <2>6, <2>7, <2>8 DEF SendInv
<1>2. ASSUME InTypeOK, SendInv, [Next]_vars PROVE (InTypeOK /\ SendInv)'
  <2>1. InTypeOK'
    <3>1. CASE \E b \in NextBeats(sent) : Supply(b)
      <4>1. PICK b \in NextBeats(sent) : Supply(b)
        BY <3>1
      <4>2. b \in Beats
        BY <1>2, NextBeatsAreBeats DEF InTypeOK
      <4> QED BY <1>2, <4>1, <4>2 DEF Supply, InTypeOK
    <3>2. CASE \E accepting \in BOOLEAN : Invoke(accepting)
      <4>1. Shift /\ sent' = sent
        BY <3>2 DEF Invoke
      <4>2. ch_in # <<>> => ch_in[1] \in Beats /\ Tail(ch_in) \in Seq(Beats)
        BY <1>2 DEF InTypeOK
      <4>3. FirstOf(ch_in) \in Slot
        BY <4>2 DEF FirstOf, Slot
      <4>4. in_stage0 # <<>> => in_stage0[1] \in StagedBeats
        BY <1>2, SlotFacts DEF InTypeOK, StagedBeats
      <4>5. in_stage' \in [1..5 -> StagedBeats]
        <5>1. CASE in_stage0 # <<>>
          <6>1. in_stage' = [i \in 1..5 |-> IF i = 1 THEN in_stage0[1] ELSE in_stage[i - 1]]
            BY <4>1, <5>1 DEF Shift
          <6>2. \A i \in 1..5 : (IF i = 1 THEN in_stage0[1] ELSE in_stage[i - 1]) \in StagedBeats
            <7> TAKE i \in 1..5
            <7>1. i # 1 => i - 1 \in 1..5
              OBVIOUS
            <7> QED BY <1>2, <4>4, <5>1, <7>1 DEF InTypeOK
          <6> QED BY <6>1, <6>2
        <5>2. CASE in_stage0 = <<>>
          BY <1>2, <4>1, <5>2 DEF Shift, InTypeOK
        <5> QED BY <5>1, <5>2
      <4> QED BY <1>2, <4>1, <4>2, <4>3, <4>5 DEF Shift, InTypeOK
    <3>3. CASE UNCHANGED <<inVars, outVars, addrVars, sent, out, queries, age>>
      BY <1>2, <3>3 DEF inVars, InTypeOK
    <3> QED BY <1>2, <3>1, <3>2, <3>3, Steps
  <2>2. SendInv'
    <3>1. CASE UNCHANGED <<outVars, addrVars, out, queries>>
      <4>1. Passed' = Passed /\ Begun' = Begun
        BY <3>1 DEF Passed, Begun, BeginsReply, outVars
      <4> QED BY <1>2, <3>1, <4>1 DEF SendInv, SendTypeOK, OutTypeOK, AddrTypeOK, Framing, Accounted,
                                      outVars, addrVars
    <3>2. CASE \E accepting \in BOOLEAN : Invoke(accepting)
      <4>1. PICK accepting \in BOOLEAN : Invoke(accepting)
        BY <3>2
      <4>2. Transmit(accepting) /\ ChooseMode(accepting)
        BY <4>1 DEF Invoke
      <4>3. OutTypeOK'
        BY <1>2, <4>2, TransmitPassed DEF SendInv
      <4>4. SendTypeOK' /\ Framing'
        BY <1>2, <4>2, FramingKept DEF SendInv
      <4>5. AddrTypeOK'
        BY <1>2, <4>1, QueriesNext DEF SendInv
      <4>6. Accounted' /\ FromThisOrNext(Passed, queries)'
        BY <1>2, <4>1, AccountedKept
      <4> QED BY <4>3, <4>4, <4>5, <4>6 DEF SendInv
    <3>3. CASE \E b \in NextBeats(sent) : Supply(b)
      BY <3>1, <3>3 DEF Supply
    <3> QED BY <1>2, <3>1, <3>2, <3>3, Steps
  <2> QED BY <2>1, <2>2
<1> QED BY <1>1, <1>2, PTL DEF Spec

\* What the receiver has accepted is the first part of what has passed.
LEMMA AcceptedPassed ==
    ASSUME OutTypeOK
    PROVE  /\ Len(out) \in Nat /\ Len(Passed) \in Nat /\ Len(out) <= Len(Passed)
           /\ \A i \in 1..Len(out) : Passed[i] = out[i] /\ ReplyNo(Passed, i) = ReplyNo(out, i)
           /\ out # <<>> => 1 \in 1..Len(out) /\ Passed # <<>>
<1>1. out \in Seq(OutBeats) /\ out_stage \in Seq(OutBeats)
  BY DEF OutTypeOK
<1> DEFINE s == out \o out_stage
<1>2. Len(s) = Len(out) + Len(out_stage) /\ Len(out) \in Nat /\ Len(out_stage) \in Nat
  BY <1>1
<1>3. \A i \in 1..Len(out) : s[i] = out[i]
  BY <1>1
<1>4. out # <<>> => Len(out) # 0
  BY <1>1
<1>5. s = <<>> => Len(s) = 0
  OBVIOUS
<1> HIDE DEF s
<1>6. \A i \in 1..Len(out) : ReplyNo(s, i) = ReplyNo(out, i)
  <2> TAKE i \in 1..Len(out)
  <2>1. i \in Nat /\ \A j \in 1..i : s[j] = out[j]
    BY <1>2, <1>3
  <2> QED BY <2>1, ReplyNoSame
<1>7. Len(s) \in Nat /\ Len(out) <= Len(s)
  BY <1>2
<1>8. out # <<>> => 1 \in 1..Len(out) /\ s # <<>>
  BY <1>2, <1>4, <1>5
<1> QED BY <1>2, <1>3, <1>6, <1>7, <1>8 DEF Passed, s

\* What leaves is a sequence of whole frames, however the output stalls and
\* whatever is received meanwhile.
THEOREM SendsWholeFrames == Spec => []OutFramed
<1>1. OutTypeOK /\ Framing => OutFramed
  <2> SUFFICES ASSUME OutTypeOK, Framing PROVE OutFramed
    OBVIOUS
  <2>1. WholeFrames(Passed)
    BY DEF Framing
  <2>2. out # <<>> => out[1].n = 0
    BY <2>1, AcceptedPassed DEF WholeFrames
  <2>3. ASSUME NEW i \in 1..Len(out) - 1
        PROVE  IF out[i].n = 5 THEN out[i + 1].n = 0
               ELSE out[i + 1].n = out[i].n + 1 /\ out[i + 1].kind = out[i].kind
    <3>1. i \in 1..Len(out) /\ i + 1 \in 1..Len(out) /\ i \in 1..Len(Passed) - 1
      BY AcceptedPassed
    <3>2. Passed[i] = out[i] /\ Passed[i + 1] = out[i + 1]
      BY <3>1, AcceptedPassed
    <3> QED BY <2>1, <3>1, <3>2 DEF WholeFrames
  <2> QED BY <2>2, <2>3 DEF OutFramed
<1> QED BY <1>1, SendInvInvariant, PTL DEF SendInv

\* Every reply is for an accepted query, and the addresses in it are those of
\* that query or of the one accepted next.
THEOREM RepliesAnswerThisOrNext == Spec => []ReplyFromThisOrNextQuery
<1>1. OutTypeOK /\ FromThisOrNext(Passed, queries) => ReplyFromThisOrNextQuery
  <2> SUFFICES ASSUME OutTypeOK, FromThisOrNext(Passed, queries) PROVE ReplyFromThisOrNextQuery
    OBVIOUS
  <2> SUFFICES ASSUME NEW i \in 1..Len(out), out[i].kind = REPLY
               PROVE  LET k == ReplyNo(out, i)
                          asked == {queries[j] : j \in {k, k + 1} \cap 1..Len(queries)}
                      IN  /\ k <= Len(queries)
                          /\ out[i].n \in {0, 4} => out[i].mac \in {q.mac : q \in asked}
                          /\ out[i].n = 5 => out[i].ip \in {q.ip[2] : q \in asked}
    BY DEF ReplyFromThisOrNextQuery
  <2>1. i \in 1..Len(Passed) /\ Passed[i] = out[i] /\ ReplyNo(Passed, i) = ReplyNo(out, i)
    BY AcceptedPassed
  <2> QED BY <2>1 DEF FromThisOrNext
<1> QED BY <1>1, SendInvInvariant, PTL DEF SendInv

-----------------------------------------------------------------------------
(* What is received.                                                       *)

\* The first six beats of a frame follow each other on a framed stream.
LEMMA SixBeats ==
    ASSUME NEW s \in Seq(Beats), Framed(s), NEW i \in Nat, i >= 1, i + 5 <= Len(s), Sop(s[i])
    PROVE  \A k \in 0..5 : s[i + k].pkt = s[i].pkt /\ s[i + k].n = k + 1
<1> DEFINE p == s[i].pkt
           Is(k) == s[i + k].pkt = p /\ s[i + k].n = k + 1
<1>1. Len(s) \in Nat /\ s[i] \in Beats
  OBVIOUS
<1>2. p.beats \in Nat /\ p.beats >= 6
  BY <1>1, BeatFacts, FrameAssumption
<1>3. Is(0)
  BY DEF Sop
<1>4. ASSUME NEW k \in 0..4, Is(k) PROVE Is(k + 1)
  <2>1. i + k \in 1..Len(s) - 1 /\ (i + k) + 1 = i + (k + 1)
    BY <1>1
  <2>2. Follows(s[i + k], s[i + (k + 1)])
    BY <2>1 DEF Framed, Contiguous
  <2>3. ~Eop(s[i + k])
    BY <1>2, <1>4 DEF Eop
  <2> QED BY <1>4, <2>2, <2>3 DEF Follows
<1> HIDE DEF Is
<1>5. Is(1) /\ Is(2) /\ Is(3)
  <2>1. Is(1)
    BY <1>3, <1>4
  <2>2. Is(2)
    BY <1>4, <2>1
  <2> QED BY <1>4, <2>1, <2>2
<1>6. Is(4) /\ Is(5)
  <2>1. Is(4)
    BY <1>4, <1>5
  <2> QED BY <1>4, <2>1
<1>7. \A k \in 0..5 : k = 0 \/ k = 1 \/ k = 2 \/ k = 3 \/ k = 4 \/ k = 5
  OBVIOUS
<1> QED BY <1>3, <1>5, <1>6, <1>7 DEF Is

\* When a frame is dispatched, the registers hold its first six beats.
LEMMA DispatchesOneFrame ==
    ASSUME InTypeOK, Window, Dispatches
    PROVE  \E p \in Packets :
             /\ Announced(sent, p)
             /\ recv_arp_op = p.op
             /\ recv_src_mac = p.smac /\ recv_src_ip = p.sip /\ recv_dst_ip = p.dip
<1> DEFINE i == Shifted - 4
           p == sent[i].pkt
<1>1. /\ sent \in Seq(Beats) /\ Len(sent) \in Nat
      /\ Len(ch_in) \in Nat /\ Len(in_stage0) = 1 /\ in_stage0 # <<>> /\ Sop(in_stage[5])
  <2>1. in_stage0 # <<>> /\ in_stage0 \in Slot
    BY DEF Dispatches, InTypeOK
  <2>2. Len(in_stage0) = 1
    BY <2>1, SlotFacts
  <2> QED BY <2>1, <2>2 DEF Dispatches, InTypeOK
<1>2. Shifted \in Nat /\ Shifted + 1 <= Len(sent)
  BY <1>1 DEF Window, Shifted
<1>3. ~Sop(BlankBeat)
  BY DEF Sop, BlankBeat
<1>4. i \in Nat /\ i >= 1 /\ in_stage[5] = sent[i]
  <2>1. in_stage[5] = IF Shifted + 1 - 5 >= 1 THEN sent[Shifted + 1 - 5] ELSE BlankBeat
    BY DEF Window
  <2>2. Shifted + 1 - 5 = i /\ i \in Int
    BY <1>2
  <2> HIDE DEF i
  <2>3. i >= 1 /\ in_stage[5] = sent[i]
    BY <1>1, <1>3, <2>1, <2>2
  <2> QED BY <2>2, <2>3
<1>5. /\ in_stage[3] = sent[i + 2] /\ in_stage[2] = sent[i + 3]
      /\ in_stage[1] = sent[i + 4] /\ in_stage0[1] = sent[i + 5]
  <2>1. /\ in_stage[3] = IF Shifted + 1 - 3 >= 1 THEN sent[Shifted + 1 - 3] ELSE BlankBeat
        /\ in_stage[2] = IF Shifted + 1 - 2 >= 1 THEN sent[Shifted + 1 - 2] ELSE BlankBeat
        /\ in_stage[1] = IF Shifted + 1 - 1 >= 1 THEN sent[Shifted + 1 - 1] ELSE BlankBeat
        /\ in_stage0[1] = sent[Shifted + 1]
    BY <1>1 DEF Window
  <2>2. /\ Shifted + 1 - 3 = i + 2 /\ Shifted + 1 - 2 = i + 3
        /\ Shifted + 1 - 1 = i + 4 /\ Shifted + 1 = i + 5
    BY <1>2
  <2>3. i + 2 >= 1 /\ i + 3 >= 1 /\ i + 4 >= 1
    BY <1>4
  <2> HIDE DEF i
  <2> QED BY <2>1, <2>2, <2>3
<1>6. i \in 1..Len(sent) /\ i + 5 <= Len(sent) /\ sent[i] \in Beats /\ Framed(sent)
  <2>1. i + 5 = Shifted + 1
    BY <1>2
  <2> HIDE DEF i
  <2>2. i \in 1..Len(sent) /\ i + 5 <= Len(sent)
    BY <1>1, <1>2, <1>4, <2>1
  <2> QED BY <1>1, <2>2 DEF Window
<1> HIDE DEF i
<1>7. \A k \in 0..5 : sent[i + k].pkt = p /\ sent[i + k].n = k + 1
  BY <1>1, <1>4, <1>6, SixBeats
<1>8. p \in Packets /\ Announced(sent, p)
  BY <1>6, BeatFacts DEF Announced
<1>9. /\ sent[i + 2].pkt = p /\ sent[i + 2].n = 3
      /\ sent[i + 3].pkt = p /\ sent[i + 3].n = 4
      /\ sent[i + 4].pkt = p /\ sent[i + 4].n = 5
      /\ sent[i + 5].pkt = p /\ sent[i + 5].n = 6
  BY <1>7
<1> HIDE DEF p
<1>10. recv_arp_op = p.op /\ recv_src_ip = p.sip
  BY <1>5, <1>9 DEF recv_arp_op, recv_src_ip, Field
<1>11. recv_src_mac = <<p.smac[1], p.smac[2]>> /\ recv_dst_ip = <<p.dip[1], p.dip[2]>>
  BY <1>5, <1>9 DEF recv_src_mac, recv_dst_ip, Half, Field
<1>12. recv_src_mac = p.smac /\ recv_dst_ip = p.dip
  BY <1>8, <1>11, FrameAssumption
<1> QED BY <1>8, <1>10, <1>12

\* A beat received is added behind what the registers hold.
LEMMA WindowReceives ==
    ASSUME InTypeOK, Window, NEW b \in NextBeats(sent), Supply(b)
    PROVE  Window'
<1>1. b \in Beats
  BY NextBeatsAreBeats DEF InTypeOK
<1> DEFINE n == Len(sent)
           c == Len(ch_in)
           z == Len(in_stage0)
<1>2. /\ n \in Nat /\ c \in Nat /\ z \in Nat /\ sent \in Seq(Beats)
      /\ in_stage0 # <<>> => z = 1
  BY SlotFacts DEF InTypeOK
<1>3. /\ sent' = Append(sent, b) /\ ch_in' = Append(ch_in, b)
      /\ in_stage0' = in_stage0 /\ in_stage' = in_stage
  BY DEF Supply
<1>4. /\ Len(sent') = n + 1 /\ Len(ch_in') = c + 1
      /\ \A i \in 1..n : sent'[i] = sent[i]
      /\ \A i \in 1..c : ch_in'[i] = ch_in[i]
      /\ sent'[n + 1] = b /\ ch_in'[c + 1] = b
  BY <1>1, <1>3 DEF InTypeOK
<1>5. Shifted = n - c - z /\ Len(in_stage0') = z
  BY <1>3 DEF Shifted
<1>6. Shifted' = Len(sent') - Len(ch_in') - Len(in_stage0')
  BY DEF Shifted
<1> HIDE DEF n, c, z
<1>7. Shifted' = Shifted /\ Shifted \in Nat
  BY <1>2, <1>4, <1>5, <1>6 DEF Window
<1>8. Framed(sent')
  BY <1>3, AppendFramed DEF Window, InTypeOK
<1>9. ASSUME NEW i \in 1..5
      PROVE  in_stage'[i] = IF Shifted' + 1 - i >= 1 THEN sent'[Shifted' + 1 - i] ELSE BlankBeat
  <2>1. Shifted + 1 - i >= 1 => Shifted + 1 - i \in 1..n
    BY <1>2, <1>5, <1>7
  <2> QED BY <1>3, <1>4, <1>7, <2>1 DEF Window
<1>10. in_stage0' # <<>> => in_stage0'[1] = sent'[Shifted' + 1]
  <2>1. in_stage0 # <<>> => Shifted + 1 \in 1..n
    BY <1>2, <1>5, <1>7
  <2> QED BY <1>3, <1>4, <1>7, <2>1 DEF Window
<1>11. ASSUME NEW j \in 1..Len(ch_in')
       PROVE  ch_in'[j] = sent'[Shifted' + Len(in_stage0') + j]
  <2>1. CASE j \in 1..c
    <3>1. Shifted + z + j \in 1..n
      BY <1>2, <1>5, <1>7, <2>1
    <3>2. ch_in[j] = sent[Shifted + z + j]
      BY <2>1 DEF Window, c, z
    <3> QED BY <1>4, <1>5, <1>7, <2>1, <3>1, <3>2
  <2>2. CASE j = c + 1
    <3>1. Shifted + z + j = n + 1
      BY <1>2, <1>5, <1>7, <2>2
    <3> QED BY <1>4, <1>5, <1>7, <2>2, <3>1
  <2> QED BY <1>2, <1>4, <2>1, <2>2
<1> QED BY <1>7, <1>8, <1>9, <1>10, <1>11 DEF Window

\* A shift moves the window by the beat that was in in_stage0, if there was one.
LEMMA WindowShifts ==
    ASSUME InTypeOK, Window, Shift, sent' = sent
    PROVE  Window'
<1> DEFINE n == Len(sent)
           c == Len(ch_in)
           z == Len(in_stage0)
           y == Len(in_stage0')
<1>1. /\ n \in Nat /\ c \in Nat /\ sent \in Seq(Beats) /\ ch_in \in Seq(Beats)
      /\ in_stage0 # <<>> => z = 1
      /\ in_stage0 = <<>> => z = 0
  BY SlotFacts DEF InTypeOK
<1>2. /\ in_stage' = IF in_stage0 # <<>>
                     THEN [i \in 1..5 |-> IF i = 1 THEN in_stage0[1] ELSE in_stage[i - 1]]
                     ELSE in_stage
      /\ ch_in # <<>> => in_stage0' = <<ch_in[1]>> /\ ch_in' = Tail(ch_in)
      /\ ch_in = <<>> => in_stage0' = <<>> /\ ch_in' = ch_in
  BY DEF Shift, FirstOf
<1>0. \A t \in Seq(Beats) : t # <<>> =>
        /\ Len(<<t[1]>>) = 1 /\ <<t[1]>>[1] = t[1] /\ Len(t) # 0
        /\ Len(Tail(t)) = Len(t) - 1 /\ \A j \in 1..Len(t) - 1 : Tail(t)[j] = t[j + 1]
  OBVIOUS
<1>3. ch_in # <<>> => /\ y = 1 /\ in_stage0'[1] = ch_in[1] /\ c # 0
                      /\ Len(ch_in') = c - 1 /\ \A j \in 1..c - 1 : ch_in'[j] = ch_in[j + 1]
  <2> SUFFICES ASSUME ch_in # <<>>
               PROVE  /\ y = 1 /\ in_stage0'[1] = ch_in[1] /\ c # 0
                      /\ Len(ch_in') = c - 1 /\ \A j \in 1..c - 1 : ch_in'[j] = ch_in[j + 1]
    OBVIOUS
  <2>1. in_stage0' = <<ch_in[1]>> /\ ch_in' = Tail(ch_in)
    BY <1>2
  <2>2. /\ Len(<<ch_in[1]>>) = 1 /\ <<ch_in[1]>>[1] = ch_in[1] /\ Len(ch_in) # 0
        /\ Len(Tail(ch_in)) = Len(ch_in) - 1
        /\ \A j \in 1..Len(ch_in) - 1 : Tail(ch_in)[j] = ch_in[j + 1]
    BY <1>0, <1>1
  <2> QED BY ONLY <2>1, <2>2 DEF c, y
<1>4. ch_in = <<>> => y = 0 /\ Len(ch_in') = 0 /\ c = 0
  <2> SUFFICES ASSUME ch_in = <<>> PROVE y = 0 /\ Len(ch_in') = 0 /\ c = 0
    OBVIOUS
  <2>1. in_stage0' = <<>> /\ ch_in' = <<>>
    BY <1>2
  <2> QED BY ONLY ch_in = <<>>, <2>1 DEF c, y
<1>5. Shifted = n - c - z /\ Shifted \in Nat
  BY <1>1 DEF Shifted, Window
<1>6. Shifted' = n - Len(ch_in') - y
  BY DEF Shifted
<1>7. \A j \in 1..c : ch_in[j] = sent[Shifted + z + j]
  BY DEF Window
<1>8. in_stage0 # <<>> => in_stage0[1] = sent[Shifted + 1]
  BY DEF Window
<1> HIDE DEF n, c, z, y
<1>9. Shifted' = Shifted + z /\ Shifted' \in Nat
  BY <1>1, <1>3, <1>4, <1>5, <1>6
<1>10. ASSUME NEW i \in 1..5
       PROVE  in_stage'[i] = IF Shifted' + 1 - i >= 1 THEN sent[Shifted' + 1 - i] ELSE BlankBeat
  <2>1. CASE in_stage0 = <<>>
    <3>1. z = 0
      BY <1>1, <2>1
    <3>2. Shifted' = Shifted
      BY <1>5, <1>9, <3>1
    <3>3. in_stage'[i] = in_stage[i]
      BY <1>2, <2>1
    <3>4. in_stage[i] = IF Shifted + 1 - i >= 1 THEN sent[Shifted + 1 - i] ELSE BlankBeat
      BY DEF Window
    <3> QED BY <3>2, <3>3, <3>4
  <2>2. CASE in_stage0 # <<>> /\ i = 1
    <3>1. in_stage'[i] = in_stage0[1]
      BY <1>2, <2>2
    <3>2. Shifted' + 1 - i = Shifted + 1 /\ Shifted + 1 >= 1
      BY <1>1, <1>5, <1>9, <2>2
    <3> QED BY <1>8, <2>2, <3>1, <3>2
  <2>3. CASE in_stage0 # <<>> /\ i # 1
    <3>1. i - 1 \in 1..5 /\ in_stage'[i] = in_stage[i - 1]
      BY <1>2, <2>3
    <3>2. in_stage[i - 1] = IF Shifted + 1 - (i - 1) >= 1 THEN sent[Shifted + 1 - (i - 1)] ELSE BlankBeat
      BY <3>1 DEF Window
    <3>3. Shifted' + 1 - i = Shifted + 1 - (i - 1)
      BY <1>1, <1>5, <1>9, <2>3
    <3> QED BY <3>1, <3>2, <3>3
  <2> QED BY <2>1, <2>2, <2>3
<1>11. in_stage0' # <<>> => in_stage0'[1] = sent[Shifted' + 1]
  <2> SUFFICES ASSUME in_stage0' # <<>> PROVE in_stage0'[1] = sent[Shifted' + 1]
    OBVIOUS
  <2>1. ch_in # <<>> /\ 1 \in 1..c
    BY <1>1, <1>2, <1>3
  <2>2. ch_in[1] = sent[Shifted + z + 1]
    BY <1>7, <2>1
  <2> QED BY <1>3, <1>9, <2>1, <2>2
<1>12. ASSUME NEW j \in 1..Len(ch_in')
       PROVE  ch_in'[j] = sent[Shifted' + y + j]
  <2>1. ch_in # <<>> /\ j \in 1..c - 1 /\ j + 1 \in 1..c
    BY <1>1, <1>3, <1>4
  <2>2. ch_in'[j] = sent[Shifted + z + (j + 1)]
    BY <1>3, <1>7, <2>1
  <2>3. Shifted' + y + j = Shifted' + (j + 1)
    BY <1>3, <1>9, <2>1
  <2> QED BY <1>9, <2>2, <2>3
<1>13. Framed(sent')
  BY DEF Window
<1> QED BY <1>9, <1>10, <1>11, <1>12, <1>13 DEF Window, y

\* Frames announced stay announced when more is received.
LEMMA DecidedOnMore ==
    ASSUME NEW s \in Seq(Beats), NEW b \in Beats, NEW qs, NEW gtw, DecidedOn(s, qs, gtw)
    PROVE  DecidedOn(Append(s, b), qs, gtw)
<1>1. \A p \in Packets : Announced(s, p) => Announced(Append(s, b), p)
  <2>1. \A i \in 1..Len(s) : i \in 1..Len(Append(s, b)) /\ Append(s, b)[i] = s[i]
    OBVIOUS
  <2> QED BY <2>1 DEF Announced
<1>2. \A k \in 1..Len(qs) :
         \E p \in Packets : /\ Announced(Append(s, b), p) /\ p.op = "REQ" /\ p.dip = OWN_IP
                            /\ qs[k] = [mac |-> p.smac, ip |-> p.sip]
  BY <1>1 DEF DecidedOn
<1>3. gtw # NoAddr => \E p \in Packets : Announced(Append(s, b), p) /\ p.sip = GTW_IP /\ p.smac = gtw
  BY <1>1 DEF DecidedOn
<1> QED BY <1>2, <1>3 DEF DecidedOn

\* An invocation decides on the frame that the registers hold.
LEMMA DecidedOnKept ==
    ASSUME DecideInv, SendInv, NEW accepting \in BOOLEAN, Invoke(accepting)
    PROVE  DecidedOn(sent, queries', gtw_mac')
<1>1. queries \in Seq(Queries) /\ Len(queries) \in Nat
  BY DEF SendInv, AddrTypeOK
<1>2. DecidedOn(sent, queries, gtw_mac)
  BY DEF DecideInv
<1>3. Dispatches => \E p \in Packets :
             /\ Announced(sent, p)
             /\ recv_arp_op = p.op
             /\ recv_src_mac = p.smac /\ recv_src_ip = p.sip /\ recv_dst_ip = p.dip
  BY DispatchesOneFrame DEF DecideInv
<1>4. \A k \in 1..Len(queries') :
         \E p \in Packets : /\ Announced(sent, p) /\ p.op = "REQ" /\ p.dip = OWN_IP
                            /\ queries'[k] = [mac |-> p.smac, ip |-> p.sip]
  <2>1. CASE AcceptsQuery
    <3> DEFINE q == [mac |-> recv_src_mac, ip |-> recv_src_ip]
    <3>1. queries' = Append(queries, q) /\ q \in Queries
      BY <2>1, QueriesNext DEF DecideInv, SendInv
    <3>2. PICK p \in Packets : /\ Announced(sent, p) /\ p.op = "REQ" /\ p.dip = OWN_IP
                               /\ q = [mac |-> p.smac, ip |-> p.sip]
      BY <1>3, <2>1 DEF AcceptsQuery
    <3> HIDE DEF q
    <3>3. /\ Len(queries') = Len(queries) + 1 /\ queries'[Len(queries) + 1] = q
          /\ \A k \in 1..Len(queries) : queries'[k] = queries[k]
      BY <1>1, <3>1
    <3> TAKE k \in 1..Len(queries')
    <3>4. CASE k \in 1..Len(queries)
      BY <1>2, <3>3, <3>4 DEF DecidedOn
    <3>5. CASE k = Len(queries) + 1
      BY <3>2, <3>3, <3>5
    <3> QED BY <1>1, <3>3, <3>4, <3>5
  <2>2. CASE ~AcceptsQuery
    BY <1>2, <2>2, QueriesNext DEF DecideInv, SendInv, DecidedOn
  <2> QED BY <2>1, <2>2
<1>5. gtw_mac' # NoAddr => \E p \in Packets : Announced(sent, p) /\ p.sip = GTW_IP /\ p.smac = gtw_mac'
  <2>1. gtw_mac' = IF UpdatesCache THEN recv_src_mac ELSE gtw_mac
    BY DEF Invoke, Learn
  <2>2. CASE UpdatesCache
    BY <1>3, <2>1, <2>2 DEF UpdatesCache
  <2>3. CASE ~UpdatesCache
    BY <1>2, <2>1, <2>3 DEF DecidedOn
  <2> QED BY <2>2, <2>3
<1> QED BY <1>4, <1>5 DEF DecidedOn

\* The registers always hold consecutive beats, and every decision was taken on
\* a frame that was received.
LEMMA DecideInvInvariant == Spec => []DecideInv
<1>1. Init => DecideInv
  <2> SUFFICES ASSUME Init PROVE DecideInv
    OBVIOUS
  <2> USE DEF Init
  <2>1. InTypeOK
    BY DEF InTypeOK, Slot, StagedBeats
  <2>2. AddrTypeOK
    BY DEF AddrTypeOK, Macs, Ips
  <2>3. Shifted = 0
    <3>1. Len(sent) = 0 /\ Len(ch_in) = 0 /\ Len(in_stage0) = 0
      OBVIOUS
    <3> HIDE DEF Init
    <3> QED BY <3>1 DEF Shifted
  <2>4. Framed(sent)
    BY DEF Framed, Contiguous
  <2>5. Window
    <3>1. \A i \in 1..5 : ~(0 + 1 - i >= 1)
      OBVIOUS
    <3> QED BY <2>3, <2>4, <3>1 DEF Window
  <2>6. DecidedOn(sent, queries, gtw_mac)
    BY DEF DecidedOn
  <2> QED BY <2>1, <2>2, <2>5, <2>6 DEF DecideInv
<1>2. ASSUME DecideInv, SendInv, InTypeOK', SendInv', [Next]_vars PROVE DecideInv'
  <2>1. InTypeOK' /\ AddrTypeOK'
    BY <1>2 DEF SendInv
  <2>2. CASE \E b \in NextBeats(sent) : Supply(b)
    <3>1. PICK b \in NextBeats(sent) : Supply(b)
      BY <2>2
    <3>2. Window'
      BY <1>2, <3>1, WindowReceives DEF DecideInv
    <3>3. b \in Beats /\ sent \in Seq(Beats)
      BY <1>2, NextBeatsAreBeats DEF DecideInv, InTypeOK
    <3>4. DecidedOn(Append(sent, b), queries, gtw_mac)
      BY <1>2, <3>3, DecidedOnMore DEF DecideInv
    <3>5. sent' = Append(sent, b) /\ queries' = queries /\ gtw_mac' = gtw_mac
      BY <3>1 DEF Supply, addrVars
    <3> QED BY <2>1, <3>2, <3>4, <3>5 DEF DecideInv
  <2>3. CASE \E accepting \in BOOLEAN : Invoke(accepting)
    <3>1. PICK accepting \in BOOLEAN : Invoke(accepting)
      BY <2>3
    <3>2. Shift /\ sent' = sent
      BY <3>1 DEF Invoke
    <3>3. Window'
      BY <1>2, <3>2, WindowShifts DEF DecideInv
    <3>4. DecidedOn(sent, queries', gtw_mac')
      BY <1>2, <3>1, DecidedOnKept
    <3> QED BY <2>1, <3>2, <3>3, <3>4 DEF DecideInv
  <2>4. CASE UNCHANGED <<inVars, outVars, addrVars, sent, out, queries, age>>
    <3>1. UNCHANGED <<ch_in, in_stage0, in_stage, sent, queries, gtw_mac>>
      BY <2>4 DEF inVars, addrVars
    <3>2. Shifted' = Shifted
      BY <3>1 DEF Shifted
    <3>3. Window'
      BY <1>2, <3>1, <3>2 DEF DecideInv, Window
    <3> QED BY <1>2, <2>1, <3>1, <3>3 DEF DecideInv
  <2> QED BY <1>2, <2>2, <2>3, <2>4, Steps
<1> QED BY <1>1, <1>2, SendInvInvariant, PTL DEF Spec

\* The six beats a decision is taken on belong to one frame: whatever frames
\* follow each other, with or without gaps, and whatever their payload looks
\* like.
THEOREM DecidesOnOneFrame == Spec => []DecisionsFromOneFrame
<1>1. DecideInv => DecisionsFromOneFrame
  <2> SUFFICES ASSUME DecideInv PROVE DecisionsFromOneFrame
    OBVIOUS
  <2> DEFINE received == {sent[i].pkt : i \in 1..Len(sent)}
  <2>1. \A p : Announced(sent, p) => p \in received
    BY DEF Announced
  <2>2. DecidedOn(sent, queries, gtw_mac)
    BY DEF DecideInv
  <2> HIDE DEF received
  <2>3. \A k \in 1..Len(queries) :
             \E p \in received : /\ p.op = "REQ" /\ p.dip = OWN_IP
                                 /\ queries[k] = [mac |-> p.smac, ip |-> p.sip]
    BY <2>1, <2>2 DEF DecidedOn
  <2>4. gtw_mac # NoAddr => \E p \in received : p.sip = GTW_IP /\ p.smac = gtw_mac
    BY <2>1, <2>2 DEF DecidedOn
  <2> QED BY <2>3, <2>4 DEF DecisionsFromOneFrame, received
<1> QED BY <1>1, DecideInvInvariant, PTL

=============================================================================
