------------------------------- MODULE ArpProc -------------------------------
(***************************************************************************)
(* arp_proc (arp_proc.cpp): answers ARP queries for the device's address,  *)
(* learns the gateway's MAC address and asks for it when the cache entry   *)
(* has expired.  One invocation per clock is one step: write the output    *)
(* register, fetch the next beat of the frame being sent, count the pulse, *)
(* dispatch the received frame, shift, choose what to send next, read.     *)
(*                                                                         *)
(* A packet has the fields beats, op (the low byte of the ARP operation),  *)
(* smac, sip and dip.  A MAC or IP address is a pair of halves, because    *)
(* smac and dip straddle two beats.  Its field noise has the same fields:  *)
(* what stands at the place of a field in the beats that do not carry it,  *)
(* which may look like a query.                                            *)
(***************************************************************************)
EXTENDS L8Stream

CONSTANTS
    OWN_IP, GTW_IP,
    ARP_CACHE_LIFETIME,
    MaxPps      \* bound: pulses on ch_pps_in

ASSUME AddressAssumption == OWN_IP # GTW_IP
ASSUME LifetimeAssumption == ARP_CACHE_LIFETIME \in Nat \ {0} /\ MaxPps \in Nat

\* An Ethernet frame has 60 bytes at least, so that its first six beats are
\* there; an address has two halves.
ASSUME FrameAssumption ==
    /\ \A p \in Packets : p.beats >= 6
    /\ \A p \in Packets : p.smac = <<p.smac[1], p.smac[2]>> /\ p.dip = <<p.dip[1], p.dip[2]>>

VARIABLES
    ch_in, ch_pps_in,
    in_stage0,      \* in_stage0 and in_stage0_en
    in_stage,       \* in_stage1 .. in_stage5, which always hold something
    out_stage, out_send_idx, out_send_mode,
    out_send_arp_rpy_stdby, out_send_arp_req_stdby,
    rpy_mac, rpy_ip, gtw_mac,
    arp_cache_invalidate_count,
    sent,           \* history: beats written to ch_dat_in
    out,            \* history: beats ch_dat_out accepted
    queries,        \* history: the queries accepted for an answer
    pulses,         \* history: number of pulses
    age             \* history: pulses since the gateway was last heard

inVars == <<ch_in, in_stage0, in_stage>>
outVars == <<out_stage, out_send_idx, out_send_mode,
             out_send_arp_rpy_stdby, out_send_arp_req_stdby>>
addrVars == <<rpy_mac, rpy_ip, gtw_mac, arp_cache_invalidate_count>>
vars == <<inVars, outVars, addrVars, ch_pps_in, sent, out, queries, pulses, age>>

IDLE == "IDLE"
REQUEST == "REQUEST"
REPLY == "REPLY"
NoAddr == <<"", "">>
BCAST_MAC == <<"bcast", "bcast">>

-----------------------------------------------------------------------------
(* The frames received and sent.                                           *)

BlankFields == [op |-> "", smac |-> NoAddr, sip |-> NoAddr, dip |-> NoAddr]
BlankBeat == [pkt |-> [beats |-> 1, noise |-> BlankFields], n |-> 0]

\* What a beat has at the place of a field that the n-th beat of a frame
\* carries, and the halves of an address there.
Field(b, n, field) == IF b.n = n THEN b.pkt[field] ELSE b.pkt.noise[field]
Half(b, n, field, i) == Field(b, n, field)[i]

\* The fields of the frame whose first beat is in in_stage5.
recv_arp_op == Field(in_stage[3], 3, "op")
recv_src_mac == <<Half(in_stage[3], 3, "smac", 1), Half(in_stage[2], 4, "smac", 2)>>
recv_src_ip == Field(in_stage[2], 4, "sip")
recv_dst_ip == <<Half(in_stage[1], 5, "dip", 1), Half(in_stage0[1], 6, "dip", 2)>>

\* The beat out_send_idx of the frame being sent, with the addresses it
\* carries: the destination MAC in beat 0, the target MAC and the upper half
\* of the target IP in beat 4, the lower half in beat 5.
SendBeat ==
    LET mac == IF out_send_mode = REQUEST THEN BCAST_MAC ELSE rpy_mac
        ip  == IF out_send_mode = REQUEST THEN GTW_IP ELSE rpy_ip
    IN  [kind |-> out_send_mode, n |-> out_send_idx,
         mac |-> IF out_send_idx \in {0, 4} THEN mac ELSE NoAddr,
         ip |-> CASE out_send_idx = 4 -> GTW_IP[1]
                  [] out_send_idx = 5 -> ip[2]
                  [] OTHER -> ""]

-----------------------------------------------------------------------------
Init ==
    /\ ch_in = <<>> /\ ch_pps_in = FALSE
    /\ in_stage0 = <<>> /\ in_stage = [i \in 1..5 |-> BlankBeat]
    /\ out_stage = <<>> /\ out_send_idx = 0 /\ out_send_mode = IDLE
    /\ out_send_arp_rpy_stdby = FALSE /\ out_send_arp_req_stdby = FALSE
    /\ rpy_mac = NoAddr /\ rpy_ip = NoAddr /\ gtw_mac = NoAddr
    /\ arp_cache_invalidate_count = 0
    /\ sent = <<>> /\ out = <<>> /\ queries = <<>>
    /\ pulses = 0 /\ age = ARP_CACHE_LIFETIME

\* The ethertype splitter writes one beat of an ARP frame.
Supply(b) ==
    /\ Len(ch_in) < BufDepth
    /\ b \in NextBeats(sent)
    /\ ch_in' = Append(ch_in, b)
    /\ sent' = Append(sent, b)
    /\ UNCHANGED <<in_stage0, in_stage, outVars, addrVars, ch_pps_in,
                   out, queries, pulses, age>>

\* The pulse of the second.  The buffer has one place and every invocation
\* empties it, so it is empty when the next pulse comes.
Pulse ==
    /\ ~ch_pps_in /\ pulses < MaxPps
    /\ ch_pps_in' = TRUE
    /\ pulses' = pulses + 1
    /\ UNCHANGED <<inVars, outVars, addrVars, sent, out, queries, age>>

\* Variants with a bug, against which the properties are tested, stand before
\* the definition they vary.  Here: every beat dispatched on.
Dispatches_Always == in_stage0 # <<>>

\* The dispatch of a received frame, in the invocation in which its sixth
\* beat is in in_stage0.
Dispatches == in_stage0 # <<>> /\ Sop(in_stage[5])

\* Variant: a query accepted over a waiting one.
AcceptsQuery_Always ==
    Dispatches /\ recv_arp_op = "REQ" /\ recv_dst_ip = OWN_IP

AcceptsQuery ==
    /\ Dispatches /\ recv_arp_op = "REQ"
    /\ recv_dst_ip = OWN_IP
    /\ ~out_send_arp_rpy_stdby

UpdatesCache ==
    /\ Dispatches /\ ~AcceptsQuery
    /\ recv_src_ip = GTW_IP
    /\ recv_arp_op = "REQ" => recv_dst_ip = GTW_IP

\* Variant: one pulse early.
Expires_Early == ch_pps_in /\ arp_cache_invalidate_count <= 1

\* A pulse finds the cache entry expired.
Expires == ch_pps_in /\ arp_cache_invalidate_count = 0

\* Variant: the output register is not looked at.
Fetches_Always(accepting) == out_send_mode # IDLE

\* The output register, and the beat fetched into it when it is free.
Fetches(accepting) ==
    out_send_mode # IDLE /\ (out_stage = <<>> \/ accepting)

Transmit(accepting) ==
    /\ out' = IF accepting THEN out \o out_stage ELSE out
    /\ out_stage' = Latch(Fetches(accepting), <<SendBeat>>, accepting, out_stage)

\* Variants: what waits from an earlier invocation is forgotten.
RpyWaits_Now == AcceptsQuery

ReqWaits_Now == Expires

RpyWaits == out_send_arp_rpy_stdby \/ AcceptsQuery

ReqWaits == out_send_arp_req_stdby \/ Expires

\* What to send next, once the machine is idle at the end of the invocation.
\* A reply goes before a request.
ChooseMode(accepting) ==
    LET idle == \/ out_send_mode = IDLE
                \/ Fetches(accepting) /\ out_send_idx = 5
        starts == idle /\ (RpyWaits \/ ReqWaits)
    IN  /\ out_send_mode' = CASE starts /\ RpyWaits -> REPLY
                              [] starts /\ ~RpyWaits -> REQUEST
                              [] idle /\ ~starts -> IDLE
                              [] OTHER -> out_send_mode
        /\ out_send_arp_rpy_stdby' = (RpyWaits /\ ~idle)
        /\ out_send_arp_req_stdby' = (ReqWaits /\ (idle => RpyWaits))
        /\ out_send_idx' = CASE starts -> 0
                             [] ~starts /\ Fetches(accepting) -> out_send_idx + 1
                             [] OTHER -> out_send_idx

CountedDown ==
    IF ch_pps_in /\ arp_cache_invalidate_count > 0
    THEN arp_cache_invalidate_count - 1
    ELSE arp_cache_invalidate_count

Learn ==
    /\ rpy_mac' = IF AcceptsQuery THEN recv_src_mac ELSE rpy_mac
    /\ rpy_ip' = IF AcceptsQuery THEN recv_src_ip ELSE rpy_ip
    /\ gtw_mac' = IF UpdatesCache THEN recv_src_mac ELSE gtw_mac
    /\ arp_cache_invalidate_count' =
         IF UpdatesCache THEN ARP_CACHE_LIFETIME ELSE CountedDown

Shift ==
    /\ in_stage' = IF in_stage0 # <<>>
                   THEN [i \in 1..5 |-> IF i = 1 THEN in_stage0[1] ELSE in_stage[i - 1]]
                   ELSE in_stage
    /\ in_stage0' = FirstOf(ch_in)
    /\ ch_in' = IF ch_in # <<>> THEN Tail(ch_in) ELSE ch_in

\* One clock; accepting says whether ch_dat_out takes a beat.
Invoke(accepting) ==
    /\ Transmit(accepting) /\ ChooseMode(accepting) /\ Learn /\ Shift
    /\ ch_pps_in' = FALSE
    /\ queries' = IF AcceptsQuery
                  THEN Append(queries, [mac |-> recv_src_mac, ip |-> recv_src_ip])
                  ELSE queries
    /\ age' = CASE UpdatesCache -> 0
                [] ~UpdatesCache /\ ch_pps_in /\ age < ARP_CACHE_LIFETIME -> age + 1
                [] OTHER -> age
    /\ UNCHANGED <<sent, pulses>>

Next ==
    \/ \E b \in NextBeats(sent) : Supply(b)
    \/ Pulse
    \/ \E accepting \in BOOLEAN : Invoke(accepting)

Spec == Init /\ [][Next]_vars

\* The component runs in every clock and the merge keeps accepting.
FairSpec == Spec /\ WF_vars(Invoke(TRUE))

-----------------------------------------------------------------------------
Address ==
    LET fields == Packets \cup {p.noise : p \in Packets} \cup {BlankFields}
        halves == UNION {{f.smac[1], f.smac[2], f.sip[1], f.sip[2]} : f \in fields}
    IN  halves \X halves

TypeOK ==
    /\ ch_in \in Seq(Beats) /\ Len(ch_in) <= BufDepth
    /\ ch_pps_in \in BOOLEAN
    /\ in_stage0 \in Slot
    /\ in_stage \in [1..5 -> Beats \cup {BlankBeat}]
    /\ Len(out_stage) <= 1
    /\ out_send_idx \in 0..6
    /\ out_send_mode \in {IDLE, REQUEST, REPLY}
    /\ out_send_arp_rpy_stdby \in BOOLEAN /\ out_send_arp_req_stdby \in BOOLEAN
    /\ {rpy_mac, rpy_ip, gtw_mac} \subseteq Address
    /\ arp_cache_invalidate_count \in 0..ARP_CACHE_LIFETIME
    /\ sent \in Seq(Beats) /\ pulses \in 0..MaxPps
    /\ age \in 0..ARP_CACHE_LIFETIME

Sent(kind, n) == SelectSeq(out, LAMBDA b : b.kind = kind /\ b.n = n)

\* What leaves is a sequence of whole frames of six beats, each a request or a
\* reply from its first beat to its last, however the output stalls and
\* whatever is received and counted while a frame is being sent.
OutFramed ==
    /\ out # <<>> => out[1].n = 0
    /\ \A i \in 1..Len(out) - 1 :
         IF out[i].n = 5 THEN out[i + 1].n = 0
         ELSE out[i + 1].n = out[i].n + 1 /\ out[i + 1].kind = out[i].kind

\* The six beats a decision is taken on belong together: an accepted query is
\* a query for the device's address with the sender addresses it was sent
\* with, and the gateway's MAC address is one the gateway announced - also
\* when frames follow each other without a gap, come with gaps inside, and
\* have payload that looks like a query.
DecisionsFromOneFrame ==
    LET received == {sent[i].pkt : i \in 1..Len(sent)}
    IN  /\ \A k \in 1..Len(queries) :
             \E p \in received : /\ p.op = "REQ" /\ p.dip = OWN_IP
                                 /\ queries[k] = [mac |-> p.smac, ip |-> p.sip]
        /\ gtw_mac # NoAddr =>
             \E p \in received : p.sip = GTW_IP /\ p.smac = gtw_mac

\* The number of the reply that the i-th beat of s belongs to.
ReplyNo(s, i) == Cardinality({j \in 1..i : s[j].kind = REPLY /\ s[j].n = 0})

\* The k-th reply goes out for the k-th accepted query, and no reply without
\* one.  The MAC addresses and the lower half of the IP address in it are those
\* of that query or of the one accepted while the reply is being sent, never
\* of a third one.
ReplyFromThisOrNextQuery ==
    \A i \in 1..Len(out) : out[i].kind = REPLY =>
        LET k == ReplyNo(out, i)
            asked == {queries[j] : j \in {k, k + 1} \cap 1..Len(queries)}
        IN  /\ k <= Len(queries)
            /\ out[i].n \in {0, 4} => out[i].mac \in {q.mac : q \in asked}
            /\ out[i].n = 5 => out[i].ip \in {q.ip[2] : q \in asked}

\* A request for the gateway's address is queued only by a pulse that comes
\* ARP_CACHE_LIFETIME or more pulses after the gateway was last heard.
RequestOnlyWhenStale ==
    [][(/\ ~out_send_arp_req_stdby
        /\ \/ out_send_arp_req_stdby'
           \/ out_send_mode # REQUEST /\ out_send_mode' = REQUEST)
            => ch_pps_in /\ age = ARP_CACHE_LIFETIME]_vars

\* Once no more queries come, the last one accepted is answered by a reply
\* that carries its addresses in every place: a reply that was spoiled by a
\* newer query is followed by a clean one for the newer query.
LastQueryAnswered ==
    LET last == Len(queries)
    IN  (queries # <<>>)
            ~> (/\ last > 0 /\ Len(Sent(REPLY, 5)) = last
                /\ \A n \in {0, 4} : Sent(REPLY, n)[last].mac = queries[last].mac
                /\ Sent(REPLY, 5)[last].ip = queries[last].ip[2])

\* A pulse that finds the entry expired leads to a request for the gateway's
\* address, also when a reply is on its way and when the reply after it goes
\* first.
GatewayAsked ==
    \A k \in 0..MaxPps - 1 :
        (/\ ch_pps_in /\ age = ARP_CACHE_LIFETIME
         /\ Len(Sent(REQUEST, 5)) = k)
            ~> (Len(Sent(REQUEST, 5)) > k)

-----------------------------------------------------------------------------
(* A statement of the source's comment that the code does not keep.        *)

\* "generate ARP reply with this device's MAC addr in response of ARP query"
\* (arp_proc.cpp:5): the k-th reply is addressed throughout to the sender of
\* the k-th query accepted.
ReplyAnswersItsQuery ==
    \A k \in 1..Len(Sent(REPLY, 4)) :
        /\ Sent(REPLY, 0)[k].mac = queries[k].mac
        /\ Sent(REPLY, 4)[k].mac = queries[k].mac
=============================================================================
