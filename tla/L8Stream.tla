------------------------------ MODULE L8Stream ------------------------------
(***************************************************************************)
(* The Avalon-ST packet stream every block of the data path speaks: 8-byte *)
(* chunks ("beats") with start-of-packet and end-of-packet flags           *)
(* (L8_AVALON_ST_PKT).  A beat is a packet and the position of the beat in *)
(* it; the flags follow from the position.  A packet is a record that has  *)
(* at least the field beats, its length; the blocks that look into packets *)
(* give it more fields.                                                    *)
(*                                                                         *)
(* A pipeline register (a value and its _en flag) is a sequence of at most *)
(* one beat, so that the content of a chain of registers is their          *)
(* concatenation.                                                          *)
(***************************************************************************)
EXTENDS Integers, Sequences, SequencesExt

CONSTANTS
    Packets,    \* the packets the environment may send
    BufDepth,   \* depth of a component's input buffer, ihc::buffer<8>
    MaxSent     \* bound: beats the environment sends on a stream

ASSUME PacketsAssumption == \A p \in Packets : p.beats \in Nat \ {0}
ASSUME DepthAssumption == BufDepth \in Nat \ {0}
ASSUME BoundAssumption == MaxSent \in Nat

-----------------------------------------------------------------------------
(* Beats and streams of beats.                                             *)

Beats == UNION {[pkt : {p}, n : 1..p.beats] : p \in Packets}

Sop(b) == b.n = 1
Eop(b) == b.n = b.pkt.beats

\* c may come right after b on a stream that keeps packets whole.
Follows(b, c) ==
    IF Eop(b) THEN Sop(c) ELSE c.pkt = b.pkt /\ c.n = b.n + 1

Contiguous(s) == \A i \in 1..Len(s) - 1 : Follows(s[i], s[i + 1])

\* A stream that starts with a packet and never mixes two packets.
Framed(s) == Contiguous(s) /\ (s # <<>> => Sop(s[1]))

\* The stream s stands between two packets.
AtBoundary(s) == s = <<>> \/ Eop(Last(s))

\* The beats a source of whole packets may send after s.  It starts a packet
\* only if the bound lets it send all of it.
NextBeats(s) ==
    IF AtBoundary(s)
    THEN {[pkt |-> p, n |-> 1] : p \in {q \in Packets : Len(s) + q.beats <= MaxSent}}
    ELSE {[pkt |-> Last(s).pkt, n |-> Last(s).n + 1]}

-----------------------------------------------------------------------------
(* Registers.                                                              *)

Slot == {s \in Seq(Beats) : Len(s) <= 1}

\* What a read of the channel s brings: its first beat, or nothing (tryRead).
FirstOf(s) == IF s = <<>> THEN <<>> ELSE <<s[1]>>

\* A register at the end of an invocation: it loads src, or its content has
\* moved on, or it keeps what it has.
Latch(load, src, left, old) ==
    IF load THEN src ELSE IF left THEN <<>> ELSE old
=============================================================================
