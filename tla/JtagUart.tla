------------------------------- MODULE JtagUart -------------------------------
(***************************************************************************)
(* The interrupt driven driver of the JTAG UART, through which printf of   *)
(* the firmware reaches the host: two ring buffers between the calls of    *)
(* the application and the interrupt routine, and a routine called by the  *)
(* system clock that notices when no host is there.                        *)
(*                                                                         *)
(* One pass of the interrupt routine's loop is a step.  A call is a        *)
(* sequence of steps, with a step for every access to a variable that the  *)
(* interrupt routine shares.  Characters are numbers: the application      *)
(* writes 1, 2, 3, ... and so does the host.                               *)
(***************************************************************************)
EXTENDS Integers, Sequences, SequencesExt, FiniteSetsExt

CONSTANTS BufLen,          \* slots of a ring buffer
          FifoLen,         \* characters each of the device's FIFOs holds
          DefaultTimeout,  \* ticks until a silent host is taken to be absent
          InactiveMax,     \* INT_MAX - 2: host_inactive counts no further
          Counts,          \* sizes of the application's requests
          MaxWritten,      \* bound: characters the application writes
          MaxSent          \* bound: characters the host sends

ASSUME LengthsAssumption == BufLen \in Nat \ {0, 1} /\ FifoLen \in Nat \ {0}
ASSUME TimeoutAssumption ==
  DefaultTimeout \in Nat \ {0} /\ InactiveMax \in Nat /\ DefaultTimeout <= InactiveMax
ASSUME CountsAssumption == Counts \subseteq Nat \ {0} /\ MaxWritten \in Nat /\ MaxSent \in Nat

VARIABLES tx_buf, tx_in, tx_out,   \* ring from the application to the device
          rx_buf, rx_in, rx_out,   \* ring from the device to the application
          irq_enable,              \* enabled interrupts, also the device's register
          host_inactive, timeout,  \* ticks without a host, and how many are tolerated
          txfifo, rxfifo, ac,      \* the device: its FIFOs and the activity bit
          call,                    \* the application's call in progress
          accepted, hostGot,       \* characters reported as written; received by the host
          hostSent, got            \* characters the host sent; returned to the application

rings == <<tx_buf, tx_in, tx_out, rx_buf, rx_in, rx_out>>
device == <<txfifo, rxfifo, ac>>
clock == <<host_inactive, timeout>>
history == <<accepted, hostGot, hostSent, got>>
vars == <<rings, irq_enable, clock, device, call, history>>

INT_MAX == InactiveMax + 2
Slots == 0 .. BufLen - 1

\* The variables of a call: where it is, whether it may block, what is left of its
\* request, what it has moved, and the indices it has read.
Idle == [at |-> "idle", nonblock |-> FALSE, left |-> 0, moved |-> 0, in |-> 0, out |-> 0, n |-> 0]
Goto(label) == [call EXCEPT !.at = label]

Free(in, out) == (out - in - 1) % BufLen            \* free slots of a ring
Pending(buf, in, out) == [i \in 1 .. (in - out) % BufLen |-> buf[(out + i - 1) % BufLen]]

HostAbsent == host_inactive >= timeout

(***************************************************************************)
(* The alarm can only be started when the BSP has a system clock.  This    *)
(* one has none; then the host is taken to be always present.              *)
(***************************************************************************)
Init ==
  /\ tx_buf = [s \in Slots |-> 0] /\ tx_in = 0 /\ tx_out = 0
  /\ rx_buf = [s \in Slots |-> 0] /\ rx_in = 0 /\ rx_out = 0
  /\ irq_enable = {"RE"}
  /\ host_inactive = 0
  /\ timeout \in {DefaultTimeout, INT_MAX}
  /\ txfifo = <<>> /\ rxfifo = <<>> /\ ac = FALSE
  /\ call = Idle
  /\ accepted = 0 /\ hostGot = <<>> /\ hostSent = 0 /\ got = <<>>

HasClock == timeout # INT_MAX
-------------------------------------------------------------------------------
(* The interrupt routine *)

ReadPending == "RE" \in irq_enable /\ rxfifo # <<>>
WritePending == "WE" \in irq_enable /\ Len(txfifo) < FifoLen

\* Variant: empties the device whatever room the ring has.
Received_Overrun == IF ReadPending THEN Min({Len(rxfifo), BufLen}) ELSE 0

Received == IF ReadPending THEN Min({Len(rxfifo), Free(rx_in, rx_out)}) ELSE 0
Sent == IF WritePending THEN Min({FifoLen - Len(txfifo), (tx_in - tx_out) % BufLen}) ELSE 0

\* Variant: transmit interrupts go off once anything was sent.
SwitchedOff_Greedy ==
  {i \in {"RE"} : ReadPending /\ Received < Len(rxfifo)} \cup
  {i \in {"WE"} : WritePending /\ Sent > 0}

\* Interrupts the pass switches off: RE when characters are left that the ring cannot
\* take, WE when the device would take more than there is.
SwitchedOff ==
  {i \in {"RE"} : ReadPending /\ Received < Len(rxfifo)} \cup
  {i \in {"WE"} : WritePending /\ Sent < FifoLen - Len(txfifo)}

Irq ==
  /\ ReadPending \/ WritePending
  /\ rx_buf' = [s \in Slots |-> LET i == (s - rx_in) % BufLen
                                IN IF i < Received THEN rxfifo[i + 1] ELSE rx_buf[s]]
  /\ rx_in' = (rx_in + Received) % BufLen
  /\ rxfifo' = SubSeq(rxfifo, Received + 1, Len(rxfifo))
  /\ txfifo' = txfifo \o SubSeq(Pending(tx_buf, tx_in, tx_out), 1, Sent)
  /\ tx_out' = (tx_out + Sent) % BufLen
  /\ irq_enable' = irq_enable \ SwitchedOff
  /\ UNCHANGED <<tx_buf, tx_in, rx_out, clock, ac, call, history>>

\* altera_avalon_jtag_uart_timeout, called by the system clock
Timeout ==
  /\ HasClock
  /\ ac' = FALSE
  /\ host_inactive' = IF ac THEN 0
                      ELSE IF host_inactive < InactiveMax THEN host_inactive + 1
                      ELSE host_inactive
  /\ UNCHANGED <<rings, irq_enable, timeout, txfifo, rxfifo, call, history>>
-------------------------------------------------------------------------------
(* altera_avalon_jtag_uart_write *)

Write(count, nonblock) ==
  /\ call.at = "idle" /\ accepted + count <= MaxWritten
  /\ call' = [Idle EXCEPT !.at = "w_look", !.nonblock = nonblock, !.left = count]
  /\ UNCHANGED <<rings, irq_enable, clock, device, history>>

\* Variant: fills the slot that tells a full ring from an empty one.
Room_Full(in, out) == IF in < out THEN out - in ELSE BufLen - in

\* Slots that can be filled without going round, given the two indices.
Room(in, out) == IF in < out THEN out - 1 - in
                 ELSE IF out > 0 THEN BufLen - in
                 ELSE BufLen - 1 - in

WriteLook ==
  /\ call.at = "w_look"
  /\ LET n == Min({Room(tx_in, tx_out), call.left})
     IN call' = [call EXCEPT !.at = IF n = 0 THEN "w_kick" ELSE "w_copy",
                             !.in = tx_in, !.out = tx_out, !.n = n]
  /\ UNCHANGED <<rings, irq_enable, clock, device, history>>

WriteCopy ==
  /\ call.at = "w_copy"
  /\ tx_buf' = [s \in Slots |-> IF s \in call.in .. call.in + call.n - 1
                                THEN accepted + call.moved + 1 + s - call.in ELSE tx_buf[s]]
  /\ call' = Goto("w_publish")
  /\ UNCHANGED <<tx_in, tx_out, rx_buf, rx_in, rx_out, irq_enable, clock, device, history>>

WritePublish ==
  /\ call.at = "w_publish"
  /\ tx_in' = (call.in + call.n) % BufLen
  /\ call' = [call EXCEPT !.at = IF call.left > call.n THEN "w_look" ELSE "w_kick",
                          !.left = @ - call.n, !.moved = @ + call.n]
  /\ UNCHANGED <<tx_buf, tx_out, rx_buf, rx_in, rx_out, irq_enable, clock, device, history>>

\* Variant: only a call that has to wait switches the interrupt on.
WriteKick_Waiting ==
  /\ call.at = "w_kick"
  /\ irq_enable' = IF call.left > 0 THEN irq_enable \cup {"WE"} ELSE irq_enable
  /\ call' = Goto(IF call.left > 0 /\ ~call.nonblock THEN "w_wait" ELSE "w_return")
  /\ UNCHANGED <<rings, clock, device, history>>

WriteKick ==
  /\ call.at = "w_kick"
  /\ irq_enable' = irq_enable \cup {"WE"}
  /\ call' = Goto(IF call.left > 0 /\ ~call.nonblock THEN "w_wait" ELSE "w_return")
  /\ UNCHANGED <<rings, clock, device, history>>

WriteWait ==
  /\ call.at = "w_wait"
  /\ call.out # tx_out \/ HostAbsent
  /\ call' = Goto(IF host_inactive # 0 THEN "w_return" ELSE "w_look")
  /\ UNCHANGED <<rings, irq_enable, clock, device, history>>

WriteReturn ==
  /\ call.at = "w_return"
  /\ accepted' = accepted + call.moved
  /\ call' = Idle
  /\ UNCHANGED <<rings, irq_enable, clock, device, hostGot, hostSent, got>>
-------------------------------------------------------------------------------
(* altera_avalon_jtag_uart_read *)

Read(space, nonblock) ==
  /\ call.at = "idle"
  /\ call' = [Idle EXCEPT !.at = "r_look", !.nonblock = nonblock, !.left = space]
  /\ UNCHANGED <<rings, irq_enable, clock, device, history>>

\* Characters that can be taken without going round, given the two indices.
Available(in, out) == IF in >= out THEN in - out ELSE BufLen - out

ReadLook ==
  /\ call.at = "r_look"
  /\ LET n == Min({Available(rx_in, rx_out), call.left})
     IN call' = [call EXCEPT !.in = rx_in, !.out = rx_out, !.n = n,
                             !.at = IF n > 0 THEN "r_copy"
                                    ELSE IF call.moved > 0 THEN "r_enable"
                                    ELSE IF call.nonblock THEN "r_return" ELSE "r_wait"]
  /\ UNCHANGED <<rings, irq_enable, clock, device, history>>

ReadCopy ==
  /\ call.at = "r_copy"
  /\ got' = got \o [i \in 1 .. call.n |-> rx_buf[call.out + i - 1]]
  /\ call' = Goto("r_publish")
  /\ UNCHANGED <<rings, irq_enable, clock, device, accepted, hostGot, hostSent>>

ReadPublish ==
  /\ call.at = "r_publish"
  /\ rx_out' = (call.out + call.n) % BufLen
  /\ call' = [call EXCEPT !.at = IF call.left > call.n THEN "r_look" ELSE "r_enable",
                          !.left = @ - call.n, !.moved = @ + call.n]
  /\ UNCHANGED <<tx_buf, tx_in, tx_out, rx_buf, rx_in, irq_enable, clock, device, history>>

ReadWait ==
  /\ call.at = "r_wait"
  /\ call.in # rx_in \/ HostAbsent
  /\ call' = Goto(IF call.in = rx_in THEN "r_return" ELSE "r_look")
  /\ UNCHANGED <<rings, irq_enable, clock, device, history>>

\* Variant: leaves the receive interrupt as it is.
ReadEnable_Not ==
  /\ call.at = "r_enable"
  /\ call' = Goto("r_return")
  /\ UNCHANGED <<rings, irq_enable, clock, device, history>>

ReadEnable ==
  /\ call.at = "r_enable"
  /\ irq_enable' = irq_enable \cup {"RE"}
  /\ call' = Goto("r_return")
  /\ UNCHANGED <<rings, clock, device, history>>

ReadReturn ==
  /\ call.at = "r_return"
  /\ call' = Idle
  /\ UNCHANGED <<rings, irq_enable, clock, device, history>>
-------------------------------------------------------------------------------
(* altera_avalon_jtag_uart_close and _ioctl *)

Close(nonblock) ==
  /\ call.at = "idle"
  /\ call' = [Idle EXCEPT !.at = "c_wait", !.nonblock = nonblock]
  /\ UNCHANGED <<rings, irq_enable, clock, device, history>>

CloseWait ==
  /\ call.at = "c_wait"
  /\ tx_out = tx_in \/ HostAbsent \/ call.nonblock
  /\ call' = Idle
  /\ UNCHANGED <<rings, irq_enable, clock, device, history>>

SetTimeout(t) ==
  /\ call.at = "idle" /\ HasClock
  /\ timeout' = IF t >= 2 /\ t < INT_MAX THEN t ELSE INT_MAX - 1
  /\ UNCHANGED <<rings, irq_enable, host_inactive, device, call, history>>
-------------------------------------------------------------------------------
(* The host, which may stop at any time and come back *)

HostReads ==
  /\ txfifo # <<>>
  /\ hostGot' = Append(hostGot, Head(txfifo))
  /\ txfifo' = Tail(txfifo)
  /\ ac' = TRUE
  /\ UNCHANGED <<rings, irq_enable, clock, rxfifo, call, accepted, hostSent, got>>

HostSends ==
  /\ hostSent < MaxSent /\ Len(rxfifo) < FifoLen
  /\ hostSent' = hostSent + 1
  /\ rxfifo' = Append(rxfifo, hostSent')
  /\ ac' = TRUE
  /\ UNCHANGED <<rings, irq_enable, clock, txfifo, call, accepted, hostGot, got>>
-------------------------------------------------------------------------------
CallStep ==
  \/ WriteLook \/ WriteCopy \/ WritePublish \/ WriteKick \/ WriteWait \/ WriteReturn
  \/ ReadLook \/ ReadCopy \/ ReadPublish \/ ReadWait \/ ReadEnable \/ ReadReturn
  \/ CloseWait

Next ==
  \/ Irq
  \/ Timeout
  \/ \E count \in Counts, nonblock \in BOOLEAN : Write(count, nonblock) \/ Read(count, nonblock)
  \/ \E nonblock \in BOOLEAN : Close(nonblock)
  \/ \E t \in {0, DefaultTimeout} : SetTimeout(t)
  \/ CallStep
  \/ HostReads
  \/ HostSends

\* The processor runs and takes interrupts; the host reads what there is to read.
Fairness == WF_vars(Irq) /\ WF_vars(CallStep) /\ WF_vars(HostReads)

Spec == Init /\ [][Next]_vars /\ Fairness
-------------------------------------------------------------------------------
WriteLabels == {"w_look", "w_copy", "w_publish", "w_kick", "w_wait", "w_return"}
ReadLabels == {"r_look", "r_copy", "r_publish", "r_wait", "r_enable", "r_return"}
Published == accepted + (IF call.at \in WriteLabels THEN call.moved ELSE 0)
UpTo(k) == [i \in 1 .. k |-> i]

\* The variables keep their domains; the device never holds more than its FIFOs.
TypeOK ==
  /\ {tx_in, tx_out, rx_in, rx_out} \subseteq Slots
  /\ irq_enable \subseteq {"RE", "WE"}
  /\ Len(txfifo) <= FifoLen /\ Len(rxfifo) <= FifoLen
  /\ host_inactive \in 0 .. InactiveMax /\ timeout \in 1 .. INT_MAX
  /\ call.at \in WriteLabels \cup ReadLabels \cup {"idle", "c_wait"}

\* What the application wrote is, in order and once each, with the host, in the device
\* or in the ring, however the interrupt routine cuts into the call; and a call reports
\* just the characters that it put there, so a caller that repeats the rest of a short
\* write neither loses nor repeats any.
TxInOrder == hostGot \o txfifo \o Pending(tx_buf, tx_in, tx_out) = UpTo(Published)

\* What the host sent is, in order and once each, with the application, in the ring or
\* in the device: a full ring makes the device wait and overwrites nothing.
RxInOrder ==
  LET ring == Pending(rx_buf, rx_in, rx_out)
      copied == IF call.at = "r_publish" THEN call.n ELSE 0
  IN got \o SubSeq(ring, copied + 1, Len(ring)) \o rxfifo = UpTo(hostSent)

\* No wake-up is lost: receive interrupts are off only while the ring is full or the
\* reader that made room is about to switch them on, transmit interrupts only while the
\* ring is empty or the writer that filled it is about to.
NoStall ==
  /\ "RE" \notin irq_enable =>
       \/ Free(rx_in, rx_out) = 0
       \/ call.at \in {"r_look", "r_copy", "r_publish", "r_enable"} /\ call.moved > 0
  /\ "WE" \notin irq_enable =>
       \/ tx_in = tx_out
       \/ call.at \in {"w_look", "w_publish", "w_copy", "w_kick"}

\* While the host reads, every character that was put into the ring reaches it.
CharsArrive == \A i \in 1 .. MaxWritten : Published >= i ~> Len(hostGot) >= i

\* While the host reads, a blocked write returns; a blocked read returns when
\* characters of the host are in the device.
CallsReturn ==
  /\ call.at \in WriteLabels ~> call.at = "idle"
  /\ (call.at = "r_wait" /\ rxfifo # <<>>) ~> call.at = "idle"
===============================================================================
