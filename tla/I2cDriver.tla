------------------------------- MODULE I2cDriver -------------------------------
(***************************************************************************)
(* Transactions of the Avalon I2C driver: polled and interrupt driven      *)
(* transmit and receive, with the retries of master_tx, master_rx and      *)
(* master_tx_rx, the optional interrupt callback and the status query.     *)
(*                                                                         *)
(* The program, its interrupt routine and the core run side by side; a     *)
(* wait loop may give up whenever its condition still holds.  A byte sent  *)
(* is its position in the buffer.  Addresses have 7 bits.                  *)
(***************************************************************************)
EXTENDS I2cCore

CONSTANTS Retries,   \* attempts of a transaction beyond the first
          TxSizes, RxSizes,  \* sizes of the application's buffers
          Slow       \* whether a byte may take longer than the wait loops wait

ASSUME DriverAssumption ==
  Retries \in Nat /\ TxSizes \cup RxSizes \subseteq Nat \ {0} /\ Slow \in BOOLEAN

VARIABLES call,        \* the application's call in progress
          irq,         \* the application's IRQ_DATA_t, with the bytes stored in its
               \* buffer and, for the properties, the size of that buffer
          isr,         \* "wait" while the interrupt routine waits for the core
          registered   \* the optional interrupt handler is registered

driver == <<call, irq, isr, registered>>
vars == <<core, target, driver>>

SUCCESS == "SUCCESS"
TIMEOUT == "TIMEOUT"
BAD_ARG == "BAD_ARG"
NACK_ERR == "NACK_ERR"
ARB_LOST_ERR == "ARB_LOST_ERR"
BUSY == "BUSY"
Retried == {ARB_LOST_ERR, NACK_ERR, BUSY}
GARBAGE == 0  \* read from the empty receive FIFO

Init ==
  /\ CoreInit
  /\ call = [at |-> "idle", op |-> "none", irq |-> FALSE, tx |-> 0, rx |-> 0, retry |-> 0, phase |-> 1,
             todo |-> <<>>, got |-> <<>>, status |-> SUCCESS, answer |-> "none"]
  /\ irq = [busy |-> 0, size |-> 0, got |-> <<>>, want |-> 0]
  /\ isr = "off"
  /\ registered \in BOOLEAN

\* The transmit and receive calls that an operation is made of.
Phases ==
  LET part(addr, size, restart, stop) ==
        [addr |-> addr, size |-> size, restart |-> restart, stop |-> stop]
  IN CASE call.op = "tx" -> << part(WriteAddress, call.tx, FALSE, TRUE) >>
       [] call.op = "rx" -> << part(ReadAddress, call.rx, FALSE, TRUE) >>
       [] OTHER -> << part(WriteAddress, call.tx, FALSE, FALSE), part(ReadAddress, call.rx, TRUE, TRUE) >>
Phase == Phases[call.phase]
Receiving == Phase.addr = ReadAddress

\* Variant: asks for a byte more than there is room for.
Commands_OneMore ==
  [i \in 1 .. Phase.size + 2 |->
     Command(IF i = 1 THEN Phase.addr ELSE IF Receiving THEN 0 ELSE i - 1,
             i = 1 /\ Phase.restart, i = Phase.size + 2 /\ Phase.stop)]

\* The address, with the restart, and the bytes, the last of them with the stop.
Commands ==
  [i \in 1 .. Phase.size + 1 |->
     Command(IF i = 1 THEN Phase.addr ELSE IF Receiving THEN 0 ELSE i - 1,
             i = 1 /\ Phase.restart, i = Phase.size + 1 /\ Phase.stop)]

\* The program does not run while the interrupt routine waits.
At(label) == call.at = label /\ isr = "off"

\* A wait loop can run out: the core is slow, or has nothing left to do.
GivesUp == Slow \/ (core.cmds = <<>> /\ core.cur = Nothing)

\* Variant: leaves the core enabled after an error.
Leave_OnStop(status) ==
  IF status # SUCCESS THEN IF Phase.stop THEN "wait" ELSE "return"
  ELSE IF ~Phase.stop THEN "return"
  ELSE IF call.irq THEN "arm" ELSE "wait"

\* How a transmit or receive ends, once its commands are written or one failed.
Leave(status) ==
  IF status # SUCCESS THEN "wait"
  ELSE IF ~Phase.stop THEN "return"
  ELSE IF call.irq THEN "arm" ELSE "wait"
-------------------------------------------------------------------------------
(* master_transmit, master_receive and their forms using interrupts *)

Start(op, use_interrupts, tx, rx) ==
  /\ At("idle")
  /\ call' = [call EXCEPT !.at = "begin", !.op = op, !.irq = use_interrupts, !.tx = tx, !.rx = rx,
                          !.retry = Retries, !.phase = 1, !.todo = <<>>, !.got = <<>>, !.answer = "none"]
  /\ UNCHANGED <<core, target, irq, isr, registered>>

Refuse(status) ==
  /\ call' = [call EXCEPT !.at = "return", !.status = status]
  /\ UNCHANGED <<core, irq>>

Accept ==
  /\ call' = [call EXCEPT !.at = "cmd", !.todo = Commands, !.got = <<>>]
  /\ IF Phase.restart THEN UNCHANGED <<core, irq>>
     ELSE /\ core' = Cleared(Enabled(core))
          /\ irq' = IF registered THEN [irq EXCEPT !.busy = 0] ELSE irq

Begin ==
  /\ At("begin")
  /\ IF call.irq /\ ~registered THEN Refuse(BAD_ARG)
     ELSE IF ~Phase.restart /\ core.en THEN Refuse(BUSY)
     ELSE Accept
  /\ UNCHANGED <<target, isr, registered>>

CmdWrite ==
  /\ At("cmd")
  /\ \/ /\ TxReady(core)
        /\ core' = Pushed(core, Head(call.todo))
        /\ call' = [call EXCEPT !.at = "check", !.todo = Tail(@)]
     \/ /\ ~TxReady(core) /\ GivesUp
        /\ call' = [call EXCEPT !.at = Leave(TIMEOUT), !.status = TIMEOUT]
        /\ UNCHANGED core
  /\ UNCHANGED <<target, irq, isr, registered>>

\* check_nack, then check_arblost
Checked == IF core.arb THEN ARB_LOST_ERR ELSE IF core.nack THEN NACK_ERR ELSE SUCCESS

\* A polled receive fetches what has come between two commands.
CmdCheck ==
  /\ At("check")
  /\ LET more == call.todo # <<>>
         fetches == Receiving /\ ~call.irq /\ Checked = SUCCESS /\ more
         got == IF fetches THEN call.got \o core.rx ELSE call.got
     IN /\ call' = [call EXCEPT !.status = Checked, !.got = got,
                      !.at = IF Checked # SUCCESS THEN Leave(Checked)
                             ELSE IF more THEN "cmd"
                             ELSE IF Receiving /\ ~call.irq THEN "take" ELSE Leave(SUCCESS)]
        /\ core' = IF fetches THEN [core EXCEPT !.rx = <<>>] ELSE core
  /\ UNCHANGED <<target, irq, isr, registered>>

\* Variant: a byte that does not come is not an error.
Took_Silently(byte) ==
  [call EXCEPT !.got = Append(@, byte),
               !.at = IF Len(call.got) + 1 < Phase.size THEN "take" ELSE Leave(SUCCESS)]

\* The call after rx_read.
Took(byte) ==
  LET status == IF byte = GARBAGE THEN TIMEOUT ELSE SUCCESS
  IN [call EXCEPT !.got = Append(@, byte), !.status = status,
                  !.at = IF status = SUCCESS /\ Len(call.got) + 1 < Phase.size THEN "take" ELSE Leave(status)]

RxRead ==
  /\ At("take")
  /\ \/ /\ core.rx # <<>>
        /\ call' = Took(Head(core.rx))
        /\ core' = [core EXCEPT !.rx = Tail(@)]
     \/ /\ core.rx = <<>> /\ GivesUp
        /\ call' = Took(GARBAGE)
        /\ UNCHANGED core
  /\ UNCHANGED <<target, irq, isr, registered>>

\* Only the polled forms look for a missing acknowledgement once the core is idle.
WaitIdle ==
  /\ At("wait")
  /\ ~Busy(core) \/ GivesUp
  /\ call' = [call EXCEPT !.at = "return",
                          !.status = IF core.nack /\ ~call.irq THEN NACK_ERR
                                     ELSE IF Busy(core) THEN TIMEOUT ELSE @]
  /\ core' = Disabled(core)
  /\ UNCHANGED <<target, irq, isr, registered>>

Arm ==
  /\ At("arm")
  /\ call' = [call EXCEPT !.at = "return"]
  /\ IF Receiving
     THEN /\ core' = [Cleared(core) EXCEPT !.rxthd = "one", !.ints = @ \cup {"rx"}]
          /\ irq' = [busy |-> 2, size |-> Phase.size, got |-> <<>>, want |-> Phase.size]
     ELSE /\ core' = [Cleared(core) EXCEPT !.cmdthd = "empty", !.ints = @ \cup {"tx"}]
          /\ irq' = [irq EXCEPT !.busy = 1]
  /\ UNCHANGED <<target, isr, registered>>

\* The loops of master_tx, master_rx and master_tx_rx.  After a status that is neither
\* success nor retried, master_tx_rx goes on to the receive.
Return ==
  /\ At("return")
  /\ call' = CASE call.status \in Retried /\ call.retry > 0 ->
                    [call EXCEPT !.at = "begin", !.phase = 1, !.retry = @ - 1]
               [] call.status \notin Retried /\ call.phase < Len(Phases) ->
                    [call EXCEPT !.at = "begin", !.phase = @ + 1]
               [] OTHER -> [call EXCEPT !.at = "idle"]
  /\ UNCHANGED <<core, target, irq, isr, registered>>
-------------------------------------------------------------------------------
(* interrupt_transaction_status *)

Query ==
  /\ At("idle") /\ registered
  /\ IF core.nack /\ irq.busy # 0
     THEN call' = [call EXCEPT !.at = "abort"]
     ELSE call' = [call EXCEPT !.answer = IF core.nack THEN NACK_ERR
                                          ELSE IF irq.busy # 0 THEN BUSY ELSE SUCCESS]
  /\ core' = IF ~core.nack /\ irq.busy # 0 THEN core ELSE [core EXCEPT !.ints = {}]
  /\ UNCHANGED <<target, irq, isr, registered>>

QueryAbort ==
  /\ At("abort")
  /\ ~Busy(core) \/ GivesUp
  /\ call' = [call EXCEPT !.at = "idle", !.answer = IF Busy(core) THEN TIMEOUT ELSE NACK_ERR]
  /\ irq' = [irq EXCEPT !.busy = 0, !.got = @ \o core.rx]
  /\ core' = Disabled(core)
  /\ UNCHANGED <<target, isr, registered>>
-------------------------------------------------------------------------------
(* The interrupt routine with the optional callback *)

\* Variant: a receive goes on without its interrupt.
IsrReceive_Off(n) ==
  /\ irq' = [irq EXCEPT !.size = @ - n, !.got = @ \o SubSeq(core.rx, 1, n)]
  /\ core' = [Cleared(core) EXCEPT !.rx = SubSeq(@, n + 1, Len(@)), !.ints = {}]
  /\ isr' = IF irq.size > n THEN "off" ELSE "wait"

\* Store n bytes and go on waiting for the next ones, or for the core to become idle.
IsrReceive(n) ==
  /\ irq' = [irq EXCEPT !.size = @ - n, !.got = @ \o SubSeq(core.rx, 1, n)]
  /\ core' = [Cleared(core) EXCEPT !.rx = SubSeq(@, n + 1, Len(@)),
                                   !.ints = IF irq.size > n THEN {"rx"} ELSE {}]
  /\ isr' = IF irq.size > n THEN "off" ELSE "wait"

IsrEnter ==
  /\ isr = "off" /\ Interrupting(core)
  /\ IF irq.busy = 2 THEN IsrReceive(Min({irq.size, Len(core.rx)}))
     ELSE /\ core' = [Cleared(core) EXCEPT !.ints = {}]
          /\ isr' = "wait"
          /\ UNCHANGED irq
  /\ UNCHANGED <<target, call, registered>>

IsrWait ==
  /\ isr = "wait"
  /\ ~Busy(core) \/ GivesUp
  /\ core' = Disabled(core)
  /\ irq' = [irq EXCEPT !.busy = 0]
  /\ isr' = "off"
  /\ UNCHANGED <<target, call, registered>>
-------------------------------------------------------------------------------
Core == (TransferGoesOn \/ TransferFails) /\ UNCHANGED driver
Program == Begin \/ CmdWrite \/ CmdCheck \/ RxRead \/ WaitIdle \/ Arm \/ Return \/ QueryAbort
Isr == IsrEnter \/ IsrWait

Next ==
  \/ \E use_interrupts \in BOOLEAN :
       \/ \E tx \in TxSizes : Start("tx", use_interrupts, tx, 0)
       \/ \E rx \in RxSizes : Start("rx", use_interrupts, 0, rx)
       \/ \E tx \in TxSizes, rx \in RxSizes : Start("tx_rx", use_interrupts, tx, rx)
  \/ Query
  \/ Program
  \/ Isr
  \/ Core

\* The processor runs and takes interrupts.
Spec == Init /\ [][Next]_vars /\ WF_vars(Program) /\ WF_vars(Isr) /\ WF_vars(Core)
-------------------------------------------------------------------------------
UpTo(n) == [i \in 1 .. n |-> i]

\* What the target acknowledges when the transaction goes through.
Expected ==
  LET written == <<WriteAddress>> \o UpTo(call.tx)
  IN CASE call.op = "tx" -> <<written>>
       [] call.op = "rx" -> <<<<ReadAddress>>>>
       [] OTHER -> <<written, <<ReadAddress>>>>

\* Registers and calls keep their domains, and the command FIFO is never written when full.
TypeOK ==
  /\ Len(core.cmds) <= FifoDepth /\ Len(core.rx) <= FifoDepth
  /\ core.ints \subseteq {"tx", "rx"}
  /\ irq.busy \in 0 .. 2 /\ isr \in {"off", "wait"}
  /\ call.status \in Retried \cup {SUCCESS, TIMEOUT, BAD_ARG}
  /\ call.answer \in {"none", SUCCESS, TIMEOUT, NACK_ERR, BUSY}

\* A polled transaction reports success only if the target acknowledged every byte of it,
\* whatever failed on the way and however often it was tried again, and then the buffer
\* holds the target's bytes.  (An arbitration lost at the very end is not looked for.)
SuccessMeansDelivered ==
  call.at = "idle" /\ call.op # "none" /\ ~call.irq /\ call.status = SUCCESS /\ ~core.en /\ ~core.arb =>
    /\ target.msgs = Expected
    /\ call.got = UpTo(call.rx)

\* A byte lands in a buffer at most once, in order, and never beyond the buffer's end.
BuffersInOrder ==
  LET increasing(s) == \A i, j \in DOMAIN s : i < j /\ s[j] # GARBAGE => s[i] < s[j]
  IN /\ increasing(call.got) /\ Len(call.got) <= call.rx
     /\ increasing(irq.got)
     /\ Len(irq.got) <= irq.want

\* When neither a call nor an interrupt is at work on a transaction the core is off, so the
\* next transaction is not refused as busy, whatever went wrong in the last one.
ReleasedWhenIdle == At("idle") /\ irq.busy = 0 => ~core.en

\* An interrupt driven transmit comes to an end whatever happens to it, and a receive
\* whose bytes all reached the receive FIFO does.
InterruptsEnd ==
  /\ irq.busy = 1 ~> irq.busy = 0
  /\ (irq.busy = 2 /\ Len(irq.got) + Len(core.rx) = irq.want) ~> irq.busy = 0

\* The status query reports success only for a transaction the target took part in.
QueriedSuccessMeansDelivered ==
  call.answer = SUCCESS /\ call.irq /\ call.status = SUCCESS /\ call.op # "none" =>
    target.msgs = Expected
===============================================================================
