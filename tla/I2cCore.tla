-------------------------------- MODULE I2cCore --------------------------------
(***************************************************************************)
(* The Avalon I2C core as its driver uses it: a FIFO of transfer commands, *)
(* a FIFO of received bytes, and status bits; and the target on the bus.   *)
(* The core is not part of the repository.  Taken from its register header *)
(* and the comments of the driver, with these assumptions: a missing       *)
(* acknowledgement or a lost arbitration ends the transfer and drops the   *)
(* commands until the bit is cleared; disabling the core empties both      *)
(* FIFOs and lets go of the bus; a command that finds its FIFO full is     *)
(* lost.                                                                   *)
(***************************************************************************)
EXTENDS Integers, Sequences, SequencesExt, FiniteSetsExt

CONSTANTS FifoDepth,  \* entries of the command FIFO and of the receive FIFO
          Target      \* 7 bit address that answers on the bus

ASSUME DepthAssumption == FifoDepth \in Nat \ {0} /\ Target \in 0 .. 127

VARIABLES core,   \* the core's registers and FIFOs
          target  \* what the target has seen since the bus was last free

WriteAddress == 2 * Target
ReadAddress == 2 * Target + 1
Command(byte, restart, stop) == [byte |-> byte, sta |-> restart, sto |-> stop]
Nothing == Command(-1, FALSE, FALSE)

CoreReset ==
  [en |-> FALSE, cmds |-> <<>>, cur |-> Nothing, bus |-> "free", rx |-> <<>>, nack |-> FALSE,
   arb |-> FALSE, ints |-> {}, cmdthd |-> "not_full", rxthd |-> "full"]

CoreInit ==
  /\ core = CoreReset
  /\ target = [msgs |-> <<>>, sent |-> 0]
-------------------------------------------------------------------------------
(* The registers, as the driver's functions read and write them *)

Enabled(c) == [c EXCEPT !.en = TRUE]
Disabled(c) == [c EXCEPT !.en = FALSE, !.cmds = <<>>, !.cur = Nothing, !.bus = "free", !.rx = <<>>]
Cleared(c) == [c EXCEPT !.nack = FALSE, !.arb = FALSE]
Failed(c) == c.nack \/ c.arb
Pushed(c, cmd) == IF c.en /\ ~Failed(c) /\ Len(c.cmds) < FifoDepth THEN [c EXCEPT !.cmds = Append(@, cmd)] ELSE c
TxReady(c) == IF c.cmdthd = "empty" THEN c.cmds = <<>> ELSE Len(c.cmds) < FifoDepth
RxReady(c) == Len(c.rx) >= IF c.rxthd = "one" THEN 1 ELSE FifoDepth
Busy(c) == c.cmds # <<>> \/ c.cur # Nothing \/ c.bus # "free"
Interrupting(c) == ("tx" \in c.ints /\ TxReady(c)) \/ ("rx" \in c.ints /\ RxReady(c))
-------------------------------------------------------------------------------
(* The core at work *)

Fetch ==
  /\ core.en /\ ~Failed(core) /\ core.cur = Nothing /\ core.cmds # <<>>
  /\ core' = [core EXCEPT !.cur = Head(core.cmds), !.cmds = Tail(core.cmds)]
  /\ UNCHANGED target

\* The command on the bus begins a message: its byte is an address.
Starts == core.bus = "free" \/ core.cur.sta

StartAcked ==
  /\ core.cur # Nothing /\ Starts /\ core.cur.byte \in {WriteAddress, ReadAddress}
  /\ target' = [msgs |-> Append(IF core.bus = "free" THEN <<>> ELSE target.msgs, <<core.cur.byte>>),
                sent |-> 0]
  /\ core' = [core EXCEPT !.cur = Nothing,
                          !.bus = IF core.cur.sto THEN "free"
                                  ELSE IF core.cur.byte = ReadAddress THEN "read" ELSE "write"]

WriteAcked ==
  /\ core.cur # Nothing /\ ~Starts /\ core.bus = "write"
  /\ target' = [target EXCEPT !.msgs[Len(target.msgs)] = Append(@, core.cur.byte)]
  /\ core' = [core EXCEPT !.cur = Nothing, !.bus = IF core.cur.sto THEN "free" ELSE @]

\* The target's bytes are 1, 2, 3, ...  One that finds the FIFO full is discarded.
ByteRead ==
  /\ core.cur # Nothing /\ ~Starts /\ core.bus = "read"
  /\ target' = [target EXCEPT !.sent = @ + 1]
  /\ core' = [core EXCEPT !.cur = Nothing, !.bus = IF core.cur.sto THEN "free" ELSE @,
                          !.rx = IF Len(@) < FifoDepth THEN Append(@, target'.sent) ELSE @]

\* No acknowledgement, of an address or of a byte written, or another master wins.
TransferFails ==
  /\ core.cur # Nothing
  /\ \/ (Starts \/ core.bus = "write") /\ core' = [core EXCEPT !.nack = TRUE, !.cur = Nothing,
                                                   !.cmds = <<>>, !.bus = "free"]
     \/ core' = [core EXCEPT !.arb = TRUE, !.cur = Nothing, !.cmds = <<>>, !.bus = "free"]
  /\ target' = IF Starts /\ core.bus = "free" THEN [msgs |-> <<>>, sent |-> 0] ELSE target

TransferGoesOn == Fetch \/ StartAcked \/ WriteAcked \/ ByteRead
===============================================================================
