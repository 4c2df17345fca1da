--------------------------------- MODULE MCI2c ---------------------------------
(* The I2C driver, and the program that uses it.  block says which of them a     *)
(* behaviour runs; the other stays in its initial state.  FIFOs of two entries   *)
(* fill up in the middle of every transaction; three bytes take three            *)
(* interrupts or more.                                                           *)
EXTENDS I2cDriver

CONSTANT MaxSkips

VARIABLES block, f_core, f_target, list, scl, pc, todo, port, skips, trouble

FW == INSTANCE Firmware WITH core <- f_core, target <- f_target

firmware == <<f_core, f_target, list, scl, pc, todo, port, skips, trouble>>

BothInit ==
  /\ block \in {"driver", "firmware"}
  /\ Init /\ (block = "firmware" => ~registered)
  /\ FW!Init /\ (block = "driver" => ~trouble)

\* main has returned and the core has no command left.  A stop that was skipped leaves the
\* bus taken.
Ended == pc \in {"done", "failed"} /\ f_core.cmds = <<>> /\ f_core.cur = Nothing

BothNext ==
  /\ UNCHANGED block
  /\ \/ block = "driver" /\ Next /\ UNCHANGED firmware
     \/ block = "firmware" /\ FW!Next /\ UNCHANGED vars
     \/ block = "firmware" /\ Ended /\ UNCHANGED <<vars, firmware>>

\* The fairness of each block, while it is the one that runs.
BothFairness ==
  /\ WF_vars(block = "driver" /\ Program)
  /\ WF_vars(block = "driver" /\ Isr)
  /\ WF_vars(block = "driver" /\ Core)
  /\ WF_firmware(block = "firmware" /\ FW!Main)
  /\ WF_firmware(block = "firmware" /\ FW!Bus)

BothSpec == BothInit /\ [][BothNext]_<<block, vars, firmware>> /\ BothFairness
--------------------------------------------------------------------------------
\* Whatever fails, a register of the port expander gets no value not meant for it; and if
\* nothing fails the registers get theirs.
NoWrongRegister == FW!NoWrongRegister
SidebandsSet == block = "firmware" /\ ~trouble ~> [](port[FW!Configuration] = 248 /\ port[FW!OutputPort] = 0)

\* What a comment of the list's search takes for granted.
SearchEnds == FW!SearchEnds
================================================================================
