-------------------------------- MODULE MCStdio --------------------------------
(* The way of printf to the host: the descriptors of the HAL, and the driver of  *)
(* the JTAG UART.  block says which of them a behaviour runs; the other stays in *)
(* its initial state.  Rings of three slots and FIFOs of one character; three    *)
(* descriptors beyond the standard ones, one device and one file system.         *)
EXTENDS JtagUart

CONSTANT ALT_MAX_FD

\* The pool has more than the standard descriptors; system.h gives it 32.
ASSUME PoolAssumption == ALT_MAX_FD \in Nat /\ ALT_MAX_FD > 3

VARIABLES block, dev_list, fs_list, fd_list, max_fd, stage, result

Device == <<"dev", "jtag">>
Disk == <<"fs">>

Fd == INSTANCE HalFd WITH
  Devices <- {Device}, FileSystems <- {Disk}, Stdio <- Device,
  Names <- {Device, <<"dev", "null">>, <<"fs", "file">>, <<"dev", "none">>}

fdVars == <<dev_list, fs_list, fd_list, max_fd, stage, result>>

StdioInit ==
  /\ block \in {"uart", "fd"}
  /\ Init /\ (block = "fd" => ~HasClock)
  /\ Fd!Init

StdioNext ==
  /\ UNCHANGED block
  /\ \/ block = "uart" /\ Next /\ UNCHANGED fdVars
     \/ block = "fd" /\ Fd!Next /\ UNCHANGED vars

\* The fairness of the driver, while it is the one that runs.
StdioFairness ==
  /\ WF_vars(block = "uart" /\ Irq)
  /\ WF_vars(block = "uart" /\ CallStep)
  /\ WF_vars(block = "uart" /\ HostReads)

StdioSpec == StdioInit /\ [][StdioNext]_<<block, vars, fdVars>> /\ StdioFairness
--------------------------------------------------------------------------------
\* Exclusive access is respected, a failed open leaves no descriptor behind, the standard
\* streams always lead somewhere, and the search mark covers every descriptor in use.
NoOpenWhileLocked == Fd!NoOpenWhileLocked
FailedOpenLeavesNothing == Fd!FailedOpenLeavesNothing
StdioNeverLost == Fd!StdioNeverLost
MarkCoversPool == Fd!MarkCoversPool

\* What the documentation of exclusive access says.
ExclusiveIsAlone == Fd!ExclusiveIsAlone
================================================================================
