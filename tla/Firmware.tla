------------------------------- MODULE Firmware -------------------------------
(***************************************************************************)
(* main of enet_nios_proc: it opens the I2C controller that alt_sys_init   *)
(* has initialised, initialises it a second time, and sets two registers   *)
(* of the port expander through which the SFP side-band pins are driven.   *)
(* The statuses of its command writes are dropped.                         *)
(***************************************************************************)
EXTENDS I2cCore

CONSTANT MaxSkips  \* bound: command writes whose wait loop runs out

DL == INSTANCE DeviceList

VARIABLES list,     \* alt_avalon_i2c_list
          scl,      \* SCL high and low counts of the core
          pc, todo, \* where main is, and the command writes it has left
          port,     \* registers of the port expander
          skips,    \* how many of these were skipped
          trouble   \* whether anything may fail: acknowledgement, arbitration, wait loop

main == <<list, scl, pc, todo, skips>>
vars == <<core, target, main, port, trouble>>

ENET_NIOS_I2C_NAME == <<"dev", "enet_nios_i2c">>
ENET_NIOS_I2C_FREQ == 50000000
SS_MAX_HZ == 100000
DIFF_LCNT_HCNT == 60

\* Registers of the expander, with their values after power-up.
OutputPort == 1
Configuration == 3
PortReset == [r \in 0 .. 3 |-> IF r \in {OutputPort, Configuration} THEN 255 ELSE 0]

\* alt_avalon_i2c_master_config_speed_set: the counts are 16 bits wide.
SpeedCounts(freq, speed) ==
  LET half == freq \div (2 * speed)
  IN [hcnt |-> (half + DIFF_LCNT_HCNT) % 2^16, lcnt |-> (half - DIFF_LCNT_HCNT) % 2^16]

\* Variant: the second message does not ask for a restart.
CommandWrites_NoRestart ==
  << Command(WriteAddress, TRUE, FALSE), Command(Configuration, FALSE, FALSE), Command(248, FALSE, TRUE),
     Command(WriteAddress, FALSE, FALSE), Command(OutputPort, FALSE, FALSE), Command(0, FALSE, TRUE) >>

CommandWrites ==
  << Command(WriteAddress, TRUE, FALSE), Command(Configuration, FALSE, FALSE), Command(248, FALSE, TRUE),
     Command(WriteAddress, TRUE, FALSE), Command(OutputPort, FALSE, FALSE), Command(0, FALSE, TRUE) >>

\* alt_avalon_i2c_init: whatever state the core was in, and whether or not the device is
\* in the list.
I2cInit(c) == [Cleared(Disabled(c)) EXCEPT !.ints = {}, !.cmdthd = "not_full", !.rxthd = "full"]
ListWithDevice(l) == DL!Insert(l, ENET_NIOS_I2C_NAME)

\* alt_sys_init has run.
Init ==
  /\ core = I2cInit(CoreReset)
  /\ target = [msgs |-> <<>>, sent |-> 0]
  /\ list = ListWithDevice(DL!Empty({ENET_NIOS_I2C_NAME}))
  /\ scl = SpeedCounts(ENET_NIOS_I2C_FREQ, SS_MAX_HZ)
  /\ pc = "open" /\ todo = CommandWrites /\ skips = 0
  /\ port = PortReset
  /\ trouble \in BOOLEAN
-------------------------------------------------------------------------------
Open ==
  /\ pc = "open"
  /\ pc' = IF DL!FindDev(list, ENET_NIOS_I2C_NAME) = DL!NULL THEN "failed" ELSE "setup"
  /\ UNCHANGED <<core, target, list, scl, todo, skips, port, trouble>>

Setup ==
  /\ pc = "setup"
  /\ core' = I2cInit(core)
  /\ list' = ListWithDevice(list)
  /\ scl' = SpeedCounts(ENET_NIOS_I2C_FREQ, 100000)
  /\ pc' = "enable"
  /\ UNCHANGED <<target, todo, skips, port, trouble>>

Enable ==
  /\ pc = "enable"
  /\ pc' = IF core.en THEN "failed" ELSE "write"
  /\ core' = Enabled(core)
  /\ UNCHANGED <<target, list, scl, todo, skips, port, trouble>>

\* Variant: does not wait for room in the command FIFO.
MayWrite_Always == TRUE

MayWrite == TxReady(core)

\* A write whose wait loop runs out is skipped, and the next one goes ahead.
CmdWrite ==
  /\ pc = "write"
  /\ \/ MayWrite /\ core' = Pushed(core, Head(todo)) /\ UNCHANGED skips
     \/ ~TxReady(core) /\ trouble /\ skips < MaxSkips /\ skips' = skips + 1 /\ UNCHANGED core
  /\ todo' = Tail(todo)
  /\ pc' = IF todo' = <<>> THEN "done" ELSE "write"
  /\ UNCHANGED <<target, list, scl, port, trouble>>

\* The expander takes the first byte of a message for a register's number and the bytes
\* behind it for its new values.
Expander ==
  LET message == Last(target'.msgs)
  IN port' = IF target' # target /\ Len(target'.msgs) > 0 /\ Len(message) > 2 /\ message[2] \in DOMAIN port
             THEN [port EXCEPT ![message[2]] = Last(message)] ELSE port

Bus ==
  /\ TransferGoesOn \/ (trouble /\ TransferFails)
  /\ Expander
  /\ UNCHANGED <<main, trouble>>

Main == Open \/ Setup \/ Enable \/ CmdWrite
Next == Main \/ Bus
Spec == Init /\ [][Next]_vars /\ WF_vars(Main) /\ WF_vars(Bus)
-------------------------------------------------------------------------------
\* Whatever is not acknowledged, lost to another master or skipped once, a register holds
\* its reset value or the one main means for it: no byte is taken for another one.
NoWrongRegister ==
  /\ port[Configuration] \in {255, 248} /\ port[OutputPort] \in {255, 0}
  /\ \A r \in DOMAIN port \ {OutputPort, Configuration} : port[r] = PortReset[r]

\* If nothing fails, both registers get their values, although main never waits for the
\* bus before it returns.
SidebandsSet ==
  ~trouble ~> [](port[Configuration] = 248 /\ port[OutputPort] = 0)

\* A search through the list of I2C controllers comes to the list's end.
SearchEnds == DL!Ends(list)
===============================================================================
