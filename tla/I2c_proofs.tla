------------------------------ MODULE I2c_proofs ------------------------------
(***************************************************************************)
(* Proofs about the I2C driver and the firmware, for FIFOs, buffers and    *)
(* retries of any size.                                                    *)
(*                                                                         *)
(* The program, the interrupt routine and the core share the core's        *)
(* registers and irq.  Control says which of them is responsible for the   *)
(* core while it is on; with it the core is released after every call.     *)
(*                                                                         *)
(* For the firmware, commands go by their position in what the six writes  *)
(* are meant to send.  One write may be skipped when its wait gives up:    *)
(* the proof follows how many commands are missing before each one that    *)
(* stands in the FIFO or on the bus, and that what the port expander takes *)
(* for a register's value was meant for that register.                     *)
(***************************************************************************)
EXTENDS MCI2c, SequenceTheorems, TLAPS

-----------------------------------------------------------------------------
(* Types *)

GivenCommand == [byte : Nat, sta : BOOLEAN, sto : BOOLEAN]

CoreType ==
    [en : BOOLEAN, cmds : Seq(GivenCommand), cur : GivenCommand \cup {Nothing},
     bus : {"free", "write", "read"}, rx : Seq(Nat), nack : BOOLEAN, arb : BOOLEAN,
     ints : SUBSET {"tx", "rx"}, cmdthd : {"not_full", "empty"}, rxthd : {"full", "one"}]

\* The labels between the first command of a transmit or receive and its last byte.
AtWork == {"cmd", "check", "take", "arm"}

CallType ==
    [at : AtWork \cup {"idle", "begin", "wait", "return", "abort"},
     op : {"none", "tx", "rx", "tx_rx"}, irq : BOOLEAN, tx : Nat, rx : Nat, retry : Nat,
     phase : {1, 2}, todo : Seq(GivenCommand), got : Seq(Nat),
     status : Retried \cup {SUCCESS, TIMEOUT, BAD_ARG},
     answer : {"none", SUCCESS, TIMEOUT, NACK_ERR, BUSY}]

\* An operation has the buffers and phases that belong to it, and something to
\* write while it writes.
CallSound(c) ==
    /\ c.at \notin {"idle", "abort"} => c.op # "none"
    /\ c.at = "cmd" => c.todo # <<>>
    /\ c.phase = 2 => c.op = "tx_rx"
    /\ c.op = "tx" => c.rx = 0 /\ c.tx > 0
    /\ c.op = "rx" => c.tx = 0 /\ c.rx > 0
    /\ c.op = "tx_rx" => c.tx > 0 /\ c.rx > 0

IrqType == [busy : 0..2, size : Nat, got : Seq(Nat), want : Nat]

TypesRight ==
    /\ core \in CoreType
    /\ target \in [msgs : Seq(Seq(Nat)), sent : Nat]
    /\ call \in CallType
    /\ irq \in IrqType
    /\ isr \in {"off", "wait"}
    /\ registered \in BOOLEAN
    /\ CallSound(call)
    /\ core.bus = "write" => target.msgs # <<>>

FirstOfTwo == call.op = "tx_rx" /\ call.phase = 1

\* What the phase of a call is.
LEMMA PhaseFacts ==
    ASSUME TypesRight, call.op # "none"
    PROVE  /\ Receiving <=> call.op = "rx" \/ call.phase = 2
           /\ Phase.addr = IF Receiving THEN ReadAddress ELSE WriteAddress
           /\ Phase.size = IF Receiving THEN call.rx ELSE call.tx
           /\ Phase.size \in Nat \ {0}
           /\ Phase.restart \in BOOLEAN /\ (Phase.restart <=> call.phase = 2)
           /\ Phase.stop \in BOOLEAN /\ (Phase.stop <=> ~FirstOfTwo)
           /\ Len(Phases) = IF call.op = "tx_rx" THEN 2 ELSE 1
           /\ WriteAddress \in Nat /\ ReadAddress \in Nat /\ WriteAddress # ReadAddress
<1>0. WriteAddress \in Nat /\ ReadAddress \in Nat /\ WriteAddress # ReadAddress
  BY DepthAssumption DEF WriteAddress, ReadAddress
<1>1. /\ call.op \in {"tx", "rx", "tx_rx"} /\ call.phase \in {1, 2} /\ call.tx \in Nat /\ call.rx \in Nat
      /\ call.phase = 2 => call.op = "tx_rx"
      /\ call.op \in {"tx", "tx_rx"} => call.tx > 0
      /\ call.op \in {"rx", "tx_rx"} => call.rx > 0
  BY DEF TypesRight, CallType, CallSound
<1>2. CASE call.op = "tx"
  <2>1. call.phase = 1 /\ call.op # "rx" /\ call.op # "tx_rx"
    BY <1>1, <1>2
  <2>2. Phases = << [addr |-> WriteAddress, size |-> call.tx, restart |-> FALSE, stop |-> TRUE] >>
    BY <1>2 DEF Phases
  <2>3. Len(Phases) = 1 /\ Phase = [addr |-> WriteAddress, size |-> call.tx, restart |-> FALSE, stop |-> TRUE]
    BY <2>1, <2>2 DEF Phase
  <2>4. Phase.addr = WriteAddress /\ Phase.size = call.tx /\ Phase.restart = FALSE /\ Phase.stop = TRUE
    BY <2>3
  <2>5. ~Receiving /\ ~FirstOfTwo
    BY <2>4, <2>1, <1>0 DEF Receiving, FirstOfTwo
  <2> QED BY <1>0, <1>1, <1>2, <2>1, <2>3, <2>4, <2>5
<1>3. CASE call.op = "rx"
  <2>1. call.phase = 1 /\ call.op # "tx" /\ call.op # "tx_rx"
    BY <1>1, <1>3
  <2>2. Phases = << [addr |-> ReadAddress, size |-> call.rx, restart |-> FALSE, stop |-> TRUE] >>
    BY <1>3 DEF Phases
  <2>3. Len(Phases) = 1 /\ Phase = [addr |-> ReadAddress, size |-> call.rx, restart |-> FALSE, stop |-> TRUE]
    BY <2>1, <2>2 DEF Phase
  <2>4. Phase.addr = ReadAddress /\ Phase.size = call.rx /\ Phase.restart = FALSE /\ Phase.stop = TRUE
    BY <2>3
  <2>5. Receiving /\ ~FirstOfTwo
    BY <2>4, <2>1, <1>0 DEF Receiving, FirstOfTwo
  <2> QED BY <1>0, <1>1, <1>3, <2>1, <2>3, <2>4, <2>5
<1>4. CASE call.op = "tx_rx"
  <2>0. call.op # "rx" /\ call.tx \in Nat \ {0} /\ call.rx \in Nat \ {0}
    BY <1>1, <1>4
  <2>1. /\ Len(Phases) = 2
        /\ Phases[1] = [addr |-> WriteAddress, size |-> call.tx, restart |-> FALSE, stop |-> FALSE]
        /\ Phases[2] = [addr |-> ReadAddress, size |-> call.rx, restart |-> TRUE, stop |-> TRUE]
    BY <1>4 DEF Phases
  <2>2. CASE call.phase = 1
    <3>1. Phase = [addr |-> WriteAddress, size |-> call.tx, restart |-> FALSE, stop |-> FALSE]
      BY <2>1, <2>2 DEF Phase
    <3>2. Phase.addr = WriteAddress /\ Phase.size = call.tx /\ Phase.restart = FALSE /\ Phase.stop = FALSE
      BY <3>1
    <3>3. ~Receiving /\ FirstOfTwo
      BY <3>2, <1>0, <1>4, <2>2 DEF Receiving, FirstOfTwo
    <3>4. call.phase # 2 /\ Phase.size \in Nat \ {0}
      BY <2>0, <2>2, <3>2
    <3> QED BY <1>0, <1>4, <2>0, <2>1, <3>2, <3>3, <3>4
  <2>3. CASE call.phase = 2
    <3>1. Phase = [addr |-> ReadAddress, size |-> call.rx, restart |-> TRUE, stop |-> TRUE]
      BY <2>1, <2>3 DEF Phase
    <3>2. Phase.addr = ReadAddress /\ Phase.size = call.rx /\ Phase.restart = TRUE /\ Phase.stop = TRUE
      BY <3>1
    <3>3. Receiving /\ ~FirstOfTwo
      BY <3>2, <1>0, <1>4, <2>3 DEF Receiving, FirstOfTwo
    <3>4. Phase.size \in Nat \ {0}
      BY <2>0, <3>2
    <3> QED BY <1>0, <1>4, <2>0, <2>1, <2>3, <3>2, <3>3, <3>4
  <2> QED BY <1>1, <2>2, <2>3
<1> QED BY <1>1, <1>2, <1>3, <1>4

\* The commands of a transmit or receive.
LEMMA CommandsFacts ==
    ASSUME TypesRight, call.op # "none"
    PROVE  /\ Commands \in Seq(GivenCommand) /\ Len(Commands) = Phase.size + 1
           /\ \A i \in 1..Phase.size + 1 :
                Commands[i] = Command(IF i = 1 THEN Phase.addr ELSE IF Receiving THEN 0 ELSE i - 1,
                                      i = 1 /\ Phase.restart, i = Phase.size + 1 /\ Phase.stop)
<1>1. Phase.size \in Nat /\ Phase.addr \in Nat /\ Phase.restart \in BOOLEAN /\ Phase.stop \in BOOLEAN
  BY PhaseFacts DEF TypesRight, CallType, FirstOfTwo
<1>2. \A i \in 1..Phase.size + 1 :
        Command(IF i = 1 THEN Phase.addr ELSE IF Receiving THEN 0 ELSE i - 1,
                i = 1 /\ Phase.restart, i = Phase.size + 1 /\ Phase.stop) \in GivenCommand
  BY <1>1 DEF Command, GivenCommand
<1> HIDE DEF Phase
<1>3. Phase.size + 1 \in Nat
  BY <1>1
<1> QED BY <1>2, <1>3 DEF Commands

-----------------------------------------------------------------------------
\* The initial types.
LEMMA InitTypes == Init => TypesRight
  BY DepthAssumption DEF Init, CoreInit, CoreReset, TypesRight, CallSound, IrqType, CoreType, CallType, AtWork, Nothing, Command, Retried,
     SUCCESS, TIMEOUT, BAD_ARG, NACK_ERR, ARB_LOST_ERR, BUSY, GivenCommand


\* The core's operations keep its type.
LEMMA CoreOperations ==
    ASSUME NEW c \in CoreType
    PROVE  /\ Enabled(c) \in CoreType /\ Disabled(c) \in CoreType /\ Cleared(c) \in CoreType
           /\ \A cmd \in GivenCommand : Pushed(c, cmd) \in CoreType
           /\ \A ints \in SUBSET {"tx", "rx"} : [c EXCEPT !.ints = ints] \in CoreType
           /\ \A s \in Seq(Nat) : [c EXCEPT !.rx = s] \in CoreType
<1>1. <<>> \in Seq(GivenCommand) /\ <<>> \in Seq(Nat) /\ Nothing \in {Nothing}
  OBVIOUS
<1>2. Enabled(c) \in CoreType
  BY DEF Enabled, CoreType
<1>3. Disabled(c) \in CoreType
  BY <1>1 DEF Disabled, CoreType
<1>4. Cleared(c) \in CoreType
  BY DEF Cleared, CoreType
<1>5. ASSUME NEW cmd \in GivenCommand
      PROVE  Pushed(c, cmd) \in CoreType
  <2>1. Append(c.cmds, cmd) \in Seq(GivenCommand)
    BY DEF CoreType
  <2>2. \A t \in Seq(GivenCommand) : [c EXCEPT !.cmds = t] \in CoreType
    BY DEF CoreType
  <2>3. [c EXCEPT !.cmds = Append(@, cmd)] \in CoreType
    BY <2>1, <2>2
  <2> QED BY <2>3 DEF Pushed
<1>6. \A ints \in SUBSET {"tx", "rx"} : [c EXCEPT !.ints = ints] \in CoreType
  BY DEF CoreType
<1>7. \A s \in Seq(Nat) : [c EXCEPT !.rx = s] \in CoreType
  BY DEF CoreType
<1> QED BY <1>2, <1>3, <1>4, <1>5, <1>6, <1>7

\* The fields of the records.
LEMMA FieldTypes ==
    ASSUME TypesRight
    PROVE  /\ core \in CoreType /\ call \in CallType /\ irq \in IrqType
           /\ core.en \in BOOLEAN /\ core.cmds \in Seq(GivenCommand) /\ core.cur \in GivenCommand \cup {Nothing}
           /\ core.bus \in {"free", "write", "read"} /\ core.rx \in Seq(Nat)
           /\ core.nack \in BOOLEAN /\ core.arb \in BOOLEAN
           /\ core.ints \in SUBSET {"tx", "rx"} /\ core.cmdthd \in {"not_full", "empty"}
           /\ core.rxthd \in {"full", "one"}
           /\ call.irq \in BOOLEAN /\ call.tx \in Nat /\ call.rx \in Nat /\ call.retry \in Nat
           /\ call.phase \in {1, 2} /\ call.todo \in Seq(GivenCommand) /\ call.got \in Seq(Nat)
           /\ irq.busy \in 0..2 /\ irq.size \in Nat /\ irq.got \in Seq(Nat) /\ irq.want \in Nat
           /\ target.msgs \in Seq(Seq(Nat)) /\ target.sent \in Nat
<1>1. core \in CoreType /\ call \in CallType /\ irq \in IrqType
      /\ target \in [msgs : Seq(Seq(Nat)), sent : Nat]
  BY DEF TypesRight
<1>2. /\ core.en \in BOOLEAN /\ core.cmds \in Seq(GivenCommand) /\ core.cur \in GivenCommand \cup {Nothing}
      /\ core.bus \in {"free", "write", "read"} /\ core.rx \in Seq(Nat)
      /\ core.nack \in BOOLEAN /\ core.arb \in BOOLEAN
      /\ core.ints \in SUBSET {"tx", "rx"} /\ core.cmdthd \in {"not_full", "empty"}
      /\ core.rxthd \in {"full", "one"}
  BY <1>1 DEF CoreType
<1>3. /\ call.irq \in BOOLEAN /\ call.tx \in Nat /\ call.rx \in Nat /\ call.retry \in Nat
      /\ call.phase \in {1, 2} /\ call.todo \in Seq(GivenCommand) /\ call.got \in Seq(Nat)
  BY <1>1 DEF CallType
<1>4. irq.busy \in 0..2 /\ irq.size \in Nat /\ irq.got \in Seq(Nat) /\ irq.want \in Nat
  BY <1>1 DEF IrqType
<1>5. target.msgs \in Seq(Seq(Nat)) /\ target.sent \in Nat
  BY <1>1
<1> QED BY <1>1, <1>2, <1>3, <1>4, <1>5

\* The bus keeps the types.
LEMMA BusTypes ==
    ASSUME TypesRight, Core
    PROVE  TypesRight'
<1>0. /\ core.cur # Nothing => core.cur.byte \in Nat
      /\ core.cmds \in Seq(GivenCommand) /\ core.rx \in Seq(Nat)
      /\ core \in CoreType /\ target \in [msgs : Seq(Seq(Nat)), sent : Nat]
      /\ target.msgs \in Seq(Seq(Nat)) /\ target.sent \in Nat
      /\ <<>> \in Seq(GivenCommand) /\ <<>> \in Seq(Seq(Nat)) /\ Nothing \in {Nothing}
  BY FieldTypes DEF TypesRight, GivenCommand
<1>t. target \in [msgs : Seq(Seq(Nat)), sent : Nat] /\ target.sent + 1 \in Nat /\ <<>> \in Seq(Seq(Nat))
  BY <1>0
<1>e. core \in CoreType /\ <<>> \in Seq(GivenCommand) /\ Nothing \in {Nothing}
  BY <1>0
<1>1. UNCHANGED <<call, irq, isr, registered>>
  BY DEF Core, driver
<1>2. core' \in CoreType
  <2>1. CASE Fetch
    <3>1. Head(core.cmds) \in GivenCommand /\ Tail(core.cmds) \in Seq(GivenCommand)
      BY <1>0, <2>1 DEF Fetch
    <3>2. core' = [core EXCEPT !.cur = Head(core.cmds), !.cmds = Tail(core.cmds)]
      BY <2>1 DEF Fetch
    <3> QED BY <1>0, <3>1, <3>2 DEF CoreType
  <2>2. CASE StartAcked
    BY <1>0, <2>2 DEF StartAcked, CoreType
  <2>3. CASE WriteAcked
    BY <1>0, <2>3 DEF WriteAcked, CoreType
  <2>4. CASE ByteRead
    <3>1. target'.sent \in Nat
      BY <1>0, <2>4 DEF ByteRead
    <3>2. PICK s \in Seq(Nat), b \in {"free", core.bus} : core' = [core EXCEPT !.cur = Nothing, !.bus = b, !.rx = s]
      <4>1. Append(core.rx, target'.sent) \in Seq(Nat)
        BY <1>0, <3>1
      <4> QED BY <1>0, <2>4, <4>1 DEF ByteRead
    <3>3. b \in {"free", "write", "read"}
      BY <1>0, FieldTypes
    <3> QED BY <1>0, <3>2, <3>3 DEF CoreType
  <2>5. CASE TransferFails
    <3>1. \/ core' = [core EXCEPT !.nack = TRUE, !.cur = Nothing, !.cmds = <<>>, !.bus = "free"]
          \/ core' = [core EXCEPT !.arb = TRUE, !.cur = Nothing, !.cmds = <<>>, !.bus = "free"]
      BY <2>5 DEF TransferFails
    <3>2. CASE core' = [core EXCEPT !.nack = TRUE, !.cur = Nothing, !.cmds = <<>>, !.bus = "free"]
      BY <1>e, <3>2 DEF CoreType
    <3>3. CASE core' = [core EXCEPT !.arb = TRUE, !.cur = Nothing, !.cmds = <<>>, !.bus = "free"]
      BY <1>e, <3>3 DEF CoreType
    <3> QED BY <3>1, <3>2, <3>3
  <2> QED BY <2>1, <2>2, <2>3, <2>4, <2>5 DEF Core, TransferGoesOn
<1>3. target' \in [msgs : Seq(Seq(Nat)), sent : Nat]
  <2>2. CASE StartAcked
    <3>1. <<core.cur.byte>> \in Seq(Nat)
      BY <1>0, <2>2 DEF StartAcked
    <3> QED BY <1>0, <2>2, <3>1 DEF StartAcked
  <2>3. CASE WriteAcked
    <3>1. target.msgs # <<>> /\ Len(target.msgs) \in 1..Len(target.msgs)
      BY <1>0, <2>3 DEF WriteAcked, TypesRight
    <3>2. Append(target.msgs[Len(target.msgs)], core.cur.byte) \in Seq(Nat)
      BY <1>0, <2>3, <3>1 DEF WriteAcked
    <3>3. [target.msgs EXCEPT ![Len(target.msgs)] = Append(@, core.cur.byte)] \in Seq(Seq(Nat))
      BY <1>0, <3>1, <3>2, ExceptSeq
    <3>4. target' = [target EXCEPT !.msgs = [target.msgs EXCEPT ![Len(target.msgs)] = Append(@, core.cur.byte)]]
      BY <2>3 DEF WriteAcked
    <3> QED BY <1>0, <3>3, <3>4
  <2>4. CASE ByteRead
    <3>1. target' = [target EXCEPT !.sent = target.sent + 1]
      BY <2>4 DEF ByteRead
    <3> QED BY <1>t, <3>1
  <2>5. CASE TransferFails \/ Fetch
    <3>1. target' = target \/ target' = [msgs |-> <<>>, sent |-> 0]
      BY <2>5 DEF TransferFails, Fetch
    <3>2. [msgs |-> <<>>, sent |-> 0] \in [msgs : Seq(Seq(Nat)), sent : Nat]
      BY <1>t
    <3> QED BY <1>t, <3>1, <3>2
  <2> QED BY <2>2, <2>3, <2>4, <2>5 DEF Core, TransferGoesOn
<1>4. core'.bus = "write" => target'.msgs # <<>>
  <2>1. CASE Fetch
    <3>1. core'.bus = core.bus /\ target' = target
      BY <1>0, <2>1 DEF Fetch, CoreType
    <3> QED BY <3>1 DEF TypesRight
  <2>2. CASE StartAcked
    <3>1. target'.msgs = Append(IF core.bus = "free" THEN <<>> ELSE target.msgs, <<core.cur.byte>>)
      BY <2>2 DEF StartAcked
    <3>2. (IF core.bus = "free" THEN <<>> ELSE target.msgs) \in Seq(Seq(Nat)) /\ <<core.cur.byte>> \in Seq(Nat)
      BY <1>0, <2>2 DEF StartAcked
    <3> QED BY <3>1, <3>2, AppendProperties
  <2>3. CASE WriteAcked
    <3>1. target'.msgs = [target.msgs EXCEPT ![Len(target.msgs)] = Append(@, core.cur.byte)]
      BY <1>0, <2>3 DEF WriteAcked
    <3>2. target.msgs # <<>> /\ Len(target.msgs) \in 1..Len(target.msgs)
      BY <1>0, <2>3 DEF WriteAcked, TypesRight
    <3>3. DOMAIN target'.msgs = 1..Len(target.msgs)
      BY <1>0, <3>1
    <3> QED BY <3>2, <3>3
  <2>4. CASE ByteRead
    <3>1. core.bus = "read" /\ core'.bus \in {"free", core.bus}
      BY <1>0, <2>4 DEF ByteRead, CoreType
    <3> QED BY <3>1
  <2>5. CASE TransferFails
    <3>1. core'.bus = "free"
      BY <1>0, <2>5 DEF TransferFails, CoreType
    <3> QED BY <3>1
  <2> QED BY <2>1, <2>2, <2>3, <2>4, <2>5 DEF Core, TransferGoesOn
<1> QED BY <1>1, <1>2, <1>3, <1>4 DEF TypesRight

\* The smaller of two numbers.
LEMMA MinOfTwo ==
    ASSUME NEW a \in Int, NEW b \in Int
    PROVE  Min({a, b}) \in {a, b} /\ Min({a, b}) <= a /\ Min({a, b}) <= b
<1>1. CASE a <= b
  <2>1. \E x \in {a, b} : \A y \in {a, b} : x <= y
    BY <1>1
  <2> QED BY <2>1 DEF Min
<1>2. CASE b <= a
  <2>1. \E x \in {a, b} : \A y \in {a, b} : x <= y
    BY <1>2
  <2> QED BY <2>1 DEF Min
<1> QED BY <1>1, <1>2

\* How a call ends its work.
LEMMA Leaves == \A status : Leave(status) \in {"wait", "return", "arm"}
  BY DEF Leave

\* A step of the program or of the interrupt routine keeps the types if it keeps
\* those of the records and sends no operation without buffers.
LEMMA DriverStepTypes ==
    ASSUME TypesRight, core' \in CoreType, call' \in CallType, irq' \in IrqType, isr' \in {"off", "wait"},
           CallSound(call'), UNCHANGED <<target, registered>>, core'.bus \in {"free", core.bus}
    PROVE  TypesRight'
  BY DEF TypesRight

\* An operation goes on with the same buffers.
LEMMA SameOperation ==
    ASSUME TypesRight, call'.op = call.op, call'.tx = call.tx, call'.rx = call.rx, call.op # "none",
           call'.at # "cmd" \/ call'.todo # <<>>, call'.phase = 2 => call.op = "tx_rx"
    PROVE  CallSound(call')
  BY DEF TypesRight, CallSound

\* The core's operations let go of the bus or leave it.
LEMMA BusOfOperations ==
    ASSUME NEW c \in CoreType
    PROVE  /\ Enabled(c).bus = c.bus /\ Disabled(c).bus = "free" /\ Cleared(c).bus = c.bus
           /\ \A cmd : Pushed(c, cmd).bus = c.bus
           /\ \A ints : [c EXCEPT !.ints = ints].bus = c.bus
           /\ \A s : [c EXCEPT !.rx = s].bus = c.bus
  BY DEF CoreType, Enabled, Disabled, Cleared, Pushed

\* The fields after the core's operations.
LEMMA OperationFields ==
    ASSUME NEW c \in CoreType
    PROVE  /\ Enabled(c).en = TRUE /\ Enabled(c).cmds = c.cmds /\ Enabled(c).cur = c.cur
           /\ Enabled(c).bus = c.bus /\ Enabled(c).rx = c.rx /\ Enabled(c).nack = c.nack
           /\ Enabled(c).arb = c.arb /\ Enabled(c).ints = c.ints /\ Enabled(c).cmdthd = c.cmdthd
           /\ Enabled(c).rxthd = c.rxthd
           /\ Disabled(c).en = FALSE /\ Disabled(c).cmds = <<>> /\ Disabled(c).cur = Nothing
           /\ Disabled(c).bus = "free" /\ Disabled(c).rx = <<>> /\ Disabled(c).nack = c.nack
           /\ Disabled(c).arb = c.arb /\ Disabled(c).ints = c.ints /\ Disabled(c).cmdthd = c.cmdthd
           /\ Disabled(c).rxthd = c.rxthd
           /\ Cleared(c).nack = FALSE /\ Cleared(c).arb = FALSE /\ Cleared(c).en = c.en
           /\ Cleared(c).cmds = c.cmds /\ Cleared(c).cur = c.cur /\ Cleared(c).bus = c.bus
           /\ Cleared(c).rx = c.rx /\ Cleared(c).ints = c.ints /\ Cleared(c).cmdthd = c.cmdthd
           /\ Cleared(c).rxthd = c.rxthd
<1> USE DEF CoreType
<1>1. /\ Enabled(c).en = TRUE /\ Enabled(c).cmds = c.cmds /\ Enabled(c).cur = c.cur
      /\ Enabled(c).bus = c.bus /\ Enabled(c).rx = c.rx /\ Enabled(c).nack = c.nack
      /\ Enabled(c).arb = c.arb /\ Enabled(c).ints = c.ints /\ Enabled(c).cmdthd = c.cmdthd
      /\ Enabled(c).rxthd = c.rxthd
  BY DEF Enabled
<1>2. /\ Disabled(c).en = FALSE /\ Disabled(c).cmds = <<>> /\ Disabled(c).cur = Nothing
      /\ Disabled(c).bus = "free" /\ Disabled(c).rx = <<>> /\ Disabled(c).nack = c.nack
      /\ Disabled(c).arb = c.arb /\ Disabled(c).ints = c.ints /\ Disabled(c).cmdthd = c.cmdthd
      /\ Disabled(c).rxthd = c.rxthd
  BY DEF Disabled
<1>3. /\ Cleared(c).nack = FALSE /\ Cleared(c).arb = FALSE /\ Cleared(c).en = c.en
      /\ Cleared(c).cmds = c.cmds /\ Cleared(c).cur = c.cur /\ Cleared(c).bus = c.bus
      /\ Cleared(c).rx = c.rx /\ Cleared(c).ints = c.ints /\ Cleared(c).cmdthd = c.cmdthd
      /\ Cleared(c).rxthd = c.rxthd
  BY DEF Cleared
<1> QED BY <1>1, <1>2, <1>3

\* A command given to the core.
LEMMA PushedFields ==
    ASSUME NEW c \in CoreType, NEW cmd, NEW p, p = Pushed(c, cmd)
    PROVE  /\ p.en = c.en /\ p.cur = c.cur /\ p.bus = c.bus /\ p.rx = c.rx /\ p.nack = c.nack
           /\ p.arb = c.arb /\ p.ints = c.ints /\ p.cmdthd = c.cmdthd /\ p.rxthd = c.rxthd
           /\ p.cmds = IF c.en /\ ~Failed(c) /\ Len(c.cmds) < FifoDepth THEN Append(c.cmds, cmd) ELSE c.cmds
  BY DEF Pushed, CoreType

\* The interrupts switched.
LEMMA IntsSwitched ==
    ASSUME core \in CoreType, NEW ints, core' = [core EXCEPT !.ints = ints]
    PROVE  /\ core'.en = core.en /\ core'.cmds = core.cmds /\ core'.cur = core.cur /\ core'.bus = core.bus
           /\ core'.rx = core.rx /\ core'.nack = core.nack /\ core'.arb = core.arb /\ core'.ints = ints
  BY DEF CoreType

\* Bytes taken out of the receive FIFO.
LEMMA BytesTaken ==
    ASSUME core \in CoreType, NEW s, core' = [core EXCEPT !.rx = s]
    PROVE  /\ core'.en = core.en /\ core'.cmds = core.cmds /\ core'.cur = core.cur /\ core'.bus = core.bus
           /\ core'.rx = s /\ core'.nack = core.nack /\ core'.arb = core.arb /\ core'.ints = core.ints
  BY DEF CoreType

-----------------------------------------------------------------------------
(* What each step does, field by field. *)

SameOp == /\ call'.op = call.op /\ call'.irq = call.irq /\ call'.tx = call.tx /\ call'.rx = call.rx
          /\ call'.phase = call.phase
Elsewhere == UNCHANGED <<target, isr, registered>>

\* A call begins.
LEMMA StartEffect ==
    ASSUME TypesRight, NEW op \in {"tx", "rx", "tx_rx"}, NEW use_interrupts \in BOOLEAN, NEW tx \in Nat, NEW rx \in Nat,
           op = "tx" => rx = 0 /\ tx > 0, op = "rx" => tx = 0 /\ rx > 0, op = "tx_rx" => tx > 0 /\ rx > 0,
           Start(op, use_interrupts, tx, rx)
    PROVE  /\ TypesRight' /\ At("idle")
           /\ call'.at = "begin" /\ call'.phase = 1 /\ call'.got = <<>>
           /\ UNCHANGED <<core, target, irq, isr, registered>>
<1>1. /\ call' = [call EXCEPT !.at = "begin", !.op = op, !.irq = use_interrupts, !.tx = tx, !.rx = rx,
                             !.retry = Retries, !.phase = 1, !.todo = <<>>, !.got = <<>>, !.answer = "none"]
      /\ UNCHANGED <<core, target, irq, isr, registered>> /\ At("idle")
  BY DEF Start
<1>2. <<>> \in Seq(GivenCommand) /\ <<>> \in Seq(Nat) /\ Retries \in Nat /\ call \in CallType
  BY DriverAssumption, FieldTypes
<1>3. call' \in CallType
  BY <1>1, <1>2 DEF CallType
<1>4. /\ call'.at = "begin" /\ call'.op = op /\ call'.tx = tx /\ call'.rx = rx /\ call'.phase = 1
      /\ call'.got = <<>>
  BY <1>1, <1>2 DEF CallType
<1>5. CallSound(call')
  BY <1>4 DEF CallSound
<1> QED BY <1>1, <1>3, <1>4, <1>5, DriverStepTypes DEF TypesRight

\* The first step of a transmit or receive.
LEMMA BeginEffect ==
    ASSUME TypesRight, Begin
    PROVE  /\ TypesRight' /\ Elsewhere /\ SameOp /\ At("begin") /\ call.op # "none"
           /\ \/ /\ call'.at = "return" /\ call'.got = call.got /\ UNCHANGED <<core, irq>>
                 /\ \/ call.irq /\ ~registered /\ call'.status = BAD_ARG
                    \/ call.phase = 1 /\ core.en /\ call'.status = BUSY
              \/ /\ call'.at = "cmd" /\ call'.todo = Commands /\ call'.got = <<>> /\ call'.status = call.status
                 /\ call.irq => registered
                 /\ \/ call.phase = 2 /\ UNCHANGED <<core, irq>>
                    \/ /\ call.phase = 1 /\ ~core.en /\ core' = Cleared(Enabled(core))
                       /\ irq' = IF registered THEN [irq EXCEPT !.busy = 0] ELSE irq
<1>1. /\ call.op # "none" /\ Elsewhere /\ call \in CallType /\ core \in CoreType
      /\ irq \in IrqType /\ isr \in {"off", "wait"} /\ call.at = "begin" /\ At("begin")
  BY DEF Begin, At, TypesRight, CallSound, Elsewhere
<1>p. call.phase \in {1, 2} /\ (Phase.restart <=> call.phase = 2)
  BY <1>1, PhaseFacts, FieldTypes
<1>2. ASSUME NEW status \in {BAD_ARG, BUSY}, Refuse(status)
      PROVE  /\ TypesRight' /\ SameOp /\ call'.at = "return" /\ call'.got = call.got /\ UNCHANGED <<core, irq>>
             /\ call'.status = status
  <2>1. call' = [call EXCEPT !.at = "return", !.status = status] /\ UNCHANGED <<core, irq>>
    BY <1>2 DEF Refuse
  <2>2. call' \in CallType
    BY <1>1, <2>1 DEF CallType, Retried
  <2>3. SameOp /\ call'.at = "return" /\ call'.got = call.got /\ call'.status = status
    BY <1>1, <2>1 DEF CallType, SameOp
  <2>4. CallSound(call')
    BY <1>1, <2>3, SameOperation DEF TypesRight, CallSound, SameOp
  <2> QED BY <1>1, <2>1, <2>2, <2>3, <2>4, DriverStepTypes DEF Elsewhere
<1>3. ASSUME Accept
      PROVE  /\ TypesRight' /\ SameOp /\ call'.at = "cmd" /\ call'.todo = Commands /\ call'.got = <<>>
             /\ call'.status = call.status
             /\ \/ call.phase = 2 /\ UNCHANGED <<core, irq>>
                \/ /\ call.phase = 1 /\ core' = Cleared(Enabled(core))
                   /\ irq' = IF registered THEN [irq EXCEPT !.busy = 0] ELSE irq
  <2>1. Commands \in Seq(GivenCommand) /\ Commands # <<>> /\ <<>> \in Seq(Nat)
    BY <1>1, CommandsFacts, PhaseFacts
  <2>2. core' \in CoreType /\ core'.bus = core.bus
    <3>1. core' = core \/ core' = Cleared(Enabled(core))
      BY <1>3 DEF Accept
    <3>2. Enabled(core) \in CoreType
      BY <1>1, CoreOperations
    <3> QED BY <1>1, <3>1, <3>2, CoreOperations, BusOfOperations
  <2>3. irq' \in IrqType
    <3>1. irq' = irq \/ irq' = [irq EXCEPT !.busy = 0]
      BY <1>3 DEF Accept
    <3>2. CASE irq' = irq
      BY <1>1, <3>2
    <3>3. CASE irq' = [irq EXCEPT !.busy = 0]
      BY <1>1, <3>3 DEF IrqType
    <3> QED BY <3>1, <3>2, <3>3
  <2>4. call' = [call EXCEPT !.at = "cmd", !.todo = Commands, !.got = <<>>]
    BY <1>3 DEF Accept
  <2>5. call' \in CallType
    BY <1>1, <2>1, <2>4 DEF CallType, AtWork
  <2>6. SameOp /\ call'.at = "cmd" /\ call'.todo = Commands /\ call'.got = <<>> /\ call'.status = call.status
    BY <1>1, <2>4 DEF CallType, SameOp
  <2>7. CallSound(call')
    BY <1>1, <2>1, <2>6, SameOperation DEF TypesRight, CallSound, SameOp
  <2>8. TypesRight'
    BY <1>1, <2>2, <2>3, <2>5, <2>7, DriverStepTypes DEF Elsewhere
  <2>9. CASE Phase.restart
    BY <1>3, <1>p, <2>6, <2>8, <2>9 DEF Accept
  <2>10. CASE ~Phase.restart
    BY <1>3, <1>p, <2>6, <2>8, <2>10 DEF Accept
  <2> QED BY <2>9, <2>10
<1>4. CASE call.irq /\ ~registered
  BY <1>1, <1>2, <1>4 DEF Begin
<1>5. CASE ~(call.irq /\ ~registered) /\ ~Phase.restart /\ core.en
  BY <1>1, <1>2, <1>5, <1>p DEF Begin
<1>6. CASE ~(call.irq /\ ~registered) /\ ~(~Phase.restart /\ core.en)
  <2>1. Accept
    BY <1>6 DEF Begin
  <2> QED BY <1>1, <1>3, <1>6, <1>p, <2>1
<1> QED BY <1>4, <1>5, <1>6

\* Where a transmit or receive goes when it is done.
LEMMA LeaveFacts ==
    ASSUME TypesRight, call.op # "none"
    PROVE  /\ Leave(SUCCESS) = IF FirstOfTwo THEN "return" ELSE IF call.irq THEN "arm" ELSE "wait"
           /\ \A status : status # SUCCESS => Leave(status) = "wait"
  BY PhaseFacts DEF Leave

\* The bits that report a failed transfer.
LEMMA CheckedFacts ==
    /\ Checked \in {SUCCESS, NACK_ERR, ARB_LOST_ERR}
    /\ Checked = SUCCESS <=> ~Failed(core)
  BY DEF Checked, Failed, SUCCESS, NACK_ERR, ARB_LOST_ERR

\* A command is written, or the wait for room runs out.
LEMMA CmdWriteEffect ==
    ASSUME TypesRight, CmdWrite
    PROVE  /\ TypesRight' /\ Elsewhere /\ SameOp /\ irq' = irq /\ At("cmd") /\ call.op # "none"
           /\ call.todo # <<>> /\ call'.got = call.got
           /\ core'.en = core.en /\ core'.cur = core.cur /\ core'.bus = core.bus /\ core'.rx = core.rx
           /\ core'.nack = core.nack /\ core'.arb = core.arb /\ core'.ints = core.ints
           /\ \/ /\ call'.at = "check" /\ call'.todo = Tail(call.todo) /\ call'.status = call.status
                 /\ core'.cmds = IF core.en /\ ~Failed(core) THEN Append(core.cmds, Head(call.todo)) ELSE core.cmds
              \/ call'.at = "wait" /\ call'.status = TIMEOUT /\ core' = core
<1>1. /\ call \in CallType /\ core \in CoreType /\ At("cmd") /\ call.at = "cmd" /\ call.todo # <<>> /\ call.op # "none"
      /\ irq \in IrqType /\ isr \in {"off", "wait"} /\ Elsewhere /\ irq' = irq
      /\ call.todo \in Seq(GivenCommand)
  BY FieldTypes DEF CmdWrite, At, TypesRight, CallSound, Elsewhere
<1>2. Head(call.todo) \in GivenCommand /\ Tail(call.todo) \in Seq(GivenCommand)
  BY <1>1
<1>3. ASSUME TxReady(core), core' = Pushed(core, Head(call.todo)),
             call' = [call EXCEPT !.at = "check", !.todo = Tail(call.todo)]
      PROVE  /\ TypesRight' /\ SameOp /\ call'.got = call.got
             /\ call'.at = "check" /\ call'.todo = Tail(call.todo) /\ call'.status = call.status
             /\ core'.en = core.en /\ core'.cur = core.cur /\ core'.bus = core.bus /\ core'.rx = core.rx
             /\ core'.nack = core.nack /\ core'.arb = core.arb /\ core'.ints = core.ints
             /\ core'.cmds = IF core.en /\ ~Failed(core) THEN Append(core.cmds, Head(call.todo)) ELSE core.cmds
  <2>1. call' \in CallType
    BY <1>1, <1>2, <1>3 DEF CallType, AtWork
  <2>2. /\ SameOp /\ call'.got = call.got
        /\ call'.at = "check" /\ call'.todo = Tail(call.todo) /\ call'.status = call.status
    BY <1>1, <1>3 DEF CallType, SameOp
  <2>3. Len(core.cmds) < FifoDepth
    <3>1. Len(<<>>) = 0 /\ FifoDepth > 0
      BY DepthAssumption
    <3> QED BY <1>3, <3>1 DEF TxReady
  <2>4. /\ core'.en = core.en /\ core'.cur = core.cur /\ core'.bus = core.bus /\ core'.rx = core.rx
        /\ core'.nack = core.nack /\ core'.arb = core.arb /\ core'.ints = core.ints
        /\ core'.cmds = IF core.en /\ ~Failed(core) THEN Append(core.cmds, Head(call.todo)) ELSE core.cmds
    <3> DEFINE cmd == Head(call.todo)
    <3>1. core' = Pushed(core, cmd)
      BY <1>3
    <3> HIDE DEF cmd
    <3>2. core'.cmds = IF core.en /\ ~Failed(core) /\ Len(core.cmds) < FifoDepth THEN Append(core.cmds, cmd) ELSE core.cmds
      BY <1>1, <3>1, PushedFields
    <3>3. /\ core'.en = core.en /\ core'.cur = core.cur /\ core'.bus = core.bus /\ core'.rx = core.rx
          /\ core'.nack = core.nack /\ core'.arb = core.arb /\ core'.ints = core.ints
      BY <1>1, <3>1, PushedFields
    <3> USE DEF cmd
    <3> QED BY <2>3, <3>2, <3>3
  <2>5. core' \in CoreType
    BY <1>1, <1>2, <1>3, CoreOperations
  <2>6. CallSound(call')
    BY <1>1, <2>2, SameOperation DEF SameOp, TypesRight, CallSound
  <2> QED BY <1>1, <2>1, <2>2, <2>4, <2>5, <2>6, DriverStepTypes DEF Elsewhere
<1>4. ASSUME call' = [call EXCEPT !.at = Leave(TIMEOUT), !.status = TIMEOUT], core' = core
      PROVE  /\ TypesRight' /\ SameOp /\ call'.got = call.got /\ call'.at = "wait" /\ call'.status = TIMEOUT
  <2>1. Leave(TIMEOUT) = "wait"
    BY <1>1, LeaveFacts DEF TIMEOUT, SUCCESS
  <2>2. call' \in CallType
    BY <1>1, <1>4, <2>1 DEF CallType
  <2>3. SameOp /\ call'.got = call.got /\ call'.at = "wait" /\ call'.status = TIMEOUT
    BY <1>1, <1>4, <2>1 DEF CallType, SameOp
  <2>4. CallSound(call')
    BY <1>1, <2>3, SameOperation DEF SameOp, TypesRight, CallSound
  <2> QED BY <1>1, <1>4, <2>2, <2>3, <2>4, DriverStepTypes DEF Elsewhere
<1> QED BY <1>1, <1>3, <1>4 DEF CmdWrite

\* The status is looked at; a polled receive fetches what has come.
LEMMA CmdCheckEffect ==
    ASSUME TypesRight, CmdCheck
    PROVE  /\ TypesRight' /\ Elsewhere /\ SameOp /\ irq' = irq /\ At("check") /\ call.op # "none"
           /\ call'.todo = call.todo /\ call'.status = Checked
           /\ \/ Failed(core) /\ call'.at = "wait" /\ call'.got = call.got /\ core' = core
              \/ /\ ~Failed(core) /\ call.todo # <<>> /\ call'.at = "cmd"
                 /\ \/ /\ Receiving /\ ~call.irq
                       /\ call'.got = call.got \o core.rx /\ core' = [core EXCEPT !.rx = <<>>]
                    \/ ~(Receiving /\ ~call.irq) /\ call'.got = call.got /\ core' = core
              \/ /\ ~Failed(core) /\ call.todo = <<>> /\ call'.got = call.got /\ core' = core
                 /\ call'.at = IF Receiving /\ ~call.irq THEN "take"
                                ELSE IF FirstOfTwo THEN "return" ELSE IF call.irq THEN "arm" ELSE "wait"
<1>1. /\ call \in CallType /\ core \in CoreType /\ At("check") /\ call.at = "check" /\ call.op # "none"
      /\ irq \in IrqType /\ isr \in {"off", "wait"} /\ Elsewhere /\ irq' = irq
      /\ call.got \in Seq(Nat) /\ core.rx \in Seq(Nat)
  BY FieldTypes DEF CmdCheck, At, TypesRight, CallSound, Elsewhere
<1> DEFINE more == call.todo # <<>>
           fetches == Receiving /\ ~call.irq /\ Checked = SUCCESS /\ more
           got == IF fetches THEN call.got \o core.rx ELSE call.got
           at == IF Checked # SUCCESS THEN Leave(Checked)
                 ELSE IF more THEN "cmd"
                 ELSE IF Receiving /\ ~call.irq THEN "take" ELSE Leave(SUCCESS)
<1>2. /\ call' = [call EXCEPT !.status = Checked, !.got = got, !.at = at]
      /\ core' = IF fetches THEN [core EXCEPT !.rx = <<>>] ELSE core
  BY DEF CmdCheck
<1>3. got \in Seq(Nat)
  BY <1>1
<1>4. at = IF Checked # SUCCESS THEN "wait"
           ELSE IF more THEN "cmd"
           ELSE IF Receiving /\ ~call.irq THEN "take"
           ELSE IF FirstOfTwo THEN "return" ELSE IF call.irq THEN "arm" ELSE "wait"
  BY <1>1, LeaveFacts
<1>5. at \in {"wait", "cmd", "take", "return", "arm"} /\ (at = "cmd" => more)
  BY <1>4
<1> HIDE DEF got, at, fetches
<1>6. Checked \in Retried \cup {SUCCESS, TIMEOUT, BAD_ARG}
  BY CheckedFacts DEF Retried
<1>7. call' \in CallType
  <2> HIDE DEF Checked
  <2> QED BY <1>1, <1>2, <1>3, <1>5, <1>6 DEF CallType, AtWork
<1>8. SameOp /\ call'.todo = call.todo /\ call'.status = Checked /\ call'.got = got /\ call'.at = at
  BY <1>1, <1>2 DEF CallType, SameOp
<1>9. CallSound(call')
  BY <1>1, <1>5, <1>8, SameOperation DEF SameOp, TypesRight, CallSound
<1>10. core' \in CoreType /\ core'.bus = core.bus
  <2>1. [core EXCEPT !.rx = <<>>] \in CoreType /\ [core EXCEPT !.rx = <<>>].bus = core.bus
    <3>1. <<>> \in Seq(Nat)
      OBVIOUS
    <3> QED BY <1>1, <3>1, CoreOperations, BusOfOperations
  <2> QED BY <1>1, <1>2, <2>1
<1>11. TypesRight'
  BY <1>1, <1>7, <1>9, <1>10, DriverStepTypes DEF Elsewhere
<1> USE DEF got, fetches
<1>12. CASE Failed(core)
  BY <1>1, <1>2, <1>4, <1>8, <1>11, <1>12, CheckedFacts
<1>13. CASE ~Failed(core) /\ more
  BY <1>1, <1>2, <1>4, <1>8, <1>11, <1>13, CheckedFacts
<1>14. CASE ~Failed(core) /\ ~more
  BY <1>1, <1>2, <1>4, <1>8, <1>11, <1>14, CheckedFacts
<1> QED BY <1>12, <1>13, <1>14

\* A byte is taken from the receive FIFO, or the wait for it runs out.
LEMMA RxReadEffect ==
    ASSUME TypesRight, RxRead
    PROVE  /\ TypesRight' /\ Elsewhere /\ SameOp /\ irq' = irq /\ At("take") /\ call.op # "none"
           /\ \E byte \in Nat :
                /\ call'.got = Append(call.got, byte)
                /\ \/ core.rx # <<>> /\ byte = Head(core.rx) /\ core' = [core EXCEPT !.rx = Tail(core.rx)]
                   \/ core.rx = <<>> /\ byte = GARBAGE /\ core' = core
                /\ \/ byte = GARBAGE /\ call'.status = TIMEOUT /\ call'.at = "wait"
                   \/ /\ byte # GARBAGE /\ call'.status = SUCCESS
                      /\ call'.at = IF Len(call.got) + 1 < Phase.size THEN "take"
                                     ELSE IF FirstOfTwo THEN "return" ELSE IF call.irq THEN "arm" ELSE "wait"
<1>1. /\ call \in CallType /\ core \in CoreType /\ At("take") /\ call.at = "take" /\ call.op # "none"
      /\ irq \in IrqType /\ isr \in {"off", "wait"} /\ Elsewhere /\ irq' = irq
      /\ call.got \in Seq(Nat) /\ core.rx \in Seq(Nat)
  BY FieldTypes DEF RxRead, At, TypesRight, CallSound, Elsewhere
<1>2. PICK byte \in Nat :
        /\ call' = Took(byte)
        /\ \/ core.rx # <<>> /\ byte = Head(core.rx) /\ core' = [core EXCEPT !.rx = Tail(core.rx)]
           \/ core.rx = <<>> /\ byte = GARBAGE /\ core' = core
  <2>1. CASE core.rx # <<>> /\ call' = Took(Head(core.rx)) /\ core' = [core EXCEPT !.rx = Tail(core.rx)]
    <3>1. Head(core.rx) \in Nat
      BY <1>1, <2>1
    <3> QED BY <2>1, <3>1
  <2>2. CASE core.rx = <<>> /\ call' = Took(GARBAGE) /\ core' = core
    BY <2>2 DEF GARBAGE
  <2> QED BY <2>1, <2>2 DEF RxRead
<1> DEFINE status == IF byte = GARBAGE THEN TIMEOUT ELSE SUCCESS
           at == IF status = SUCCESS /\ Len(call.got) + 1 < Phase.size THEN "take" ELSE Leave(status)
<1>3. call' = [call EXCEPT !.got = Append(call.got, byte), !.status = status, !.at = at]
  BY <1>2 DEF Took
<1>4. /\ byte = GARBAGE => status = TIMEOUT /\ at = "wait"
      /\ byte # GARBAGE => /\ status = SUCCESS
                            /\ at = IF Len(call.got) + 1 < Phase.size THEN "take"
                                    ELSE IF FirstOfTwo THEN "return" ELSE IF call.irq THEN "arm" ELSE "wait"
  <2>1. TIMEOUT # SUCCESS
    BY DEF TIMEOUT, SUCCESS
  <2> HIDE DEF TIMEOUT, SUCCESS
  <2> QED BY <1>1, <2>1, LeaveFacts
<1>5. at \in {"take", "wait", "return", "arm"} /\ status \in {TIMEOUT, SUCCESS}
  BY <1>4
<1>6. Append(call.got, byte) \in Seq(Nat)
  BY <1>1
<1> HIDE DEF at, status
<1>7. call' \in CallType
  BY <1>1, <1>3, <1>5, <1>6 DEF CallType, AtWork
<1>8. SameOp /\ call'.status = status /\ call'.at = at /\ call'.got = Append(call.got, byte)
  BY <1>1, <1>3 DEF CallType, SameOp
<1>9. CallSound(call')
  BY <1>1, <1>5, <1>8, SameOperation DEF SameOp, TypesRight, CallSound
<1>10. core' \in CoreType /\ core'.bus = core.bus
  <2>1. CASE core' = core
    BY <1>1, <2>1
  <2>2. CASE core.rx # <<>> /\ core' = [core EXCEPT !.rx = Tail(core.rx)]
    <3>1. Tail(core.rx) \in Seq(Nat)
      BY <1>1, <2>2
    <3> QED BY <1>1, <2>2, <3>1, CoreOperations, BusOfOperations
  <2> QED BY <1>2, <2>1, <2>2
<1>11. TypesRight'
  BY <1>1, <1>7, <1>9, <1>10, DriverStepTypes DEF Elsewhere
<1>12. CASE byte = GARBAGE
  BY <1>1, <1>2, <1>4, <1>8, <1>11, <1>12
<1>13. CASE byte # GARBAGE
  BY <1>1, <1>2, <1>4, <1>8, <1>11, <1>13
<1> QED BY <1>12, <1>13

\* The core is switched off after a transmit or receive.
LEMMA WaitIdleEffect ==
    ASSUME TypesRight, WaitIdle
    PROVE  /\ TypesRight' /\ Elsewhere /\ SameOp /\ irq' = irq /\ At("wait") /\ call.op # "none"
           /\ call'.at = "return" /\ call'.got = call.got /\ core' = Disabled(core)
           /\ call'.status = IF core.nack /\ ~call.irq THEN NACK_ERR ELSE IF Busy(core) THEN TIMEOUT ELSE call.status
<1>1. /\ call \in CallType /\ core \in CoreType /\ At("wait") /\ call.at = "wait" /\ call.op # "none"
      /\ irq \in IrqType /\ isr \in {"off", "wait"} /\ Elsewhere /\ irq' = irq /\ core' = Disabled(core)
  BY FieldTypes DEF WaitIdle, At, TypesRight, CallSound, Elsewhere
<1> DEFINE status == IF core.nack /\ ~call.irq THEN NACK_ERR ELSE IF Busy(core) THEN TIMEOUT ELSE call.status
<1>2. call' = [call EXCEPT !.at = "return", !.status = status]
  BY DEF WaitIdle
<1>3. status \in {NACK_ERR, TIMEOUT, call.status}
  OBVIOUS
<1> HIDE DEF status
<1>4. call' \in CallType
  BY <1>1, <1>2, <1>3 DEF CallType, Retried
<1>5. SameOp /\ call'.at = "return" /\ call'.got = call.got /\ call'.status = status
  BY <1>1, <1>2 DEF CallType, SameOp
<1>6. CallSound(call')
  BY <1>1, <1>5, SameOperation DEF SameOp, TypesRight, CallSound
<1>7. core' \in CoreType /\ core'.bus = "free"
  BY <1>1, CoreOperations, BusOfOperations
<1>8. TypesRight'
  BY <1>1, <1>4, <1>6, <1>7, DriverStepTypes DEF Elsewhere
<1> QED BY <1>1, <1>5, <1>8 DEF status

\* The rest is left to the interrupts.
LEMMA ArmEffect ==
    ASSUME TypesRight, Arm
    PROVE  /\ TypesRight' /\ Elsewhere /\ SameOp /\ At("arm") /\ call.op # "none"
           /\ call'.at = "return" /\ call'.got = call.got /\ call'.status = call.status
           /\ core'.en = core.en /\ core'.cmds = core.cmds /\ core'.cur = core.cur /\ core'.bus = core.bus
           /\ core'.rx = core.rx /\ core'.nack = FALSE /\ core'.arb = FALSE
           /\ \/ /\ Receiving /\ core'.ints = core.ints \cup {"rx"}
                 /\ irq' = [busy |-> 2, size |-> Phase.size, got |-> <<>>, want |-> Phase.size]
              \/ ~Receiving /\ core'.ints = core.ints \cup {"tx"} /\ irq' = [irq EXCEPT !.busy = 1]
<1>1. /\ call \in CallType /\ core \in CoreType /\ At("arm") /\ call.at = "arm" /\ call.op # "none"
      /\ irq \in IrqType /\ isr \in {"off", "wait"} /\ Elsewhere /\ call' = [call EXCEPT !.at = "return"]
  BY FieldTypes DEF Arm, At, TypesRight, CallSound, Elsewhere
<1>2. Cleared(core) \in CoreType /\ Phase.size \in Nat /\ core.ints \subseteq {"tx", "rx"} /\ <<>> \in Seq(Nat)
  <2>1. Cleared(core) \in CoreType
    BY <1>1, CoreOperations
  <2>2. Phase.size \in Nat
    BY <1>1, PhaseFacts
  <2>3. core.ints \subseteq {"tx", "rx"}
    BY FieldTypes
  <2>4. <<>> \in Seq(Nat)
    OBVIOUS
  <2> QED BY <2>1, <2>2, <2>3, <2>4
<1>3. call' \in CallType
  BY <1>1 DEF CallType
<1>4. SameOp /\ call'.at = "return" /\ call'.got = call.got /\ call'.status = call.status
  BY <1>1 DEF CallType, SameOp
<1>5. CallSound(call')
  BY <1>1, <1>4, SameOperation DEF SameOp, TypesRight, CallSound
<1> DEFINE c == Cleared(core)
<1>6. /\ c.en = core.en /\ c.cmds = core.cmds /\ c.cur = core.cur /\ c.bus = core.bus /\ c.rx = core.rx
      /\ c.nack = FALSE /\ c.arb = FALSE /\ c.ints = core.ints
  BY <1>1, OperationFields
<1>7. CASE Receiving
  <2>1. /\ core' = [c EXCEPT !.rxthd = "one", !.ints = core.ints \cup {"rx"}]
        /\ irq' = [busy |-> 2, size |-> Phase.size, got |-> <<>>, want |-> Phase.size]
    BY <1>6, <1>7 DEF Arm
  <2> HIDE DEF c
  <2>2. c \in CoreType
    BY <1>2 DEF c
  <2>3. core' \in CoreType
    BY <1>2, <2>1, <2>2 DEF CoreType
  <2>4. /\ core'.en = core.en /\ core'.cmds = core.cmds /\ core'.cur = core.cur /\ core'.bus = core.bus
        /\ core'.rx = core.rx /\ core'.nack = FALSE /\ core'.arb = FALSE /\ core'.ints = core.ints \cup {"rx"}
    BY <1>6, <2>1, <2>2 DEF CoreType
  <2>5. irq' \in IrqType
    BY <1>2, <2>1 DEF IrqType
  <2>6. TypesRight'
    BY <1>1, <1>3, <1>5, <2>3, <2>4, <2>5, DriverStepTypes DEF Elsewhere
  <2> QED BY <1>1, <1>4, <1>7, <2>1, <2>4, <2>6
<1>8. CASE ~Receiving
  <2>1. /\ core' = [c EXCEPT !.cmdthd = "empty", !.ints = core.ints \cup {"tx"}]
        /\ irq' = [irq EXCEPT !.busy = 1]
    BY <1>6, <1>8 DEF Arm
  <2> HIDE DEF c
  <2>2. c \in CoreType
    BY <1>2 DEF c
  <2>3. core' \in CoreType
    BY <1>2, <2>1, <2>2 DEF CoreType
  <2>4. /\ core'.en = core.en /\ core'.cmds = core.cmds /\ core'.cur = core.cur /\ core'.bus = core.bus
        /\ core'.rx = core.rx /\ core'.nack = FALSE /\ core'.arb = FALSE /\ core'.ints = core.ints \cup {"tx"}
    BY <1>6, <2>1, <2>2 DEF CoreType
  <2>5. irq' \in IrqType
    BY <1>1, <2>1 DEF IrqType
  <2>6. TypesRight'
    BY <1>1, <1>3, <1>5, <2>3, <2>4, <2>5, DriverStepTypes DEF Elsewhere
  <2> QED BY <1>1, <1>4, <1>8, <2>1, <2>4, <2>6
<1> QED BY <1>7, <1>8

\* A transmit or receive has ended: it is tried again, the second one follows, or the
\* call returns.
LEMMA ReturnEffect ==
    ASSUME TypesRight, Return
    PROVE  /\ TypesRight' /\ UNCHANGED <<core, irq>> /\ Elsewhere /\ At("return") /\ call.op # "none"
           /\ call'.op = call.op /\ call'.irq = call.irq /\ call'.tx = call.tx /\ call'.rx = call.rx
           /\ call'.got = call.got /\ call'.status = call.status
           /\ \/ call.status \in Retried /\ call'.at = "begin" /\ call'.phase = 1
              \/ call.status \notin Retried /\ FirstOfTwo /\ call'.at = "begin" /\ call'.phase = 2
              \/ /\ call.status \in Retried \/ ~FirstOfTwo
                 /\ call'.at = "idle" /\ call'.phase = call.phase
<1>1. /\ call \in CallType /\ core \in CoreType /\ At("return") /\ call.at = "return" /\ call.op # "none"
      /\ irq \in IrqType /\ isr \in {"off", "wait"} /\ Elsewhere /\ UNCHANGED <<core, irq>>
      /\ call.phase \in {1, 2} /\ call.retry \in Nat
  BY FieldTypes DEF Return, At, TypesRight, CallSound, Elsewhere
<1>2. Len(Phases) = IF call.op = "tx_rx" THEN 2 ELSE 1
  BY <1>1, PhaseFacts
<1>3. ASSUME CallSound(call'), call' \in CallType
      PROVE  TypesRight'
  BY <1>1, <1>3, DriverStepTypes DEF Elsewhere
<1>4. CASE call.status \in Retried /\ call.retry > 0
  <2>1. call' = [call EXCEPT !.at = "begin", !.phase = 1, !.retry = call.retry - 1]
    BY <1>4 DEF Return
  <2>2. call.retry - 1 \in Nat
    BY <1>1, <1>4
  <2>3. call' \in CallType
    BY <1>1, <2>1, <2>2 DEF CallType
  <2>4. /\ call'.op = call.op /\ call'.irq = call.irq /\ call'.tx = call.tx /\ call'.rx = call.rx
        /\ call'.got = call.got /\ call'.status = call.status /\ call'.at = "begin" /\ call'.phase = 1
    BY <1>1, <2>1 DEF CallType
  <2>5. CallSound(call')
    BY <1>1, <2>4, SameOperation
  <2> QED BY <1>1, <1>3, <1>4, <2>3, <2>4, <2>5
<1>5. CASE call.status \notin Retried /\ call.phase < Len(Phases)
  <2>1. call' = [call EXCEPT !.at = "begin", !.phase = call.phase + 1]
    BY <1>5 DEF Return
  <2>2. FirstOfTwo
    BY <1>1, <1>2, <1>5 DEF FirstOfTwo
  <2>3. call' = [call EXCEPT !.at = "begin", !.phase = 2]
    BY <2>1, <2>2 DEF FirstOfTwo
  <2>4. call' \in CallType
    BY <1>1, <2>3 DEF CallType
  <2>5. /\ call'.op = call.op /\ call'.irq = call.irq /\ call'.tx = call.tx /\ call'.rx = call.rx
        /\ call'.got = call.got /\ call'.status = call.status /\ call'.at = "begin" /\ call'.phase = 2
    BY <1>1, <2>3 DEF CallType
  <2>6. CallSound(call')
    BY <1>1, <2>2, <2>5, SameOperation DEF FirstOfTwo
  <2> QED BY <1>1, <1>3, <1>5, <2>2, <2>4, <2>5, <2>6
<1>6. CASE ~(call.status \in Retried /\ call.retry > 0) /\ ~(call.status \notin Retried /\ call.phase < Len(Phases))
  <2>1. call' = [call EXCEPT !.at = "idle"]
    BY <1>6 DEF Return
  <2>2. call.status \in Retried \/ ~FirstOfTwo
    BY <1>1, <1>2, <1>6 DEF FirstOfTwo
  <2>3. call' \in CallType
    BY <1>1, <2>1 DEF CallType
  <2>4. /\ call'.op = call.op /\ call'.irq = call.irq /\ call'.tx = call.tx /\ call'.rx = call.rx
        /\ call'.got = call.got /\ call'.status = call.status /\ call'.at = "idle" /\ call'.phase = call.phase
    BY <1>1, <2>1 DEF CallType
  <2>5. CallSound(call')
    BY <1>1, <2>4, SameOperation DEF TypesRight, CallSound
  <2> QED BY <1>1, <1>3, <1>6, <2>2, <2>3, <2>4, <2>5
<1> QED BY <1>4, <1>5, <1>6

\* A query leaves the bits and the call alone, or finds that the transaction has failed.
LEMMA QueryEffect ==
    ASSUME TypesRight, Query
    PROVE  /\ TypesRight' /\ Elsewhere /\ SameOp /\ irq' = irq /\ At("idle") /\ registered
           /\ call'.got = call.got /\ call'.status = call.status
           /\ core' = core \/ core' = [core EXCEPT !.ints = {}]
           /\ \/ /\ call'.at = "abort" /\ core.nack /\ irq.busy # 0 /\ core' = [core EXCEPT !.ints = {}]
              \/ call'.at = "idle"
<1>1. /\ call \in CallType /\ core \in CoreType /\ At("idle") /\ call.at = "idle" /\ registered
      /\ irq \in IrqType /\ isr \in {"off", "wait"} /\ Elsewhere /\ irq' = irq
  BY FieldTypes DEF Query, At, TypesRight, Elsewhere
<1>2. /\ core' = core \/ core' = [core EXCEPT !.ints = {}]
      /\ core.nack => core' = [core EXCEPT !.ints = {}]
  BY DEF Query
<1>3. core' \in CoreType /\ core'.bus = core.bus
  <2>1. {} \in SUBSET {"tx", "rx"} /\ core \in CoreType
    BY <1>1
  <2>2. [core EXCEPT !.ints = {}] \in CoreType
    BY <2>1, CoreOperations
  <2>3. [core EXCEPT !.ints = {}].bus = core.bus
    BY <2>1, BusOfOperations
  <2> QED BY <1>2, <2>1, <2>2, <2>3
<1>4. /\ call' \in CallType /\ SameOp /\ call'.got = call.got /\ call'.status = call.status
      /\ call'.todo = call.todo
      /\ \/ call'.at = "abort" /\ core.nack /\ irq.busy # 0
         \/ call'.at = "idle"
  <2>1. CASE core.nack /\ irq.busy # 0
    <3>1. call' = [call EXCEPT !.at = "abort"]
      BY <2>1 DEF Query
    <3> QED BY <1>1, <2>1, <3>1 DEF CallType, SameOp
  <2>2. CASE ~(core.nack /\ irq.busy # 0)
    <3> DEFINE answer == IF core.nack THEN NACK_ERR ELSE IF irq.busy # 0 THEN BUSY ELSE SUCCESS
    <3>1. call' = [call EXCEPT !.answer = answer]
      BY <2>2 DEF Query
    <3>2. answer \in {NACK_ERR, BUSY, SUCCESS}
      OBVIOUS
    <3> HIDE DEF answer
    <3>3. call' \in CallType
      BY <1>1, <3>1, <3>2 DEF CallType
    <3>4. /\ SameOp /\ call'.got = call.got /\ call'.status = call.status /\ call'.at = "idle"
          /\ call'.todo = call.todo
      BY <1>1, <3>1 DEF CallType, SameOp
    <3> QED BY <3>3, <3>4
  <2> QED BY <2>1, <2>2
<1>5. CallSound(call')
  BY <1>1, <1>4 DEF SameOp, TypesRight, CallSound
<1>6. TypesRight'
  BY <1>1, <1>3, <1>4, <1>5, DriverStepTypes DEF Elsewhere
<1> QED BY <1>1, <1>2, <1>4, <1>6

\* The query ends a transaction that has failed.
LEMMA QueryAbortEffect ==
    ASSUME TypesRight, QueryAbort
    PROVE  /\ TypesRight' /\ Elsewhere /\ SameOp /\ At("abort")
           /\ call'.got = call.got /\ call'.status = call.status /\ call'.at = "idle"
           /\ core' = Disabled(core)
           /\ irq'.busy = 0 /\ irq'.got = irq.got \o core.rx /\ irq'.want = irq.want /\ irq'.size = irq.size
<1>1. /\ call \in CallType /\ core \in CoreType /\ At("abort") /\ call.at = "abort"
      /\ irq \in IrqType /\ isr \in {"off", "wait"} /\ Elsewhere /\ core' = Disabled(core)
      /\ irq.got \o core.rx \in Seq(Nat)
  BY FieldTypes DEF QueryAbort, At, TypesRight, Elsewhere
<1> DEFINE got == irq.got \o core.rx
           answer == IF Busy(core) THEN TIMEOUT ELSE NACK_ERR
<1>2. /\ call' = [call EXCEPT !.at = "idle", !.answer = answer]
      /\ irq' = [irq EXCEPT !.busy = 0, !.got = got]
  BY DEF QueryAbort
<1>3. answer \in {TIMEOUT, NACK_ERR} /\ got \in Seq(Nat)
  BY <1>1
<1> HIDE DEF answer, got
<1>4. call' \in CallType
  BY <1>1, <1>2, <1>3 DEF CallType
<1>5. /\ SameOp /\ call'.got = call.got /\ call'.status = call.status /\ call'.at = "idle"
      /\ call'.todo = call.todo
  BY <1>1, <1>2 DEF CallType, SameOp
<1>6. CallSound(call')
  BY <1>1, <1>5 DEF SameOp, TypesRight, CallSound
<1>7. irq' \in IrqType
  <2>1. irq \in IrqType /\ got \in Seq(Nat) /\ 0 \in 0..2
    BY <1>1, <1>3
  <2> QED BY <1>2, <2>1 DEF IrqType
<1>8. irq'.busy = 0 /\ irq'.got = got /\ irq'.want = irq.want /\ irq'.size = irq.size
  BY <1>1, <1>2 DEF IrqType
<1>9. core' \in CoreType /\ core'.bus = "free"
  BY <1>1, CoreOperations, BusOfOperations
<1>10. TypesRight'
  BY <1>1, <1>4, <1>6, <1>7, <1>9, DriverStepTypes DEF Elsewhere
<1> QED BY <1>1, <1>5, <1>8, <1>10 DEF got

\* The interrupt routine stores bytes or waits for the core.
LEMMA IsrEnterEffect ==
    ASSUME TypesRight, IsrEnter
    PROVE  /\ TypesRight' /\ isr = "off" /\ Interrupting(core) /\ UNCHANGED <<call, target, registered>>
           /\ core'.en = core.en /\ core'.cmds = core.cmds /\ core'.cur = core.cur /\ core'.bus = core.bus
           /\ core'.nack = FALSE /\ core'.arb = FALSE
           /\ \/ irq.busy # 2 /\ irq' = irq /\ core'.ints = {} /\ core'.rx = core.rx /\ isr' = "wait"
              \/ /\ irq.busy = 2 /\ irq'.busy = 2 /\ irq'.want = irq.want
                 /\ \E n \in Nat : /\ n <= irq.size /\ n <= Len(core.rx)
                                   /\ irq'.size = irq.size - n
                                   /\ irq'.got = irq.got \o SubSeq(core.rx, 1, n)
                                   /\ core'.rx = SubSeq(core.rx, n + 1, Len(core.rx))
                 /\ \/ core'.ints = {"rx"} /\ isr' = "off"
                    \/ core'.ints = {} /\ isr' = "wait"
<1>1. /\ call \in CallType /\ core \in CoreType /\ irq \in IrqType /\ isr = "off" /\ Interrupting(core)
      /\ irq.size \in Nat /\ core.rx \in Seq(Nat) /\ irq.got \in Seq(Nat)
      /\ UNCHANGED <<call, target, registered>>
  BY FieldTypes DEF IsrEnter
<1> DEFINE c == Cleared(core)
<1>2. /\ c.en = core.en /\ c.cmds = core.cmds /\ c.cur = core.cur /\ c.bus = core.bus /\ c.rx = core.rx
      /\ c.nack = FALSE /\ c.arb = FALSE
  BY <1>1, OperationFields
<1>3. c \in CoreType
  BY <1>1, CoreOperations
<1>4. CallSound(call')
  BY <1>1 DEF TypesRight
<1>5. CASE irq.busy = 2
  <2> DEFINE n == Min({irq.size, Len(core.rx)})
  <2>1. n \in Nat /\ n <= irq.size /\ n <= Len(core.rx)
    <3>1. irq.size \in Nat /\ Len(core.rx) \in Nat
      BY <1>1, LenProperties
    <3>2. irq.size \in Int /\ Len(core.rx) \in Int
      BY <3>1
    <3>3. n \in {irq.size, Len(core.rx)} /\ n <= irq.size /\ n <= Len(core.rx)
      BY <3>2, MinOfTwo, Zenon
    <3> QED BY <3>1, <3>3
  <2> DEFINE got == irq.got \o SubSeq(core.rx, 1, n)
             left == SubSeq(core.rx, n + 1, Len(core.rx))
             ints == IF irq.size > n THEN {"rx"} ELSE {}
  <2>2. /\ irq' = [irq EXCEPT !.size = irq.size - n, !.got = got]
        /\ core' = [c EXCEPT !.rx = left, !.ints = ints]
        /\ isr' = IF irq.size > n THEN "off" ELSE "wait"
    BY <1>2, <1>5 DEF IsrEnter, IsrReceive
  <2> HIDE DEF n
  <2>3. SubSeq(core.rx, 1, n) \in Seq(Nat) /\ left \in Seq(Nat)
    BY <1>1, <2>1, SubSeqProperties
  <2>4. got \in Seq(Nat) /\ irq.size - n \in Nat /\ ints \in SUBSET {"tx", "rx"} /\ isr' \in {"off", "wait"}
    BY <1>1, <2>1, <2>2, <2>3
  <2>5. \/ ints = {"rx"} /\ isr' = "off"
        \/ ints = {} /\ isr' = "wait"
    BY <2>2
  <2> HIDE DEF got, left, ints, c
  <2>6. irq' \in IrqType
    BY <1>1, <2>2, <2>4 DEF IrqType
  <2>7. irq'.busy = 2 /\ irq'.want = irq.want /\ irq'.size = irq.size - n /\ irq'.got = got
    BY <1>1, <1>5, <2>2 DEF IrqType
  <2>8. core' \in CoreType
    BY <1>3, <2>2, <2>3, <2>4 DEF CoreType
  <2>9. /\ core'.en = core.en /\ core'.cmds = core.cmds /\ core'.cur = core.cur /\ core'.bus = core.bus
        /\ core'.nack = FALSE /\ core'.arb = FALSE /\ core'.ints = ints /\ core'.rx = left
    BY <1>2, <1>3, <2>2 DEF CoreType
  <2>10. TypesRight'
    BY <1>1, <1>4, <2>4, <2>6, <2>8, <2>9, DriverStepTypes
  <2> QED BY <1>1, <1>5, <2>1, <2>5, <2>7, <2>9, <2>10 DEF got, left
<1>6. CASE irq.busy # 2
  <2>1. core' = [c EXCEPT !.ints = {}] /\ isr' = "wait" /\ irq' = irq
    BY <1>6 DEF IsrEnter
  <2> HIDE DEF c
  <2>2. {} \in SUBSET {"tx", "rx"}
    OBVIOUS
  <2>3. core' \in CoreType
    BY <1>3, <2>1, <2>2, CoreOperations
  <2>4. /\ core'.en = core.en /\ core'.cmds = core.cmds /\ core'.cur = core.cur /\ core'.bus = core.bus
        /\ core'.nack = FALSE /\ core'.arb = FALSE /\ core'.ints = {} /\ core'.rx = core.rx
    BY <1>2, <1>3, <2>1 DEF CoreType
  <2>5. TypesRight'
    BY <1>1, <1>4, <2>1, <2>3, <2>4, DriverStepTypes
  <2> QED BY <1>1, <1>6, <2>1, <2>4, <2>5
<1> QED BY <1>5, <1>6

\* The interrupt routine switches the core off.
LEMMA IsrWaitEffect ==
    ASSUME TypesRight, IsrWait
    PROVE  /\ TypesRight' /\ isr = "wait" /\ isr' = "off" /\ UNCHANGED <<call, target, registered>>
           /\ core' = Disabled(core)
           /\ irq'.busy = 0 /\ irq'.got = irq.got /\ irq'.want = irq.want /\ irq'.size = irq.size
<1>1. /\ call \in CallType /\ core \in CoreType /\ irq \in IrqType /\ isr = "wait" /\ isr' = "off"
      /\ UNCHANGED <<call, target, registered>>
      /\ core' = Disabled(core) /\ irq' = [irq EXCEPT !.busy = 0]
  BY FieldTypes DEF IsrWait
<1>2. irq' \in IrqType
  BY <1>1 DEF IrqType
<1>3. irq'.busy = 0 /\ irq'.got = irq.got /\ irq'.want = irq.want /\ irq'.size = irq.size
  BY <1>1 DEF IrqType
<1>4. core' \in CoreType /\ core'.bus = "free"
  BY <1>1, CoreOperations, BusOfOperations
<1>5. CallSound(call')
  BY <1>1 DEF TypesRight
<1>6. TypesRight'
  BY <1>1, <1>2, <1>4, <1>5, DriverStepTypes
<1> QED BY <1>1, <1>3, <1>6

\* A step of the core: a command goes on the bus, its byte goes through, or it fails.
Fetched ==
    /\ core.en /\ ~Failed(core) /\ core.cur = Nothing /\ core.cmds # <<>>
    /\ core'.cur = Head(core.cmds) /\ core'.cmds = Tail(core.cmds)
    /\ core'.bus = core.bus /\ core'.rx = core.rx /\ core'.nack = core.nack /\ core'.arb = core.arb
    /\ target' = target
Started ==
    /\ core.cur # Nothing /\ Starts /\ core.cur.byte \in {WriteAddress, ReadAddress}
    /\ core'.cur = Nothing /\ core'.cmds = core.cmds /\ core'.rx = core.rx
    /\ core'.nack = core.nack /\ core'.arb = core.arb
    /\ core'.bus = IF core.cur.sto THEN "free" ELSE IF core.cur.byte = ReadAddress THEN "read" ELSE "write"
    /\ target'.msgs = Append(IF core.bus = "free" THEN <<>> ELSE target.msgs, <<core.cur.byte>>)
    /\ target'.sent = 0
Written ==
    /\ core.cur # Nothing /\ ~Starts /\ core.bus = "write"
    /\ core'.cur = Nothing /\ core'.cmds = core.cmds /\ core'.rx = core.rx
    /\ core'.nack = core.nack /\ core'.arb = core.arb
    /\ core'.bus = IF core.cur.sto THEN "free" ELSE "write"
    /\ target'.msgs = [target.msgs EXCEPT ![Len(target.msgs)] = Append(@, core.cur.byte)]
    /\ target'.sent = target.sent
Arrived ==
    /\ core.cur # Nothing /\ ~Starts /\ core.bus = "read"
    /\ core'.cur = Nothing /\ core'.cmds = core.cmds
    /\ core'.nack = core.nack /\ core'.arb = core.arb
    /\ core'.bus = IF core.cur.sto THEN "free" ELSE "read"
    /\ core'.rx = Append(core.rx, target.sent + 1) \/ core'.rx = core.rx
    /\ target'.msgs = target.msgs /\ target'.sent = target.sent + 1
FellThrough ==
    /\ core.cur # Nothing
    /\ core'.cur = Nothing /\ core'.cmds = <<>> /\ core'.bus = "free" /\ core'.rx = core.rx /\ Failed(core')
    /\ \/ core'.arb = core.arb /\ core'.nack = TRUE
       \/ core'.nack = core.nack /\ core'.arb = TRUE
    /\ target' = target \/ (core.bus = "free" /\ target'.sent = 0)

\* A step of the core is one of these, and keeps the types.
LEMMA CoreEffect ==
    ASSUME TypesRight, Core
    PROVE  /\ TypesRight' /\ UNCHANGED <<call, irq, isr, registered>>
           /\ core'.en = core.en /\ core'.ints = core.ints
           /\ Fetched \/ Started \/ Written \/ Arrived \/ FellThrough
<1>1. core \in CoreType /\ target \in [msgs : Seq(Seq(Nat)), sent : Nat] /\ core.bus \in {"free", "write", "read"}
  BY FieldTypes DEF TypesRight
<1>2. TypesRight' /\ UNCHANGED <<call, irq, isr, registered>>
  BY BusTypes DEF Core, driver
<1>3. CASE Fetch
  <2>1. core' = [core EXCEPT !.cur = Head(core.cmds), !.cmds = Tail(core.cmds)]
    BY <1>3 DEF Fetch
  <2>2. /\ core'.en = core.en /\ core'.ints = core.ints
        /\ core'.cur = Head(core.cmds) /\ core'.cmds = Tail(core.cmds)
        /\ core'.bus = core.bus /\ core'.rx = core.rx /\ core'.nack = core.nack /\ core'.arb = core.arb
    BY <1>1, <2>1 DEF CoreType
  <2> QED BY <1>2, <1>3, <2>2 DEF Fetch, Fetched
<1>4. CASE StartAcked
  <2> DEFINE bus == IF core.cur.sto THEN "free" ELSE IF core.cur.byte = ReadAddress THEN "read" ELSE "write"
             msgs == Append(IF core.bus = "free" THEN <<>> ELSE target.msgs, <<core.cur.byte>>)
  <2>1. core' = [core EXCEPT !.cur = Nothing, !.bus = bus] /\ target' = [msgs |-> msgs, sent |-> 0]
    BY <1>4 DEF StartAcked
  <2> HIDE DEF bus, msgs
  <2>2. /\ core'.en = core.en /\ core'.ints = core.ints
        /\ core'.cur = Nothing /\ core'.cmds = core.cmds
        /\ core'.bus = bus /\ core'.rx = core.rx /\ core'.nack = core.nack /\ core'.arb = core.arb
    BY <1>1, <2>1 DEF CoreType
  <2>3. target'.msgs = msgs /\ target'.sent = 0
    BY <2>1
  <2> QED BY <1>2, <1>4, <2>2, <2>3 DEF StartAcked, Started, bus, msgs
<1>5. CASE WriteAcked
  <2> DEFINE bus == IF core.cur.sto THEN "free" ELSE core.bus
             msgs == [target.msgs EXCEPT ![Len(target.msgs)] = Append(@, core.cur.byte)]
  <2>1. core' = [core EXCEPT !.cur = Nothing, !.bus = bus] /\ target' = [target EXCEPT !.msgs = msgs]
    BY <1>5 DEF WriteAcked
  <2> HIDE DEF bus, msgs
  <2>2. /\ core'.en = core.en /\ core'.ints = core.ints
        /\ core'.cur = Nothing /\ core'.cmds = core.cmds
        /\ core'.bus = bus /\ core'.rx = core.rx /\ core'.nack = core.nack /\ core'.arb = core.arb
    BY <1>1, <2>1 DEF CoreType
  <2>3. target'.msgs = msgs /\ target'.sent = target.sent
    BY <1>1, <2>1
  <2> QED BY <1>2, <1>5, <2>2, <2>3 DEF WriteAcked, Written, bus, msgs
<1>6. CASE ByteRead
  <2> DEFINE bus == IF core.cur.sto THEN "free" ELSE core.bus
             rx == IF Len(core.rx) < FifoDepth THEN Append(core.rx, target'.sent) ELSE core.rx
  <2>1. core' = [core EXCEPT !.cur = Nothing, !.bus = bus, !.rx = rx]
        /\ target' = [target EXCEPT !.sent = target.sent + 1]
    BY <1>6 DEF ByteRead
  <2>2. target'.msgs = target.msgs /\ target'.sent = target.sent + 1
    BY <1>1, <2>1
  <2>3. rx = Append(core.rx, target.sent + 1) \/ rx = core.rx
    BY <2>2
  <2> HIDE DEF bus, rx
  <2>4. /\ core'.en = core.en /\ core'.ints = core.ints
        /\ core'.cur = Nothing /\ core'.cmds = core.cmds
        /\ core'.bus = bus /\ core'.rx = rx /\ core'.nack = core.nack /\ core'.arb = core.arb
    BY <1>1, <2>1 DEF CoreType
  <2> QED BY <1>2, <1>6, <2>2, <2>3, <2>4 DEF ByteRead, Arrived, bus
<1>7. CASE TransferFails
  <2>1. CASE core' = [core EXCEPT !.nack = TRUE, !.cur = Nothing, !.cmds = <<>>, !.bus = "free"]
    <3>1. /\ core'.en = core.en /\ core'.ints = core.ints
          /\ core'.cur = Nothing /\ core'.cmds = <<>>
          /\ core'.bus = "free" /\ core'.rx = core.rx /\ core'.nack = TRUE /\ core'.arb = core.arb
      BY <1>1, <2>1 DEF CoreType
    <3>2. FellThrough
      BY <1>7, <3>1 DEF TransferFails, FellThrough, Failed
    <3> QED BY <1>2, <3>1, <3>2
  <2>2. CASE core' = [core EXCEPT !.arb = TRUE, !.cur = Nothing, !.cmds = <<>>, !.bus = "free"]
    <3>1. /\ core'.en = core.en /\ core'.ints = core.ints
          /\ core'.cur = Nothing /\ core'.cmds = <<>>
          /\ core'.bus = "free" /\ core'.rx = core.rx /\ core'.nack = core.nack /\ core'.arb = TRUE
      BY <1>1, <2>2 DEF CoreType
    <3>2. FellThrough
      BY <1>7, <3>1 DEF TransferFails, FellThrough, Failed
    <3> QED BY <1>2, <3>1, <3>2
  <2> QED BY <1>7, <2>1, <2>2 DEF TransferFails
<1> QED BY <1>3, <1>4, <1>5, <1>6, <1>7 DEF Core, TransferGoesOn

-----------------------------------------------------------------------------
(* Who is responsible for the core while it is on *)

\* A core that is off or has failed has nothing to do.
CoreQuiet ==
    /\ ~core.en => core.cmds = <<>> /\ core.cur = Nothing /\ core.bus = "free" /\ core.rx = <<>>
    /\ Failed(core) => core.cmds = <<>> /\ core.cur = Nothing /\ core.bus = "free"

\* The phase at work is a receive.
Reads == call.op = "rx" \/ call.phase = 2

\* What holds at the program's labels.  While a transmit or receive is at work no
\* interrupt is; armed interrupts have their handler.
Labels ==
    /\ call.at \in AtWork \cup {"wait"} => (call.irq => registered) /\ irq.busy = 0
    /\ call.at = "begin" /\ call.phase = 2 => irq.busy = 0
    /\ call.at = "return" /\ FirstOfTwo /\ call.status \notin Retried => irq.busy = 0
    /\ call.at = "arm" => call.irq /\ ~FirstOfTwo /\ call.status = SUCCESS
    /\ call.at = "take" => Reads /\ ~call.irq
    /\ call.at = "abort" => core.ints = {} /\ isr = "off" /\ irq.busy # 0
    /\ irq.busy # 0 => registered
    /\ call.at = "wait" /\ call.status = SUCCESS => ~FirstOfTwo /\ ~call.irq
    /\ call.at \in {"idle", "abort"} /\ FirstOfTwo => call.status \in Retried

\* The core is on for an armed interrupt, for the interrupt routine, for a call at work
\* on it, or between the transmit and the receive of one operation.
EnabledBy ==
    core.en => \/ irq.busy # 0 \/ isr = "wait"
               \/ call.at \in AtWork \cup {"wait", "abort"}
               \/ call.at = "return" /\ FirstOfTwo /\ call.status = SUCCESS /\ (call.irq => registered)
               \/ call.at = "begin" /\ call.phase = 2 /\ (call.irq => registered)

Control == TypesRight /\ CoreQuiet /\ Labels /\ EnabledBy

\* Initially.
LEMMA InitControl == Init => Control
<1> SUFFICES ASSUME Init PROVE CoreQuiet /\ Labels /\ EnabledBy
  BY InitTypes DEF Control
<1>1. /\ core.en = FALSE /\ core.cmds = <<>> /\ core.cur = Nothing /\ core.bus = "free" /\ core.rx = <<>>
      /\ call.at = "idle" /\ call.op = "none" /\ irq.busy = 0
  BY DEF Init, CoreInit, CoreReset
<1> QED BY <1>1 DEF CoreQuiet, Labels, EnabledBy, AtWork, FirstOfTwo

\* A step of the core.
LEMMA CoreControl == Control /\ Core => Control'
<1> SUFFICES ASSUME Control, Core PROVE Control'
  OBVIOUS
<1>1. /\ TypesRight' /\ UNCHANGED <<call, irq, isr, registered>>
      /\ core'.en = core.en /\ core'.ints = core.ints
      /\ Fetched \/ Started \/ Written \/ Arrived \/ FellThrough
  BY CoreEffect DEF Control
<1>2. core.en /\ ~Failed(core)
  BY <1>1 DEF Control, CoreQuiet, Fetched, Started, Written, Arrived, FellThrough
<1>3. CoreQuiet'
  <2>1. CASE FellThrough
    BY <1>1, <1>2, <2>1 DEF CoreQuiet, FellThrough
  <2>2. CASE Fetched \/ Started \/ Written \/ Arrived
    <3>1. core'.nack = core.nack /\ core'.arb = core.arb
      BY <2>2 DEF Fetched, Started, Written, Arrived
    <3> QED BY <1>1, <1>2, <3>1 DEF CoreQuiet, Failed
  <2> QED BY <1>1, <2>1, <2>2
<1>4. Labels'
  BY <1>1 DEF Control, Labels, FirstOfTwo, Reads
<1>5. EnabledBy'
  BY <1>1 DEF Control, EnabledBy, FirstOfTwo
<1> QED BY <1>1, <1>3, <1>4, <1>5 DEF Control

\* The beginning of a call.
LEMMA StartControl ==
    ASSUME Control, NEW op \in {"tx", "rx", "tx_rx"}, NEW use_interrupts \in BOOLEAN, NEW tx \in Nat, NEW rx \in Nat,
           op = "tx" => rx = 0 /\ tx > 0, op = "rx" => tx = 0 /\ rx > 0, op = "tx_rx" => tx > 0 /\ rx > 0,
           Start(op, use_interrupts, tx, rx)
    PROVE  Control'
<1>1. /\ TypesRight' /\ call.at = "idle" /\ isr = "off"
      /\ call'.at = "begin" /\ call'.phase = 1
      /\ UNCHANGED <<core, target, irq, isr, registered>>
  BY StartEffect DEF At, Control
<1>2. CoreQuiet' /\ Labels' /\ EnabledBy'
  BY <1>1 DEF Control, CoreQuiet, Labels, EnabledBy, AtWork, FirstOfTwo, Failed
<1> QED BY <1>1, <1>2 DEF Control

\* The first step of a transmit or receive.
LEMMA BeginControl == Control /\ Begin => Control'
<1> SUFFICES ASSUME Control, Begin PROVE Control'
  OBVIOUS
<1>1. /\ TypesRight' /\ isr' = isr /\ registered' = registered /\ SameOp /\ call.at = "begin" /\ isr = "off"
      /\ core \in CoreType /\ irq \in IrqType /\ call.phase \in {1, 2}
      /\ \/ /\ call'.at = "return" /\ UNCHANGED <<core, irq>>
            /\ \/ call.irq /\ ~registered /\ call'.status = BAD_ARG
               \/ call.phase = 1 /\ core.en /\ call'.status = BUSY
         \/ /\ call'.at = "cmd" /\ (call.irq => registered)
            /\ \/ call.phase = 2 /\ UNCHANGED <<core, irq>>
               \/ /\ call.phase = 1 /\ ~core.en /\ core' = Cleared(Enabled(core))
                  /\ irq' = IF registered THEN [irq EXCEPT !.busy = 0] ELSE irq
  BY BeginEffect, FieldTypes DEF Control, Elsewhere, At
<1>2. CASE call'.at = "return" /\ UNCHANGED <<core, irq>>
  <2>1. irq.busy # 0 \/ ~core.en \/ ~(call.irq /\ ~registered)
    BY <1>1, <1>2 DEF Control, EnabledBy, AtWork
  <2>2. call'.status = BUSY /\ core.en => irq.busy # 0 \/ call.phase = 2
    BY <1>1, <1>2 DEF Control, EnabledBy, AtWork
  <2>3. BUSY # BAD_ARG /\ BUSY \in Retried
    BY DEF BUSY, BAD_ARG, Retried
  <2>4. CoreQuiet' /\ EnabledBy'
    BY <1>1, <1>2, <2>1, <2>2, <2>3 DEF Control, CoreQuiet, EnabledBy, Failed
  <2>5. Labels'
    BY <1>1, <1>2, <2>3 DEF Control, Labels, AtWork, FirstOfTwo
  <2> QED BY <1>1, <2>4, <2>5 DEF Control
<1>3. CASE call'.at = "cmd"
  <2>1. irq'.busy = 0
    BY <1>1, <1>3 DEF Control, Labels, IrqType
  <2>2. Labels' /\ EnabledBy'
    BY <1>1, <1>3, <2>1 DEF Labels, EnabledBy, AtWork, SameOp
  <2>3. CoreQuiet'
    <3>1. CASE core' = core
      BY <3>1 DEF Control, CoreQuiet, Failed
    <3>2. CASE ~core.en /\ core' = Cleared(Enabled(core))
      <4> DEFINE on == Enabled(core)
      <4>1. on \in CoreType /\ on.en = TRUE
        BY <1>1, CoreOperations, OperationFields
      <4>2. core' = Cleared(on)
        BY <3>2
      <4> HIDE DEF on
      <4>3. core'.en = TRUE /\ core'.nack = FALSE /\ core'.arb = FALSE
        BY <4>1, <4>2, OperationFields
      <4> QED BY <4>3 DEF CoreQuiet, Failed
    <3> QED BY <1>1, <1>3, <3>1, <3>2
  <2> QED BY <1>1, <2>2, <2>3 DEF Control
<1> QED BY <1>1, <1>2, <1>3

\* A command written, or the wait for room given up.
LEMMA CmdWriteControl == Control /\ CmdWrite => Control'
<1> SUFFICES ASSUME Control, CmdWrite PROVE Control'
  OBVIOUS
<1>1. /\ TypesRight' /\ isr' = isr /\ registered' = registered /\ irq' = irq /\ SameOp /\ call.at = "cmd" /\ isr = "off"
      /\ core'.en = core.en /\ core'.cur = core.cur /\ core'.bus = core.bus /\ core'.rx = core.rx
      /\ core'.nack = core.nack /\ core'.arb = core.arb
      /\ \/ call'.at = "check" /\ core'.cmds = IF core.en /\ ~Failed(core) THEN Append(core.cmds, Head(call.todo))
                                               ELSE core.cmds
         \/ call'.at = "wait" /\ call'.status = TIMEOUT /\ core' = core
  BY CmdWriteEffect DEF Control, Elsewhere, At
<1>2. CoreQuiet'
  BY <1>1 DEF Control, CoreQuiet, Failed
<1>3. Labels' /\ EnabledBy'
  BY <1>1 DEF Control, Labels, EnabledBy, AtWork, SameOp, TIMEOUT, SUCCESS
<1> QED BY <1>1, <1>2, <1>3 DEF Control

\* The status looked at.
LEMMA CmdCheckControl == Control /\ CmdCheck => Control'
<1> SUFFICES ASSUME Control, CmdCheck PROVE Control'
  OBVIOUS
<1>1. /\ TypesRight' /\ isr' = isr /\ registered' = registered /\ irq' = irq /\ SameOp /\ call.at = "check" /\ isr = "off"
      /\ call.op # "none" /\ core \in CoreType /\ call'.status = Checked
      /\ \/ Failed(core) /\ call'.at = "wait"
         \/ ~Failed(core) /\ call'.at = "cmd"
         \/ ~Failed(core) /\ call'.at = IF Receiving /\ ~call.irq THEN "take"
                                         ELSE IF FirstOfTwo THEN "return" ELSE IF call.irq THEN "arm" ELSE "wait"
      /\ core' = core \/ core' = [core EXCEPT !.rx = <<>>]
  BY CmdCheckEffect, FieldTypes DEF Control, Elsewhere, At
<1>2. Receiving <=> Reads
  BY <1>1, PhaseFacts DEF Control, Reads
<1>3. /\ core'.en = core.en /\ core'.cur = core.cur /\ core'.bus = core.bus /\ core'.cmds = core.cmds
      /\ core'.nack = core.nack /\ core'.arb = core.arb /\ (core.rx = <<>> => core'.rx = <<>>)
  <2>1. CASE core' = [core EXCEPT !.rx = <<>>]
    BY <1>1, <2>1, BytesTaken
  <2>2. CASE core' = core
    BY <2>2
  <2> QED BY <1>1, <2>1, <2>2
<1>4. CoreQuiet'
  BY <1>3 DEF Control, CoreQuiet, Failed
<1>5. Checked = SUCCESS <=> ~Failed(core)
  BY CheckedFacts
<1> HIDE DEF Checked
<1>6. Labels'
  BY <1>1, <1>2, <1>3, <1>5 DEF Control, Labels, AtWork, SameOp, Reads, FirstOfTwo
<1>7. EnabledBy'
  BY <1>1, <1>5 DEF Control, Labels, EnabledBy, AtWork, SameOp, FirstOfTwo
<1> QED BY <1>1, <1>4, <1>6, <1>7 DEF Control

\* A byte taken, or the wait for it given up.
LEMMA RxReadControl == Control /\ RxRead => Control'
<1> SUFFICES ASSUME Control, RxRead PROVE Control'
  OBVIOUS
<1>1. /\ TypesRight' /\ isr' = isr /\ registered' = registered /\ irq' = irq /\ SameOp /\ call.at = "take" /\ isr = "off"
      /\ core \in CoreType
      /\ \/ call'.status = TIMEOUT /\ call'.at = "wait"
         \/ call'.status = SUCCESS /\ call'.at \in {"take", IF FirstOfTwo THEN "return" ELSE IF call.irq THEN "arm" ELSE "wait"}
      /\ \/ core' = core
         \/ core.rx # <<>> /\ \E s : core' = [core EXCEPT !.rx = s]
  BY RxReadEffect, FieldTypes DEF Control, Elsewhere, At
<1>2. /\ core'.en = core.en /\ core'.cur = core.cur /\ core'.bus = core.bus /\ core'.cmds = core.cmds
      /\ core'.nack = core.nack /\ core'.arb = core.arb /\ (core.rx = <<>> => core'.rx = <<>>)
  <2>1. ASSUME NEW s, core.rx # <<>>, core' = [core EXCEPT !.rx = s]
        PROVE  /\ core'.en = core.en /\ core'.cur = core.cur /\ core'.bus = core.bus /\ core'.cmds = core.cmds
               /\ core'.nack = core.nack /\ core'.arb = core.arb
    BY <1>1, <2>1, BytesTaken
  <2>2. CASE core' = core
    BY <2>2
  <2> QED BY <1>1, <2>1, <2>2
<1>3. CoreQuiet'
  BY <1>2 DEF Control, CoreQuiet, Failed
<1>4. Labels'
  BY <1>1 DEF Control, Labels, AtWork, SameOp, Reads, FirstOfTwo, TypesRight, CallSound, SUCCESS, TIMEOUT
<1>5. EnabledBy'
  BY <1>1, <1>2 DEF Control, Labels, EnabledBy, AtWork, SameOp, FirstOfTwo
<1> QED BY <1>1, <1>3, <1>4, <1>5 DEF Control

\* The core switched off by the program.
LEMMA WaitIdleControl == Control /\ WaitIdle => Control'
<1> SUFFICES ASSUME Control, WaitIdle PROVE Control'
  OBVIOUS
<1>1. /\ TypesRight' /\ isr' = isr /\ registered' = registered /\ irq' = irq /\ SameOp /\ call.at = "wait" /\ isr = "off"
      /\ core \in CoreType /\ core' = Disabled(core) /\ call'.at = "return"
  BY WaitIdleEffect, FieldTypes DEF Control, Elsewhere, At
<1>2. core'.en = FALSE /\ core'.cmds = <<>> /\ core'.cur = Nothing /\ core'.bus = "free" /\ core'.rx = <<>>
  BY <1>1, OperationFields
<1>3. CoreQuiet' /\ EnabledBy'
  BY <1>2 DEF CoreQuiet, EnabledBy
<1>4. Labels'
  BY <1>1 DEF Control, Labels, AtWork, FirstOfTwo
<1> QED BY <1>1, <1>3, <1>4 DEF Control

\* The interrupts armed.
LEMMA ArmControl == Control /\ Arm => Control'
<1> SUFFICES ASSUME Control, Arm PROVE Control'
  OBVIOUS
<1>1. /\ TypesRight' /\ isr' = isr /\ registered' = registered /\ SameOp /\ call.at = "arm" /\ isr = "off"
      /\ call'.at = "return" /\ irq \in IrqType
      /\ core'.en = core.en /\ core'.cmds = core.cmds /\ core'.cur = core.cur /\ core'.bus = core.bus
      /\ core'.rx = core.rx /\ core'.nack = FALSE /\ core'.arb = FALSE
      /\ \/ irq' = [busy |-> 2, size |-> Phase.size, got |-> <<>>, want |-> Phase.size]
         \/ irq' = [irq EXCEPT !.busy = 1]
  BY ArmEffect, FieldTypes DEF Control, Elsewhere, At
<1>2. irq'.busy \in {1, 2}
  BY <1>1 DEF IrqType
<1>3. CoreQuiet' /\ EnabledBy'
  BY <1>1, <1>2 DEF Control, CoreQuiet, EnabledBy, Failed
<1>4. Labels'
  BY <1>1 DEF Control, Labels, AtWork, FirstOfTwo, SameOp
<1> QED BY <1>1, <1>3, <1>4 DEF Control

\* A transmit or receive has ended.
LEMMA ReturnControl == Control /\ Return => Control'
<1> SUFFICES ASSUME Control, Return PROVE Control'
  OBVIOUS
<1>1. /\ TypesRight' /\ UNCHANGED <<core, irq, isr, registered>> /\ call.at = "return" /\ isr = "off"
      /\ call'.op = call.op /\ call'.irq = call.irq /\ call'.status = call.status
      /\ \/ call.status \in Retried /\ call'.at = "begin" /\ call'.phase = 1
         \/ call.status \notin Retried /\ FirstOfTwo /\ call'.at = "begin" /\ call'.phase = 2
         \/ /\ call.status \in Retried \/ ~FirstOfTwo
            /\ call'.at = "idle" /\ call'.phase = call.phase
  BY ReturnEffect DEF Control, Elsewhere, At
<1>2. SUCCESS \notin Retried
  BY DEF SUCCESS, Retried, ARB_LOST_ERR, NACK_ERR, BUSY
<1>3. CoreQuiet'
  BY <1>1 DEF Control, CoreQuiet, Failed
<1>4. EnabledBy'
  BY <1>1, <1>2 DEF Control, EnabledBy, AtWork, FirstOfTwo
<1>5. Labels'
  BY <1>1 DEF Control, Labels, AtWork, FirstOfTwo
<1> QED BY <1>1, <1>3, <1>4, <1>5 DEF Control

\* A query.
LEMMA QueryControl == Control /\ Query => Control'
<1> SUFFICES ASSUME Control, Query PROVE Control'
  OBVIOUS
<1>1. /\ TypesRight' /\ isr' = isr /\ registered' = registered /\ irq' = irq /\ SameOp /\ call.at = "idle" /\ isr = "off"
      /\ core \in CoreType /\ call'.status = call.status
      /\ core' = core \/ core' = [core EXCEPT !.ints = {}]
      /\ \/ call'.at = "abort" /\ irq.busy # 0 /\ core' = [core EXCEPT !.ints = {}]
         \/ call'.at = "idle"
  BY QueryEffect, FieldTypes DEF Control, Elsewhere, At
<1>2. /\ core'.en = core.en /\ core'.cur = core.cur /\ core'.bus = core.bus /\ core'.cmds = core.cmds
      /\ core'.nack = core.nack /\ core'.arb = core.arb /\ core'.rx = core.rx
      /\ core' = [core EXCEPT !.ints = {}] => core'.ints = {}
  <2>1. CASE core' = [core EXCEPT !.ints = {}]
    BY <1>1, <2>1, IntsSwitched
  <2>2. CASE core' # [core EXCEPT !.ints = {}]
    BY <1>1, <2>2
  <2> QED BY <2>1, <2>2
<1>3. CoreQuiet'
  BY <1>2 DEF Control, CoreQuiet, Failed
<1>4. EnabledBy'
  BY <1>1, <1>2 DEF Control, EnabledBy, AtWork
<1>5. Labels'
  BY <1>1, <1>2 DEF Control, Labels, AtWork, FirstOfTwo, SameOp
<1> QED BY <1>1, <1>3, <1>4, <1>5 DEF Control

\* A failed transaction ended by the query.
LEMMA QueryAbortControl == Control /\ QueryAbort => Control'
<1> SUFFICES ASSUME Control, QueryAbort PROVE Control'
  OBVIOUS
<1>1. /\ TypesRight' /\ SameOp /\ call.at = "abort" /\ call'.status = call.status
      /\ core \in CoreType /\ core' = Disabled(core) /\ call'.at = "idle" /\ irq'.busy = 0
  BY QueryAbortEffect, FieldTypes DEF Control, Elsewhere, At
<1>2. core'.en = FALSE /\ core'.cmds = <<>> /\ core'.cur = Nothing /\ core'.bus = "free" /\ core'.rx = <<>>
  BY <1>1, OperationFields
<1>3. CoreQuiet' /\ EnabledBy'
  BY <1>2 DEF CoreQuiet, EnabledBy
<1>4. Labels'
  BY <1>1 DEF Control, Labels, AtWork, FirstOfTwo, SameOp
<1> QED BY <1>1, <1>3, <1>4 DEF Control

\* The interrupt routine entered.  It cannot be while the query has switched the
\* interrupts off.
LEMMA IsrEnterControl == Control /\ IsrEnter => Control'
<1> SUFFICES ASSUME Control, IsrEnter PROVE Control'
  OBVIOUS
<1>1. /\ TypesRight' /\ Interrupting(core) /\ UNCHANGED <<call, target, registered>>
      /\ core'.en = core.en /\ core'.cmds = core.cmds /\ core'.cur = core.cur /\ core'.bus = core.bus
      /\ core'.nack = FALSE /\ core'.arb = FALSE /\ isr = "off"
      /\ irq'.busy = irq.busy /\ (irq.busy # 2 => irq' = irq /\ isr' = "wait" /\ core'.rx = core.rx)
      /\ irq.busy = 2 => \E n \in Nat : core'.rx = SubSeq(core.rx, n + 1, Len(core.rx)) /\ n <= Len(core.rx)
  BY IsrEnterEffect DEF Control
<1>2. call.at # "abort"
  BY <1>1 DEF Control, Labels, Interrupting
<1>3. CoreQuiet'
  <2>1. core.rx = <<>> => core'.rx = <<>>
    BY <1>1
  <2> QED BY <1>1, <2>1 DEF Control, CoreQuiet, Failed
<1>4. Labels'
  BY <1>1, <1>2 DEF Control, Labels, FirstOfTwo, Reads
<1>5. EnabledBy'
  BY <1>1 DEF Control, EnabledBy, FirstOfTwo
<1> QED BY <1>1, <1>3, <1>4, <1>5 DEF Control

\* The core switched off by the interrupt routine.
LEMMA IsrWaitControl == Control /\ IsrWait => Control'
<1> SUFFICES ASSUME Control, IsrWait PROVE Control'
  OBVIOUS
<1>1. /\ TypesRight' /\ UNCHANGED <<call, target, registered>> /\ isr = "wait" /\ isr' = "off"
      /\ core \in CoreType /\ core' = Disabled(core) /\ irq'.busy = 0
  BY IsrWaitEffect, FieldTypes DEF Control
<1>2. core'.en = FALSE /\ core'.cmds = <<>> /\ core'.cur = Nothing /\ core'.bus = "free" /\ core'.rx = <<>>
  BY <1>1, OperationFields
<1>3. CoreQuiet' /\ EnabledBy'
  BY <1>2 DEF CoreQuiet, EnabledBy
<1>4. Labels'
  BY <1>1 DEF Control, Labels, FirstOfTwo, Reads
<1> QED BY <1>1, <1>3, <1>4 DEF Control

\* A step of the driver.
LEMMA NextControl == Control /\ [Next]_vars => Control'
<1> SUFFICES ASSUME Control, [Next]_vars PROVE Control'
  OBVIOUS
<1>1. CASE UNCHANGED vars
  BY <1>1 DEF vars, driver, Control, TypesRight, CallSound, CoreQuiet, Failed, Labels, Reads, FirstOfTwo, EnabledBy
<1>2. CASE Next
  <2>0. TxSizes \subseteq Nat /\ RxSizes \subseteq Nat
        /\ (\A n \in TxSizes : n > 0) /\ (\A n \in RxSizes : n > 0)
    BY DriverAssumption
  <2>1. ASSUME NEW u \in BOOLEAN, NEW tx \in TxSizes, Start("tx", u, tx, 0) PROVE Control'
    BY <2>0, <2>1, StartControl
  <2>2. ASSUME NEW u \in BOOLEAN, NEW rx \in RxSizes, Start("rx", u, 0, rx) PROVE Control'
    BY <2>0, <2>2, StartControl
  <2>3. ASSUME NEW u \in BOOLEAN, NEW tx \in TxSizes, NEW rx \in RxSizes, Start("tx_rx", u, tx, rx) PROVE Control'
    BY <2>0, <2>3, StartControl
  <2>4. CASE Program
    BY <2>4, BeginControl, CmdWriteControl, CmdCheckControl, RxReadControl, WaitIdleControl, ArmControl,
       ReturnControl, QueryAbortControl DEF Program
  <2>5. CASE Isr
    BY <2>5, IsrEnterControl, IsrWaitControl DEF Isr
  <2>6. CASE Query \/ Core
    BY <2>6, QueryControl, CoreControl
  <2> QED BY <1>2, <2>1, <2>2, <2>3, <2>4, <2>5, <2>6 DEF Next
<1> QED BY <1>1, <1>2

\* What Control says of an idle driver.
LEMMA ControlReleases == Control => ReleasedWhenIdle
  BY DEF Control, EnabledBy, ReleasedWhenIdle, At, AtWork

\* When neither a call nor an interrupt is at work on a transaction the core is off: the
\* driver lets go of the core on every way out of a call, whatever went wrong.
THEOREM CoreIsReleased == Spec => []ReleasedWhenIdle
<1>1. Spec => []Control
  BY InitControl, NextControl, PTL DEF Spec
<1> QED BY <1>1, ControlReleases, PTL

-----------------------------------------------------------------------------
(* The firmware *)

Writes == FW!CommandWrites

\* The command writes of main.
LEMMA WriteFacts ==
    /\ Len(Writes) = 6 /\ Writes \in Seq(GivenCommand)
    /\ \A i \in 1..6 : Writes[i] \in GivenCommand /\ Writes[i] # FW!Nothing
    /\ Writes[1].byte = FW!WriteAddress /\ Writes[2].byte = 3 /\ Writes[3].byte = 248
    /\ Writes[4].byte = FW!WriteAddress /\ Writes[5].byte = 1 /\ Writes[6].byte = 0
    /\ Writes[1].sta /\ Writes[4].sta
    /\ ~Writes[2].sta /\ ~Writes[3].sta /\ ~Writes[5].sta /\ ~Writes[6].sta
    /\ ~Writes[1].sto /\ ~Writes[2].sto /\ ~Writes[4].sto /\ ~Writes[5].sto
    /\ Writes[3].sto /\ Writes[6].sto
    /\ FW!WriteAddress \in Nat /\ FW!ReadAddress \in Nat /\ FW!WriteAddress # FW!ReadAddress
    /\ FW!WriteAddress # 1 /\ FW!WriteAddress # 3
<1>1. /\ FW!WriteAddress \in Nat /\ FW!ReadAddress \in Nat /\ FW!WriteAddress # FW!ReadAddress
      /\ FW!WriteAddress # 1 /\ FW!WriteAddress # 3
  BY DepthAssumption DEF FW!WriteAddress, FW!ReadAddress
<1> DEFINE a == FW!WriteAddress
<1>2. a \in Nat
  BY <1>1
<1> HIDE DEF a
<1>3. Writes = << FW!Command(a, TRUE, FALSE), FW!Command(3, FALSE, FALSE), FW!Command(248, FALSE, TRUE),
                  FW!Command(a, TRUE, FALSE), FW!Command(1, FALSE, FALSE), FW!Command(0, FALSE, TRUE) >>
  BY DEF Writes, FW!CommandWrites, FW!Configuration, FW!OutputPort, a
<1>4. /\ Len(Writes) = 6
      /\ Writes[1] = [byte |-> a, sta |-> TRUE, sto |-> FALSE]
      /\ Writes[2] = [byte |-> 3, sta |-> FALSE, sto |-> FALSE]
      /\ Writes[3] = [byte |-> 248, sta |-> FALSE, sto |-> TRUE]
      /\ Writes[4] = [byte |-> a, sta |-> TRUE, sto |-> FALSE]
      /\ Writes[5] = [byte |-> 1, sta |-> FALSE, sto |-> FALSE]
      /\ Writes[6] = [byte |-> 0, sta |-> FALSE, sto |-> TRUE]
  BY <1>3 DEF FW!Command
<1>5. FW!Nothing.byte \notin Nat
  BY DEF FW!Nothing, FW!Command
<1>6. \A c \in GivenCommand : c.byte \in Nat
  BY DEF GivenCommand
<1>7. \A i \in 1..6 : Writes[i] \in GivenCommand
  <2>1. /\ Writes[1] \in GivenCommand /\ Writes[2] \in GivenCommand /\ Writes[3] \in GivenCommand
        /\ Writes[4] \in GivenCommand /\ Writes[5] \in GivenCommand /\ Writes[6] \in GivenCommand
    BY <1>2, <1>4 DEF GivenCommand
  <2>2. \A i \in 1..6 : i = 1 \/ i = 2 \/ i = 3 \/ i = 4 \/ i = 5 \/ i = 6
    OBVIOUS
  <2> QED BY <2>1, <2>2
<1>8. \A i \in 1..6 : Writes[i] \in GivenCommand /\ Writes[i] # FW!Nothing
  BY <1>5, <1>6, <1>7
<1>9. Writes \in Seq(GivenCommand)
  <2>1. Writes = [i \in 1..6 |-> Writes[i]]
    BY <1>3
  <2> QED BY <1>8, <2>1
<1>10. /\ Writes[1].byte = a /\ Writes[2].byte = 3 /\ Writes[3].byte = 248
       /\ Writes[4].byte = a /\ Writes[5].byte = 1 /\ Writes[6].byte = 0
  BY <1>4
<1>11. /\ Writes[1].sta /\ Writes[4].sta
       /\ ~Writes[2].sta /\ ~Writes[3].sta /\ ~Writes[5].sta /\ ~Writes[6].sta
  BY <1>4
<1>12. /\ ~Writes[1].sto /\ ~Writes[2].sto /\ ~Writes[4].sto /\ ~Writes[5].sto
       /\ Writes[3].sto /\ Writes[6].sto
  BY <1>4
<1> QED BY <1>1, <1>4, <1>8, <1>9, <1>10, <1>11, <1>12 DEF a

\* The registers that have their reset value or the one meant for them.
Meant(p) ==
    /\ p \in [0..3 -> Nat]
    /\ p[3] \in {255, 248} /\ p[1] \in {255, 0} /\ p[0] = 0 /\ p[2] = 0

\* After a reset they do, and NoWrongRegister says nothing more.
LEMMA MeantRegisters ==
    /\ Meant(FW!PortReset)
    /\ Meant(port) => NoWrongRegister
<1>1. FW!PortReset = [r \in 0..3 |-> IF r \in {1, 3} THEN 255 ELSE 0]
  BY DEF FW!PortReset, FW!OutputPort, FW!Configuration
<1>2. Meant(FW!PortReset)
  BY <1>1 DEF Meant
<1>3. Meant(port) => NoWrongRegister
  BY <1>1 DEF Meant, NoWrongRegister, FW!NoWrongRegister, FW!OutputPort, FW!Configuration
<1> QED BY <1>2, <1>3

\* Position in main's writes of the j-th that was not skipped, if the one at s was and no
\* other, and s = 0 if none was.
Nth(s, j) == IF s = 0 \/ j < s THEN j ELSE j + 1

\* The writes that main has tried, and whether a command is on the bus.
Tried == 6 - Len(todo)
OnBus1 == IF f_core.cur = FW!Nothing THEN 0 ELSE 1

\* The bus and the last message, when the last command done was at p.  A message whose
\* address was skipped begins with a register's number, which may be the target's address
\* for reading.
BusBehind(s, p) ==
    /\ p \in {0, 3, 6} => f_core.bus = "free"
    /\ p \in {1, 2, 4, 5} => f_target.msgs # <<>>
    /\ p \in {1, 4} => f_core.bus = "write" /\ Len(Last(f_target.msgs)) = 1
    /\ p \in {2, 5} /\ s = p - 1 => f_core.bus = "read" /\ Len(Last(f_target.msgs)) = 1
    /\ p \in {2, 5} /\ s # p - 1 => f_core.bus = "write" /\ Len(Last(f_target.msgs)) = 2
                                    /\ Last(f_target.msgs)[2] = Writes[p].byte

\* d commands are done, and the ones main has written since are in the core in order.
OnTheWay(s, d) ==
    /\ s \in 0..Tried /\ d \in 0..6
    /\ skips = 0 => s = 0
    /\ d + OnBus1 + Len(f_core.cmds) = Tried - (IF s = 0 THEN 0 ELSE 1)
    /\ f_core.cur # FW!Nothing => f_core.cur = Writes[Nth(s, d + 1)]
    /\ \A i \in 1..Len(f_core.cmds) : f_core.cmds[i] = Writes[Nth(s, d + OnBus1 + i)]
    /\ BusBehind(s, IF d = 0 THEN 0 ELSE Nth(s, d))

Still == f_core.cur = FW!Nothing /\ f_core.cmds = <<>> /\ f_core.bus = "free"

FirmwareTypes ==
    /\ f_core \in CoreType
    /\ f_target \in [msgs : Seq(Seq(Nat)), sent : Nat]
    /\ f_core.bus = "write" => f_target.msgs # <<>>
    /\ todo \in Seq(GivenCommand)
    /\ pc \in {"open", "setup", "enable", "write", "done", "failed"}
    /\ skips \in Nat

\* main's writes are a list it goes through, the last ones of Writes.
Left ==
    /\ Len(todo) <= 6 /\ \A i \in 1..Len(todo) : todo[i] = Writes[Tried + i]
    /\ pc = "write" => todo # <<>>

\* Until the writes the core is off; then a failure stops it for good, and before that the
\* target is being sent main's commands, in order, as long as one was skipped at most.
Sent ==
    /\ pc \in {"open", "setup", "enable", "failed"} =>
         ~f_core.en /\ Still /\ todo = Writes /\ skips = 0 /\ ~FW!Failed(f_core)
    /\ pc \in {"write", "done"} =>
         /\ f_core.en
         /\ FW!Failed(f_core) => Still
         /\ ~FW!Failed(f_core) /\ skips <= 1 => \E s, d \in 0..6 : OnTheWay(s, d)

FirmwareInv ==
    /\ FirmwareTypes
    /\ f_core.cmdthd = "not_full"
    /\ Left
    /\ Sent
    /\ skips <= 1 => Meant(port)

\* The fields of the records.
LEMMA FirmwareFields ==
    ASSUME FirmwareTypes
    PROVE  /\ f_core.en \in BOOLEAN /\ f_core.cmds \in Seq(GivenCommand)
           /\ f_core.cur \in GivenCommand \cup {FW!Nothing}
           /\ f_core.bus \in {"free", "write", "read"} /\ f_core.rx \in Seq(Nat)
           /\ f_target.msgs \in Seq(Seq(Nat)) /\ f_target.sent \in Nat
<1>1. Nothing = FW!Nothing
  BY DEF Nothing, Command, FW!Nothing, FW!Command
<1>2. f_core \in CoreType /\ f_target \in [msgs : Seq(Seq(Nat)), sent : Nat]
  BY DEF FirmwareTypes
<1>3. f_target.msgs \in Seq(Seq(Nat)) /\ f_target.sent \in Nat
  BY <1>2
<1> QED BY <1>1, <1>2, <1>3 DEF CoreType

\* What the bus may do with the firmware's commands: fetch one, be done with one that is
\* an address, a byte written or a byte read, or fail.
BusFetched ==
    /\ f_core.cur = FW!Nothing /\ f_core.cmds # <<>>
    /\ f_core'.cur = Head(f_core.cmds) /\ f_core'.cmds = Tail(f_core.cmds)
    /\ f_core'.bus = f_core.bus /\ f_core'.nack = f_core.nack /\ f_core'.arb = f_core.arb
    /\ f_target' = f_target
BusDone ==
    /\ f_core.cur # FW!Nothing /\ f_core'.cur = FW!Nothing /\ f_core'.cmds = f_core.cmds
    /\ f_core'.nack = f_core.nack /\ f_core'.arb = f_core.arb
BusStarted ==
    /\ BusDone /\ FW!Starts
    /\ f_core.cur.byte \in {FW!WriteAddress, FW!ReadAddress}
    /\ f_target'.msgs # <<>> /\ Last(f_target'.msgs) = <<f_core.cur.byte>>
    /\ f_core'.bus = IF f_core.cur.sto THEN "free"
                     ELSE IF f_core.cur.byte = FW!ReadAddress THEN "read" ELSE "write"
BusWritten ==
    /\ BusDone /\ ~FW!Starts /\ f_core.bus = "write"
    /\ f_target.msgs # <<>> => /\ f_target'.msgs # <<>>
                               /\ Last(f_target'.msgs) = Append(Last(f_target.msgs), f_core.cur.byte)
    /\ f_core'.bus = IF f_core.cur.sto THEN "free" ELSE "write"
BusRead ==
    /\ BusDone /\ ~FW!Starts /\ f_core.bus = "read"
    /\ f_target'.msgs = f_target.msgs
    /\ f_core'.bus = IF f_core.cur.sto THEN "free" ELSE "read"
BusFailed ==
    /\ f_core.cur # FW!Nothing
    /\ f_core'.cur = FW!Nothing /\ f_core'.cmds = <<>> /\ f_core'.bus = "free" /\ FW!Failed(f_core')
    /\ f_target' = f_target \/ f_target'.msgs = <<>>

\* A fetch.
LEMMA BusFetchEffect ==
    ASSUME FirmwareTypes, FW!Fetch
    PROVE  f_core' \in CoreType /\ f_core'.en = f_core.en /\ f_core'.cmdthd = f_core.cmdthd /\ BusFetched
<1>1. f_core \in CoreType /\ f_core.cmds \in Seq(GivenCommand) /\ f_core.cmds # <<>> /\ f_core.cur = FW!Nothing
  BY FirmwareFields DEF FirmwareTypes, FW!Fetch
<1> DEFINE h == Head(f_core.cmds)
           t == Tail(f_core.cmds)
<1>2. h \in GivenCommand /\ t \in Seq(GivenCommand)
  BY <1>1
<1>3. f_core' = [f_core EXCEPT !.cur = h, !.cmds = t] /\ f_target' = f_target
  BY DEF FW!Fetch
<1> HIDE DEF h, t
<1>4. f_core' \in CoreType /\ f_core'.en = f_core.en /\ f_core'.cmdthd = f_core.cmdthd
  BY <1>1, <1>2, <1>3 DEF CoreType
<1>5. f_core'.cur = h /\ f_core'.cmds = t /\ f_core'.bus = f_core.bus /\ f_core'.nack = f_core.nack
      /\ f_core'.arb = f_core.arb
  BY <1>1, <1>3 DEF CoreType
<1> QED BY <1>1, <1>3, <1>4, <1>5 DEF BusFetched, h, t

\* A core that has done a command: only the bus and the received bytes may change.
LEMMA BusDoneEffect ==
    ASSUME FirmwareTypes, NEW b \in {"free", "write", "read"}, NEW r \in Seq(Nat), f_core.cur # FW!Nothing,
           f_core' = [f_core EXCEPT !.cur = FW!Nothing, !.bus = b, !.rx = r]
    PROVE  f_core' \in CoreType /\ f_core'.en = f_core.en /\ f_core'.cmdthd = f_core.cmdthd /\ BusDone
           /\ f_core'.bus = b
<1>1. f_core \in CoreType /\ Nothing = FW!Nothing
  BY DEF FirmwareTypes, Nothing, Command, FW!Nothing, FW!Command
<1>2. f_core' \in CoreType /\ f_core'.en = f_core.en /\ f_core'.cmdthd = f_core.cmdthd
  BY <1>1 DEF CoreType
<1>3. f_core'.cur = FW!Nothing /\ f_core'.cmds = f_core.cmds /\ f_core'.nack = f_core.nack
      /\ f_core'.arb = f_core.arb /\ f_core'.bus = b
  BY <1>1 DEF CoreType
<1> QED BY <1>2, <1>3 DEF BusDone

\* An address that is acknowledged.
LEMMA BusStartEffect ==
    ASSUME FirmwareTypes, FW!StartAcked
    PROVE  f_core' \in CoreType /\ f_core'.en = f_core.en /\ f_core'.cmdthd = f_core.cmdthd /\ BusStarted
           /\ f_target' \in [msgs : Seq(Seq(Nat)), sent : Nat]
<1>1. /\ f_core \in CoreType /\ f_core.rx \in Seq(Nat) /\ f_target.msgs \in Seq(Seq(Nat))
      /\ f_core.cur # FW!Nothing /\ f_core.cur \in GivenCommand /\ f_core.cur.byte \in Nat
  BY FirmwareFields DEF FirmwareTypes, FW!StartAcked, GivenCommand
<1> DEFINE b == IF f_core.cur.sto THEN "free"
                ELSE IF f_core.cur.byte = FW!ReadAddress THEN "read" ELSE "write"
           r == f_core.rx
           m == IF f_core.bus = "free" THEN <<>> ELSE f_target.msgs
           x == <<f_core.cur.byte>>
<1>2. f_core' = [f_core EXCEPT !.cur = FW!Nothing, !.bus = b] /\ f_target' = [msgs |-> Append(m, x), sent |-> 0]
  BY DEF FW!StartAcked
<1>3. b \in {"free", "write", "read"} /\ r \in Seq(Nat) /\ m \in Seq(Seq(Nat)) /\ x \in Seq(Nat)
  BY <1>1
<1>4. [f_core EXCEPT !.cur = FW!Nothing, !.bus = b] = [f_core EXCEPT !.cur = FW!Nothing, !.bus = b, !.rx = r]
  BY <1>1 DEF CoreType
<1>5. Append(m, x) \in Seq(Seq(Nat)) /\ Append(m, x) # <<>> /\ Last(Append(m, x)) = x
  <2> HIDE DEF m, x
  <2>1. Append(m, x) \in Seq(Seq(Nat)) /\ Len(Append(m, x)) = Len(m) + 1 /\ Append(m, x)[Len(m) + 1] = x
        /\ Len(m) \in Nat
    BY <1>3
  <2>2. Append(m, x) # <<>>
    <3>1. Len(Append(m, x)) # 0
      BY <2>1
    <3> QED BY <3>1
  <2> QED BY <2>1, <2>2 DEF Last
<1>6. FW!Starts /\ f_core.cur.byte \in {FW!WriteAddress, FW!ReadAddress}
  BY DEF FW!StartAcked
<1> HIDE DEF b, r, m, x
<1>7. f_core' = [f_core EXCEPT !.cur = FW!Nothing, !.bus = b, !.rx = r]
  BY <1>2, <1>4
<1>8. f_core' \in CoreType /\ f_core'.en = f_core.en /\ f_core'.cmdthd = f_core.cmdthd /\ BusDone /\ f_core'.bus = b
  BY <1>1, <1>3, <1>7, BusDoneEffect
<1>9. f_target'.msgs = Append(m, x) /\ f_target' \in [msgs : Seq(Seq(Nat)), sent : Nat]
  BY <1>2, <1>5
<1>10. f_target'.msgs # <<>> /\ Last(f_target'.msgs) = <<f_core.cur.byte>>
  BY <1>5, <1>9 DEF x
<1>11. f_core'.bus = IF f_core.cur.sto THEN "free"
                     ELSE IF f_core.cur.byte = FW!ReadAddress THEN "read" ELSE "write"
  BY <1>8 DEF b
<1>12. BusStarted
  BY <1>6, <1>8, <1>10, <1>11 DEF BusStarted
<1> QED BY <1>8, <1>9, <1>12

\* A byte written.
LEMMA BusWriteEffect ==
    ASSUME FirmwareTypes, FW!WriteAcked
    PROVE  f_core' \in CoreType /\ f_core'.en = f_core.en /\ f_core'.cmdthd = f_core.cmdthd /\ BusWritten
           /\ (f_target.msgs # <<>> => f_target' \in [msgs : Seq(Seq(Nat)), sent : Nat])
<1>1. /\ f_core \in CoreType /\ f_core.rx \in Seq(Nat) /\ f_target.msgs \in Seq(Seq(Nat))
      /\ f_core.cur # FW!Nothing /\ f_core.cur \in GivenCommand /\ f_core.cur.byte \in Nat
      /\ f_core.bus = "write" /\ ~FW!Starts /\ f_target \in [msgs : Seq(Seq(Nat)), sent : Nat]
  BY FirmwareFields DEF FirmwareTypes, FW!WriteAcked, GivenCommand
<1> DEFINE b == IF f_core.cur.sto THEN "free" ELSE "write"
           r == f_core.rx
           m == f_target.msgs
           x == f_core.cur.byte
           t == [m EXCEPT ![Len(m)] = Append(@, x)]
<1>2. f_core' = [f_core EXCEPT !.cur = FW!Nothing, !.bus = b]
  BY <1>1 DEF FW!WriteAcked
<1>3. f_target' = [f_target EXCEPT !.msgs = t]
  BY <1>1 DEF FW!WriteAcked
<1>4. b \in {"free", "write", "read"} /\ r \in Seq(Nat) /\ m \in Seq(Seq(Nat)) /\ x \in Nat
  BY <1>1
<1>5. [f_core EXCEPT !.cur = FW!Nothing, !.bus = b] = [f_core EXCEPT !.cur = FW!Nothing, !.bus = b, !.rx = r]
  BY <1>1 DEF CoreType
<1> HIDE DEF b, r, m, x
<1>6. f_core' \in CoreType /\ f_core'.en = f_core.en /\ f_core'.cmdthd = f_core.cmdthd /\ BusDone /\ f_core'.bus = b
  <2>1. f_core' = [f_core EXCEPT !.cur = FW!Nothing, !.bus = b, !.rx = r]
    BY <1>2, <1>5
  <2> QED BY <1>1, <1>4, <2>1, BusDoneEffect
<1>7. ASSUME m # <<>>
      PROVE  t \in Seq(Seq(Nat)) /\ t # <<>> /\ Last(t) = Append(Last(m), x)
  <2>1. Len(m) \in Nat /\ Len(m) \in 1..Len(m) /\ m[Len(m)] \in Seq(Nat) /\ DOMAIN m = 1..Len(m)
    BY <1>4, <1>7
  <2> DEFINE y == Append(m[Len(m)], x)
  <2>2. y \in Seq(Nat)
    BY <1>4, <2>1
  <2>3. t = [m EXCEPT ![Len(m)] = y]
    OBVIOUS
  <2> HIDE DEF y, t
  <2>4. t \in Seq(Seq(Nat)) /\ Len(t) = Len(m) /\ t[Len(m)] = y
    BY <1>4, <2>1, <2>2, <2>3
  <2>5. t # <<>>
    BY <2>1, <2>4
  <2> QED BY <2>4, <2>5 DEF Last, y
<1>8. f_target'.msgs = t
  BY <1>1, <1>3
<1> HIDE DEF t
<1>9. m # <<>> => f_target' \in [msgs : Seq(Seq(Nat)), sent : Nat]
  BY <1>1, <1>3, <1>7
<1>10. f_target.msgs # <<>> => /\ f_target'.msgs # <<>>
                               /\ Last(f_target'.msgs) = Append(Last(f_target.msgs), f_core.cur.byte)
  BY <1>7, <1>8 DEF m, x
<1>11. f_core'.bus = IF f_core.cur.sto THEN "free" ELSE "write"
  BY <1>6 DEF b
<1>12. BusWritten
  BY <1>1, <1>6, <1>10, <1>11 DEF BusWritten
<1> QED BY <1>6, <1>9, <1>12 DEF m

\* A byte read.
LEMMA BusReadEffect ==
    ASSUME FirmwareTypes, FW!ByteRead
    PROVE  f_core' \in CoreType /\ f_core'.en = f_core.en /\ f_core'.cmdthd = f_core.cmdthd /\ BusRead
           /\ f_target' \in [msgs : Seq(Seq(Nat)), sent : Nat]
<1>1. /\ f_core \in CoreType /\ f_core.rx \in Seq(Nat)
      /\ f_core.cur # FW!Nothing /\ f_core.cur \in GivenCommand
      /\ f_core.bus = "read" /\ ~FW!Starts /\ f_target \in [msgs : Seq(Seq(Nat)), sent : Nat]
      /\ f_target.sent \in Nat
  BY FirmwareFields DEF FirmwareTypes, FW!ByteRead
<1>2. f_target' = [f_target EXCEPT !.sent = f_target.sent + 1]
  BY <1>1 DEF FW!ByteRead
<1>3. f_target'.msgs = f_target.msgs /\ f_target' \in [msgs : Seq(Seq(Nat)), sent : Nat] /\ f_target'.sent \in Nat
  BY <1>1, <1>2
<1> DEFINE b == IF f_core.cur.sto THEN "free" ELSE "read"
           r == IF Len(f_core.rx) < FifoDepth THEN Append(f_core.rx, f_target'.sent) ELSE f_core.rx
<1>4. f_core' = [f_core EXCEPT !.cur = FW!Nothing, !.bus = b, !.rx = r]
  BY <1>1 DEF FW!ByteRead
<1>5. b \in {"free", "write", "read"}
  OBVIOUS
<1>6. r \in Seq(Nat)
  <2> DEFINE n == f_target'.sent
             q == f_core.rx
  <2>1. n \in Nat /\ q \in Seq(Nat)
    BY <1>1, <1>3
  <2> HIDE DEF n, q
  <2>2. Append(q, n) \in Seq(Nat)
    BY <2>1
  <2> QED BY <1>1, <2>2 DEF n, q
<1> HIDE DEF b, r
<1>7. f_core' \in CoreType /\ f_core'.en = f_core.en /\ f_core'.cmdthd = f_core.cmdthd /\ BusDone /\ f_core'.bus = b
  BY <1>1, <1>4, <1>5, <1>6, BusDoneEffect
<1>8. f_core'.bus = IF f_core.cur.sto THEN "free" ELSE "read"
  BY <1>7 DEF b
<1>9. BusRead
  BY <1>1, <1>3, <1>7, <1>8 DEF BusRead
<1> QED BY <1>3, <1>7, <1>9

\* A failure.
LEMMA BusFailEffect ==
    ASSUME FirmwareTypes, FW!TransferFails
    PROVE  f_core' \in CoreType /\ f_core'.en = f_core.en /\ f_core'.cmdthd = f_core.cmdthd /\ BusFailed
           /\ f_target' \in [msgs : Seq(Seq(Nat)), sent : Nat]
<1>1. f_core \in CoreType /\ f_target \in [msgs : Seq(Seq(Nat)), sent : Nat] /\ Nothing = FW!Nothing
      /\ <<>> \in Seq(GivenCommand) /\ <<>> \in Seq(Seq(Nat))
  BY DEF FirmwareTypes, Nothing, Command, FW!Nothing, FW!Command
<1>2. \/ f_core' = [f_core EXCEPT !.nack = TRUE, !.cur = FW!Nothing, !.cmds = <<>>, !.bus = "free"]
      \/ f_core' = [f_core EXCEPT !.arb = TRUE, !.cur = FW!Nothing, !.cmds = <<>>, !.bus = "free"]
  BY DEF FW!TransferFails
<1>3. f_core' \in CoreType /\ f_core'.en = f_core.en /\ f_core'.cmdthd = f_core.cmdthd
  <2>1. CASE f_core' = [f_core EXCEPT !.nack = TRUE, !.cur = FW!Nothing, !.cmds = <<>>, !.bus = "free"]
    BY <1>1, <2>1 DEF CoreType
  <2>2. CASE f_core' = [f_core EXCEPT !.arb = TRUE, !.cur = FW!Nothing, !.cmds = <<>>, !.bus = "free"]
    BY <1>1, <2>2 DEF CoreType
  <2> QED BY <1>2, <2>1, <2>2
<1>4. f_core'.cur = FW!Nothing /\ f_core'.cmds = <<>> /\ f_core'.bus = "free"
  BY <1>1, <1>2 DEF CoreType
<1>5. f_core'.nack \/ f_core'.arb
  BY <1>1, <1>2 DEF CoreType
<1>6. f_target' = f_target \/ f_target' = [msgs |-> <<>>, sent |-> 0]
  BY DEF FW!TransferFails
<1>7. /\ f_target' = f_target \/ f_target'.msgs = <<>>
      /\ f_target' \in [msgs : Seq(Seq(Nat)), sent : Nat]
  <2>1. CASE f_target' = f_target
    BY <1>1, <2>1
  <2>2. CASE f_target' = [msgs |-> <<>>, sent |-> 0]
    <3>1. f_target'.msgs = <<>>
      BY <2>2
    <3>2. f_target' \in [msgs : Seq(Seq(Nat)), sent : Nat]
      BY <1>1, <2>2
    <3> QED BY <3>1, <3>2
  <2> QED BY <1>6, <2>1, <2>2
<1>8. BusFailed
  BY <1>4, <1>5, <1>7 DEF BusFailed, FW!Failed, FW!TransferFails
<1> QED BY <1>3, <1>7, <1>8

\* The expander takes a register's value from the message the bus has just written to.
BusRegisters ==
    \/ port' = port
    \/ LET message == Last(f_target'.msgs) IN
       /\ f_target' # f_target /\ f_target'.msgs # <<>> /\ Len(message) > 2 /\ message[2] \in DOMAIN port
       /\ port' = [port EXCEPT ![message[2]] = Last(message)]

\* A step of the bus.
LEMMA FirmwareBus ==
    ASSUME FirmwareTypes, FW!Bus
    PROVE  /\ FirmwareTypes' /\ UNCHANGED <<todo, pc, skips>>
           /\ f_core'.en = f_core.en /\ f_core'.cmdthd = f_core.cmdthd
           /\ BusFetched \/ BusStarted \/ BusWritten \/ BusRead \/ BusFailed
           /\ BusRegisters
<1>1. UNCHANGED <<todo, pc, skips>>
  BY DEF FW!Bus, FW!main
<1>2. /\ f_core' \in CoreType /\ f_core'.en = f_core.en /\ f_core'.cmdthd = f_core.cmdthd
      /\ f_target' \in [msgs : Seq(Seq(Nat)), sent : Nat]
      /\ f_core'.bus = "write" => f_target'.msgs # <<>>
      /\ BusFetched \/ BusStarted \/ BusWritten \/ BusRead \/ BusFailed
  <2>0. f_core.bus = "write" => f_target.msgs # <<>>
    BY DEF FirmwareTypes
  <2>1. CASE FW!Fetch
    <3>1. f_target' = f_target /\ f_target \in [msgs : Seq(Seq(Nat)), sent : Nat]
      BY <2>1 DEF FW!Fetch, FirmwareTypes
    <3>2. f_core'.bus = f_core.bus
      BY <2>1, BusFetchEffect DEF BusFetched
    <3> QED BY <2>0, <2>1, <3>1, <3>2, BusFetchEffect
  <2>2. CASE FW!StartAcked
    <3>1. f_target'.msgs # <<>>
      BY <2>2, BusStartEffect DEF BusStarted
    <3> QED BY <2>2, <3>1, BusStartEffect
  <2>3. CASE FW!WriteAcked
    <3>1. f_target.msgs # <<>>
      BY <2>0, <2>3 DEF FW!WriteAcked
    <3>2. f_target'.msgs # <<>>
      BY <2>3, <3>1, BusWriteEffect DEF BusWritten
    <3> QED BY <2>3, <3>1, <3>2, BusWriteEffect
  <2>4. CASE FW!ByteRead
    <3>1. f_core'.bus # "write"
      BY <2>4, BusReadEffect DEF BusRead
    <3> QED BY <2>4, <3>1, BusReadEffect
  <2>5. CASE FW!TransferFails
    <3>1. f_core'.bus # "write"
      BY <2>5, BusFailEffect DEF BusFailed
    <3> QED BY <2>5, <3>1, BusFailEffect
  <2> QED BY <2>1, <2>2, <2>3, <2>4, <2>5 DEF FW!Bus, FW!TransferGoesOn
<1>3. BusRegisters
  <2>1. FW!Expander
    BY DEF FW!Bus
  <2>2. Len(f_target'.msgs) > 0 => f_target'.msgs # <<>>
    OBVIOUS
  <2> DEFINE m == Last(f_target'.msgs)
             on == f_target' # f_target /\ Len(f_target'.msgs) > 0 /\ Len(m) > 2 /\ m[2] \in DOMAIN port
  <2>3. port' = IF on THEN [port EXCEPT ![m[2]] = Last(m)] ELSE port
    BY <2>1 DEF FW!Expander, FW!Last, Last
  <2>4. CASE ~on
    <3> HIDE DEF on, m
    <3>1. port' = port
      BY <2>3, <2>4
    <3> QED BY <3>1 DEF BusRegisters
  <2>5. CASE on
    <3>1. f_target' # f_target /\ f_target'.msgs # <<>> /\ Len(m) > 2 /\ m[2] \in DOMAIN port
      BY <2>2, <2>5
    <3> HIDE DEF on
    <3>2. port' = [port EXCEPT ![m[2]] = Last(m)]
      BY <2>3, <2>5
    <3> QED BY <3>1, <3>2 DEF BusRegisters
  <2> QED BY <2>4, <2>5
<1>4. FirmwareTypes'
  BY <1>1, <1>2 DEF FirmwareTypes
<1> QED BY <1>1, <1>2, <1>3, <1>4

\* The last message as a sequence.
LEMMA LastMessage ==
    ASSUME FirmwareTypes, f_target.msgs # <<>>
    PROVE  Last(f_target.msgs) \in Seq(Nat)
<1>1. f_target.msgs \in Seq(Seq(Nat))
  BY FirmwareFields
<1> DEFINE m == f_target.msgs
<1>2. m \in Seq(Seq(Nat)) /\ m # <<>>
  BY <1>1
<1> HIDE DEF m
<1>3. Len(m) \in 1..Len(m)
  BY <1>2
<1>4. m[Len(m)] \in Seq(Nat)
  BY <1>2, <1>3
<1> QED BY <1>4 DEF Last, m

\* A message with one more byte.
LEMMA LongerMessage ==
    ASSUME NEW m \in Seq(Nat), NEW x \in Nat
    PROVE  /\ Len(Append(m, x)) = Len(m) + 1 /\ Last(Append(m, x)) = x
           /\ Len(m) = 1 => Append(m, x)[2] = x
           /\ Len(m) = 2 => Append(m, x)[2] = m[2]
<1>1. /\ Len(m) \in Nat /\ Len(Append(m, x)) = Len(m) + 1 /\ Append(m, x)[Len(m) + 1] = x
      /\ \A i \in 1..Len(m) : Append(m, x)[i] = m[i]
  OBVIOUS
<1>2. Last(Append(m, x)) = x
  BY <1>1 DEF Last
<1>3. Len(m) = 1 => Append(m, x)[2] = x
  <2>1. Len(m) = 1 => Len(m) + 1 = 2
    OBVIOUS
  <2> QED BY <1>1, <2>1
<1>4. Len(m) = 2 => Append(m, x)[2] = m[2]
  <2>1. Len(m) = 2 => 2 \in 1..Len(m)
    OBVIOUS
  <2> QED BY <1>1, <2>1
<1> QED BY <1>1, <1>2, <1>3, <1>4

\* The command at q is done behind the one at p, s being skipped.
Behind(s, p, q) ==
    /\ s \in 0..6 /\ p \in 0..5 /\ q \in 1..6 /\ (p # 0 => p # s)
    /\ q = IF p + 1 = s THEN p + 2 ELSE p + 1

\* An address, or the number of a register that is taken for one.
LEMMA StartDone ==
    ASSUME FirmwareTypes, NEW s, NEW p, NEW q, Behind(s, p, q), BusBehind(s, p),
           f_core.cur = Writes[q], BusStarted, BusRegisters, Meant(port)
    PROVE  BusBehind(s, q)' /\ Meant(port')
<1>1. Meant(port')
  <2>1. Len(Last(f_target'.msgs)) = 1
    BY DEF BusStarted
  <2> QED BY <2>1 DEF BusRegisters
<1>2. q \in {1, 4} \/ (q \in {2, 5} /\ s = q - 1)
  <2>1. f_core.bus = "free" \/ f_core.cur.sta
    BY DEF BusStarted, FW!Starts
  <2>2. q \in {1, 2, 3, 4, 5, 6} /\ p \in {0, 1, 2, 3, 4, 5}
    BY DEF Behind
  <2>3. f_core.bus = "free" => p \in {0, 3}
    BY <2>2 DEF BusBehind
  <2>4. f_core.cur.sta => q \in {1, 4}
    BY <2>2, WriteFacts
  <2> QED BY <2>1, <2>2, <2>3, <2>4 DEF Behind
<1>3. CASE q \in {1, 4}
  <2>1. f_core.cur.byte = FW!WriteAddress /\ ~f_core.cur.sto
    BY <1>3, WriteFacts
  <2>2. f_core'.bus = "write" /\ f_target'.msgs # <<>> /\ Len(Last(f_target'.msgs)) = 1
    BY <2>1, WriteFacts DEF BusStarted
  <2> QED BY <1>1, <1>3, <2>2 DEF BusBehind
<1>4. CASE q \in {2, 5} /\ s = q - 1
  <2>1. f_core.cur.byte \in {1, 3} /\ ~f_core.cur.sto
    BY <1>4, WriteFacts
  <2>2. f_core.cur.byte = FW!ReadAddress
    BY <2>1, WriteFacts DEF BusStarted
  <2>3. f_core'.bus = "read" /\ f_target'.msgs # <<>> /\ Len(Last(f_target'.msgs)) = 1
    BY <2>1, <2>2 DEF BusStarted
  <2> QED BY <1>1, <1>4, <2>3 DEF BusBehind
<1> QED BY <1>2, <1>3, <1>4

\* A byte written: a register's number or its value, which the address and the number
\* were sent before.
LEMMA WriteDone ==
    ASSUME FirmwareTypes, NEW s, NEW p, NEW q, Behind(s, p, q), BusBehind(s, p),
           f_core.cur = Writes[q], BusWritten, BusRegisters, Meant(port)
    PROVE  f_target.msgs # <<>> /\ BusBehind(s, q)' /\ Meant(port')
<1>1. q \in {1, 2, 3, 4, 5, 6} /\ p \in {0, 1, 2, 3, 4, 5} /\ q = (IF p + 1 = s THEN p + 2 ELSE p + 1)
      /\ s \in Int /\ (p # 0 => p # s)
  BY DEF Behind
<1>2. p \in {1, 2, 4, 5} /\ (p \in {2, 5} => s # p - 1) /\ f_target.msgs # <<>>
  BY <1>1 DEF BusBehind, BusWritten
<1>3. q # 4
  <2>1. ~f_core.cur.sta
    BY DEF BusWritten, FW!Starts
  <2> QED BY <2>1, WriteFacts
<1>4. q \in {2, 3, 5, 6}
  BY <1>1, <1>2, <1>3
<1> DEFINE m == Last(f_target.msgs)
           k == Last(f_target'.msgs)
           x == Writes[q].byte
<1>5. f_target'.msgs # <<>> /\ k = Append(m, x) /\ f_core'.bus = IF Writes[q].sto THEN "free" ELSE "write"
  BY <1>2 DEF BusWritten
<1>6. m \in Seq(Nat) /\ x \in Nat
  <2>1. m \in Seq(Nat)
    BY <1>2, LastMessage
  <2>2. x \in {3, 248, 1, 0}
    BY <1>4, WriteFacts
  <2> QED BY <2>1, <2>2
<1>7. \/ port' = port
      \/ Len(k) > 2 /\ k[2] \in DOMAIN port /\ port' = [port EXCEPT ![k[2]] = Last(k)]
  BY DEF BusRegisters
<1>8. CASE q \in {2, 5}
  <2>1. p = q - 1 /\ s # p
    BY <1>1, <1>2, <1>8
  <2>2. Len(m) = 1
    BY <1>8, <2>1 DEF BusBehind
  <2>3. f_core'.bus = "write"
    BY <1>5, <1>8, WriteFacts
  <2> HIDE DEF m, k, x
  <2>4. Len(k) = 2 /\ k[2] = x
    BY <1>5, <1>6, <2>2, LongerMessage
  <2>5. port' = port
    BY <1>7, <2>4
  <2>6. BusBehind(s, q)'
    <3>1. q \notin {0, 3, 6} /\ q \notin {1, 4} /\ s # q - 1
      BY <1>1, <1>8, <2>1
    <3>2. f_target'.msgs # <<>> /\ f_core'.bus = "write" /\ Len(Last(f_target'.msgs)) = 2
          /\ Last(f_target'.msgs)[2] = Writes[q].byte
      BY <1>5, <2>3, <2>4 DEF k, x
    <3> QED BY <3>1, <3>2 DEF BusBehind
  <2> QED BY <1>2, <2>5, <2>6
<1>9. CASE q \in {3, 6}
  <2>1. f_core'.bus = "free"
    BY <1>5, <1>9, WriteFacts
  <2>2. BusBehind(s, q)'
    BY <1>9, <2>1 DEF BusBehind
  <2>3. CASE p = q - 2
    <3>1. Len(m) = 1
      BY <1>9, <2>3 DEF BusBehind
    <3> HIDE DEF m, k, x
    <3>2. Len(k) = 2
      BY <1>5, <1>6, <3>1, LongerMessage
    <3>3. port' = port
      BY <1>7, <3>2
    <3> QED BY <1>2, <2>2, <3>3
  <2>4. CASE p = q - 1
    <3>1. Len(m) = 2 /\ m[2] = Writes[p].byte
      BY <1>2, <1>9, <2>4 DEF BusBehind
    <3>2. \/ m[2] = 3 /\ x = 248
          \/ m[2] = 1 /\ x = 0
      BY <1>9, <2>4, <3>1, WriteFacts
    <3> HIDE DEF m, k, x
    <3>3. k[2] = m[2] /\ Last(k) = x
      BY <1>5, <1>6, <3>1, LongerMessage
    <3>4. port' = port \/ port' = [port EXCEPT ![3] = 248] \/ port' = [port EXCEPT ![1] = 0]
      BY <1>7, <3>2, <3>3
    <3>5. Meant(port')
      BY <3>4 DEF Meant
    <3> QED BY <1>2, <2>2, <3>5
  <2> QED BY <1>1, <1>9, <2>3, <2>4
<1> QED BY <1>4, <1>8, <1>9

\* A byte that is read, where one was to be written: nothing reaches the registers.
LEMMA ReadDone ==
    ASSUME FirmwareTypes, NEW s, NEW p, NEW q, Behind(s, p, q), BusBehind(s, p),
           f_core.cur = Writes[q], BusRead, BusRegisters, Meant(port)
    PROVE  BusBehind(s, q)' /\ Meant(port')
<1>1. q \in {1, 2, 3, 4, 5, 6} /\ p \in {0, 1, 2, 3, 4, 5} /\ q = (IF p + 1 = s THEN p + 2 ELSE p + 1)
  BY DEF Behind
<1>2. p \in {2, 5} /\ s = p - 1 /\ f_target.msgs # <<>> /\ Len(Last(f_target.msgs)) = 1
  BY <1>1 DEF BusBehind, BusRead
<1>3. q = p + 1 /\ q \in {3, 6}
  BY <1>1, <1>2
<1>4. f_core'.bus = "free"
  BY <1>3, WriteFacts DEF BusRead
<1>5. BusBehind(s, q)'
  BY <1>3, <1>4 DEF BusBehind
<1>6. port' = port
  BY <1>2 DEF BusRegisters, BusRead
<1> QED BY <1>5, <1>6

\* The positions of two commands done one behind the other.
LEMMA NthBehind ==
    ASSUME NEW s \in Nat, NEW d \in Nat, NEW n \in Nat, n <= 6, s <= n,
           d + 1 <= n - (IF s = 0 THEN 0 ELSE 1)
    PROVE  Behind(s, IF d = 0 THEN 0 ELSE Nth(s, d), Nth(s, d + 1))
  BY DEF Behind, Nth

\* The bus goes on with main's commands, or fails and stops.
LEMMA BusOnTheWay ==
    ASSUME FirmwareTypes, Left, FW!Bus, Meant(port), ~FW!Failed(f_core), NEW s, NEW d, OnTheWay(s, d)
    PROVE  /\ Meant(port')
           /\ FW!Failed(f_core') => Still'
           /\ ~FW!Failed(f_core') => \E t, e \in 0..6 : OnTheWay(t, e)'
<1> DEFINE k == Len(f_core.cmds)
<1>1. /\ FirmwareTypes' /\ UNCHANGED <<todo, pc, skips>>
      /\ BusFetched \/ BusStarted \/ BusWritten \/ BusRead \/ BusFailed
      /\ BusRegisters
  BY FirmwareBus
<1>2. Tried' = Tried /\ Tried \in Nat /\ Tried <= 6
  <2>1. Len(todo) \in Nat /\ Len(todo) <= 6
    BY DEF FirmwareTypes, Left
  <2> QED BY <1>1, <2>1 DEF Tried
<1>3. f_core.cmds \in Seq(GivenCommand) /\ k \in Nat /\ OnBus1 \in {0, 1}
  BY FirmwareFields DEF OnBus1
<1>4. /\ s \in Nat /\ s <= Tried /\ d \in Nat /\ d <= 6 /\ (skips = 0 => s = 0)
      /\ d + OnBus1 + k = Tried - (IF s = 0 THEN 0 ELSE 1)
      /\ f_core.cur # FW!Nothing => f_core.cur = Writes[Nth(s, d + 1)]
      /\ \A i \in 1..k : f_core.cmds[i] = Writes[Nth(s, d + OnBus1 + i)]
      /\ BusBehind(s, IF d = 0 THEN 0 ELSE Nth(s, d))
  BY <1>2 DEF OnTheWay
<1>5. s \in 0..6 /\ d \in 0..6 /\ s \in 0..Tried
  BY <1>2, <1>4
<1> DEFINE w == IF s = 0 THEN 0 ELSE 1
<1>9. w \in Nat /\ (s = 0 => w = 0) /\ (s # 0 => w = 1) /\ d + OnBus1 + k = Tried - w
  BY <1>4
<1>6. CASE BusFetched
  <2>1. /\ f_core.cur = FW!Nothing /\ f_core.cmds # <<>> /\ f_core'.cur = Head(f_core.cmds)
        /\ f_core'.cmds = Tail(f_core.cmds) /\ f_core'.bus = f_core.bus /\ f_target' = f_target
        /\ f_core'.nack = f_core.nack /\ f_core'.arb = f_core.arb
    BY <1>6 DEF BusFetched
  <2>2. OnBus1 = 0
    BY <2>1 DEF OnBus1
  <2> DEFINE t == f_core.cmds
  <2>3. /\ k >= 1 /\ Len(Tail(t)) = k - 1 /\ Head(t) = t[1]
        /\ \A i \in 1..k - 1 : Tail(t)[i] = t[i + 1]
    BY <1>3, <2>1
  <2>4. f_core'.cur = Writes[Nth(s, d + 1)]
    <3>1. t[1] = Writes[Nth(s, d + OnBus1 + 1)] /\ d + OnBus1 + 1 = d + 1
      BY <1>3, <1>4, <2>2, <2>3
    <3> QED BY <2>1, <2>3, <3>1
  <2>5. f_core'.cur # FW!Nothing
    <3>1. d + 1 <= Tried - w
      <4> HIDE DEF w, k
      <4> QED BY <1>2, <1>3, <1>4, <1>9, <2>2, <2>3
    <3>2. d + 1 \in 1..6 /\ (s # 0 => d + 1 <= 5)
      <4> HIDE DEF w
      <4> QED BY <1>2, <1>4, <1>9, <3>1
    <3>3. Nth(s, d + 1) \in 1..6
      BY <3>2 DEF Nth
    <3> QED BY <2>4, <3>3, WriteFacts
  <2>6. OnBus1' = 1
    BY <2>5 DEF OnBus1
  <2>7. d + OnBus1' + Len(f_core'.cmds) = Tried - (IF s = 0 THEN 0 ELSE 1)
    <3>1. Len(f_core'.cmds) = k - 1
      BY <2>1, <2>3
    <3> HIDE DEF k
    <3>2. d + OnBus1' + Len(f_core'.cmds) = d + OnBus1 + k
      BY <1>3, <1>4, <2>2, <2>6, <3>1
    <3> QED BY <1>4, <3>2 DEF k
  <2>8. \A i \in 1..Len(f_core'.cmds) : f_core'.cmds[i] = Writes[Nth(s, d + OnBus1' + i)]
    <3> SUFFICES ASSUME NEW i \in 1..k - 1
                 PROVE  Tail(t)[i] = Writes[Nth(s, d + 1 + i)]
      BY <2>1, <2>3, <2>6
    <3>1. i + 1 \in 1..k /\ d + OnBus1 + (i + 1) = d + 1 + i
      BY <1>3, <1>4, <2>2
    <3>2. t[i + 1] = Writes[Nth(s, d + OnBus1 + (i + 1))]
      BY <1>4, <3>1
    <3> QED BY <2>3, <3>1, <3>2
  <2>9. BusBehind(s, IF d = 0 THEN 0 ELSE Nth(s, d))'
    BY <1>4, <2>1 DEF BusBehind
  <2>10. OnTheWay(s, d)'
    BY <1>1, <1>2, <1>4, <1>5, <2>4, <2>7, <2>8, <2>9 DEF OnTheWay
  <2>11. port' = port /\ ~FW!Failed(f_core')
    BY <1>1, <2>1 DEF BusRegisters, FW!Failed
  <2> QED BY <1>5, <2>10, <2>11
<1>7. CASE BusStarted \/ BusWritten \/ BusRead
  <2>1. /\ f_core.cur # FW!Nothing /\ f_core'.cur = FW!Nothing /\ f_core'.cmds = f_core.cmds
        /\ f_core'.nack = f_core.nack /\ f_core'.arb = f_core.arb
    BY <1>7 DEF BusStarted, BusWritten, BusRead, BusDone
  <2>2. OnBus1 = 1 /\ OnBus1' = 0
    BY <2>1 DEF OnBus1
  <2> DEFINE p == IF d = 0 THEN 0 ELSE Nth(s, d)
             q == Nth(s, d + 1)
  <2>3. Behind(s, p, q)
    <3>1. d + 1 <= Tried - (IF s = 0 THEN 0 ELSE 1)
      BY <1>2, <1>3, <1>4, <2>2
    <3> QED BY <1>2, <1>4, <3>1, NthBehind
  <2>4. f_core.cur = Writes[q] /\ BusBehind(s, p)
    BY <1>4, <2>1
  <2> HIDE DEF p
  <2>5. BusBehind(s, q)' /\ Meant(port')
    <3> HIDE DEF q
    <3> QED BY <1>1, <1>7, <2>3, <2>4, StartDone, WriteDone, ReadDone
  <2>6. d + 1 + OnBus1' + Len(f_core'.cmds) = Tried - (IF s = 0 THEN 0 ELSE 1) /\ d + 1 # 0 /\ d + 1 \in 0..6
    <3>1. Len(f_core'.cmds) = k
      BY <2>1
    <3>2. d + 1 + OnBus1' + k = d + OnBus1 + k
      <4> HIDE DEF k
      <4> QED BY <1>3, <1>4, <2>2
    <3>3. d + 1 <= 6
      <4> HIDE DEF k, w
      <4> QED BY <1>2, <1>3, <1>4, <1>9, <2>2
    <3> QED BY <1>4, <3>1, <3>2, <3>3
  <2>7. \A i \in 1..Len(f_core'.cmds) : f_core'.cmds[i] = Writes[Nth(s, d + 1 + OnBus1' + i)]
    <3> SUFFICES ASSUME NEW i \in 1..k
                 PROVE  f_core.cmds[i] = Writes[Nth(s, d + 1 + 0 + i)]
      BY <2>1, <2>2
    <3>1. d + OnBus1 + i = d + 1 + 0 + i
      BY <1>3, <1>4, <2>2
    <3> QED BY <1>4, <3>1
  <2>8. BusBehind(s, IF d + 1 = 0 THEN 0 ELSE Nth(s, d + 1))'
    BY <2>5, <2>6
  <2>9. OnTheWay(s, d + 1)'
    BY <1>1, <1>2, <1>4, <1>5, <2>1, <2>6, <2>7, <2>8 DEF OnTheWay
  <2>10. ~FW!Failed(f_core')
    BY <2>1 DEF FW!Failed
  <2> QED BY <1>5, <2>5, <2>6, <2>9, <2>10
<1>8. CASE BusFailed
  <2>1. Still' /\ FW!Failed(f_core')
    BY <1>8 DEF BusFailed, Still
  <2>2. port' = port
    BY <1>1, <1>8 DEF BusFailed, BusRegisters
  <2> QED BY <2>1, <2>2
<1> QED BY <1>1, <1>6, <1>7, <1>8

-----------------------------------------------------------------------------
(* What main does *)

\* Initialised or enabled, the core keeps its type.
LEMMA MainOperations ==
    ASSUME NEW c \in CoreType
    PROVE  /\ FW!I2cInit(c) \in CoreType /\ ~FW!I2cInit(c).en
           /\ FW!I2cInit(c).cmds = <<>> /\ FW!I2cInit(c).cur = FW!Nothing /\ FW!I2cInit(c).bus = "free"
           /\ FW!I2cInit(c).cmdthd = "not_full" /\ ~FW!Failed(FW!I2cInit(c))
           /\ FW!Enabled(c) \in CoreType /\ FW!Enabled(c).en /\ FW!Enabled(c).cmds = c.cmds
           /\ FW!Enabled(c).cur = c.cur /\ FW!Enabled(c).bus = c.bus
           /\ FW!Enabled(c).cmdthd = c.cmdthd /\ (FW!Failed(FW!Enabled(c)) <=> FW!Failed(c))
<1>1. Nothing = FW!Nothing /\ <<>> \in Seq(GivenCommand) /\ <<>> \in Seq(Nat)
  BY DEF Nothing, Command, FW!Nothing, FW!Command
<1> DEFINE e == FW!Disabled(c)
           f == FW!Cleared(e)
           g == [f EXCEPT !.ints = {}, !.cmdthd = "not_full", !.rxthd = "full"]
<1>2. e \in CoreType /\ ~e.en /\ e.cmds = <<>> /\ e.cur = FW!Nothing /\ e.bus = "free"
  BY <1>1 DEF FW!Disabled, CoreType
<1> HIDE DEF e
<1>3. /\ f \in CoreType /\ ~f.en /\ f.cmds = <<>> /\ f.cur = FW!Nothing /\ f.bus = "free"
      /\ ~f.nack /\ ~f.arb
  BY <1>2 DEF FW!Cleared, CoreType
<1> HIDE DEF f
<1>4. g \in CoreType /\ g.cmdthd = "not_full"
  BY <1>3 DEF CoreType
<1>5. g.cmds = <<>> /\ g.cur = FW!Nothing /\ g.bus = "free"
  BY <1>3 DEF CoreType
<1>6. ~g.en /\ ~g.nack /\ ~g.arb
  BY <1>3 DEF CoreType
<1> HIDE DEF g
<1>7. FW!I2cInit(c) = g
  BY DEF FW!I2cInit, g, f, e
<1>8. FW!Enabled(c) \in CoreType /\ FW!Enabled(c).en
  BY DEF FW!Enabled, CoreType
<1>9. /\ FW!Enabled(c).cmds = c.cmds /\ FW!Enabled(c).cur = c.cur /\ FW!Enabled(c).bus = c.bus
      /\ FW!Enabled(c).cmdthd = c.cmdthd /\ (FW!Enabled(c).nack <=> c.nack) /\ (FW!Enabled(c).arb <=> c.arb)
  BY DEF FW!Enabled, CoreType
<1> QED BY <1>4, <1>5, <1>6, <1>7, <1>8, <1>9 DEF FW!Failed

\* A command that is written.
LEMMA MainPushes ==
    ASSUME NEW c \in CoreType, c.en, NEW x \in GivenCommand
    PROVE  /\ FW!Pushed(c, x) \in CoreType /\ FW!Pushed(c, x).en
           /\ FW!Failed(c) => FW!Pushed(c, x) = c
           /\ ~FW!Failed(c) /\ Len(c.cmds) < FifoDepth => FW!Pushed(c, x).cmds = Append(c.cmds, x)
           /\ FW!Pushed(c, x).cur = c.cur /\ FW!Pushed(c, x).bus = c.bus
           /\ FW!Pushed(c, x).cmdthd = c.cmdthd /\ (FW!Failed(FW!Pushed(c, x)) <=> FW!Failed(c))
<1>1. Append(c.cmds, x) \in Seq(GivenCommand)
  BY DEF CoreType
<1> DEFINE t == Append(c.cmds, x)
           e == [c EXCEPT !.cmds = t]
<1> HIDE DEF t
<1>2. e \in CoreType /\ e.cmds = t
  BY <1>1 DEF CoreType, t
<1>3. e.en /\ e.cur = c.cur /\ e.bus = c.bus /\ e.cmdthd = c.cmdthd
  BY DEF CoreType
<1>4. (e.nack <=> c.nack) /\ (e.arb <=> c.arb)
  BY DEF CoreType
<1> HIDE DEF e
<1>5. FW!Pushed(c, x) = IF c.en /\ ~FW!Failed(c) /\ Len(c.cmds) < FifoDepth THEN e ELSE c
  BY DEF FW!Pushed, e, t
<1>6. FW!Pushed(c, x) = e \/ FW!Pushed(c, x) = c
  BY <1>5
<1>7. FW!Failed(c) => FW!Pushed(c, x) = c
  BY <1>5
<1>8. ~FW!Failed(c) /\ Len(c.cmds) < FifoDepth => FW!Pushed(c, x).cmds = t
  BY <1>2, <1>5
<1>9. FW!Pushed(c, x) \in CoreType /\ FW!Pushed(c, x).en /\ FW!Pushed(c, x).cur = c.cur
      /\ FW!Pushed(c, x).bus = c.bus /\ FW!Pushed(c, x).cmdthd = c.cmdthd
  BY <1>2, <1>3, <1>6
<1>10. FW!Failed(FW!Pushed(c, x)) <=> FW!Failed(c)
  BY <1>4, <1>6 DEF FW!Failed
<1> QED BY <1>7, <1>8, <1>9, <1>10 DEF t

\* main's start.
LEMMA FirmwareStarts == FW!Init => FirmwareInv
<1> SUFFICES ASSUME FW!Init PROVE FirmwareInv
  OBVIOUS
<1>1. FW!CoreReset \in CoreType
  BY DEF FW!CoreReset, CoreType, FW!Nothing, FW!Command, Nothing, Command
<1>2. /\ f_core = FW!I2cInit(FW!CoreReset) /\ pc = "open" /\ todo = Writes /\ skips = 0
      /\ port = FW!PortReset /\ f_target = [msgs |-> <<>>, sent |-> 0]
  BY DEF FW!Init, Writes
<1>3. /\ f_core \in CoreType /\ ~f_core.en /\ f_core.cmds = <<>> /\ f_core.cur = FW!Nothing
      /\ f_core.bus = "free" /\ f_core.cmdthd = "not_full" /\ ~FW!Failed(f_core)
  BY <1>1, <1>2, MainOperations
<1>4. f_target \in [msgs : Seq(Seq(Nat)), sent : Nat]
  BY <1>2
<1>5. FirmwareTypes
  BY <1>2, <1>3, <1>4, WriteFacts DEF FirmwareTypes
<1>6. Left
  BY <1>2, WriteFacts DEF Left, Tried
<1>7. Sent
  BY <1>2, <1>3 DEF Sent, Still
<1> QED BY <1>2, <1>3, <1>5, <1>6, <1>7, MeantRegisters DEF FirmwareInv

\* The bus.
LEMMA BusInv == FirmwareInv /\ FW!Bus => FirmwareInv'
<1> SUFFICES ASSUME FirmwareInv, FW!Bus PROVE FirmwareInv'
  OBVIOUS
<1>1. /\ FirmwareTypes' /\ UNCHANGED <<todo, pc, skips>>
      /\ (f_core'.en <=> f_core.en) /\ f_core'.cmdthd = f_core.cmdthd
      /\ BusFetched \/ BusStarted \/ BusWritten \/ BusRead \/ BusFailed
  BY FirmwareBus DEF FirmwareInv
<1>2. Left' /\ f_core'.cmdthd = "not_full"
  BY <1>1 DEF FirmwareInv, Left, Tried
<1>3. f_core.cur # FW!Nothing \/ f_core.cmds # <<>>
  BY <1>1 DEF BusFetched, BusStarted, BusWritten, BusRead, BusFailed, BusDone
<1>4. ~Still
  BY <1>3 DEF Still
<1>5. pc \in {"write", "done"} /\ f_core.en /\ ~FW!Failed(f_core)
  BY <1>4 DEF FirmwareInv, Sent, FirmwareTypes
<1>6. CASE skips <= 1
  <2>1. PICK s, d \in 0..6 : OnTheWay(s, d)
    BY <1>5, <1>6 DEF FirmwareInv, Sent
  <2>2. /\ Meant(port')
        /\ FW!Failed(f_core') => Still'
        /\ ~FW!Failed(f_core') => \E t, e \in 0..6 : OnTheWay(t, e)'
    BY <1>5, <1>6, <2>1, BusOnTheWay DEF FirmwareInv
  <2>3. Sent'
    BY <1>1, <1>5, <2>2 DEF Sent
  <2> QED BY <1>1, <1>2, <2>2, <2>3 DEF FirmwareInv
<1>7. CASE ~(skips <= 1)
  <2>1. FW!Failed(f_core') => Still'
    <3>1. CASE BusFailed
      BY <3>1 DEF BusFailed, Still
    <3>2. CASE ~BusFailed
      <4>1. f_core'.nack = f_core.nack /\ f_core'.arb = f_core.arb
        BY <1>1, <3>2 DEF BusFetched, BusStarted, BusWritten, BusRead, BusDone
      <4> QED BY <1>5, <4>1 DEF FW!Failed
    <3> QED BY <3>1, <3>2
  <2>2. ~(skips' <= 1)
    BY <1>1, <1>7
  <2>3. Sent'
    BY <1>1, <1>5, <2>1, <2>2 DEF Sent
  <2> QED BY <1>1, <1>2, <2>2, <2>3 DEF FirmwareInv
<1> QED BY <1>6, <1>7

\* The list of writes after one of them.
LEMMA NextWrite ==
    ASSUME FirmwareTypes, Left, todo # <<>>, todo' = Tail(todo)
    PROVE  /\ Head(todo) \in GivenCommand /\ todo' \in Seq(GivenCommand)
           /\ Tried \in 0..5 /\ Tried' = Tried + 1 /\ Head(todo) = Writes[Tried + 1]
           /\ Len(todo') <= 6 /\ \A i \in 1..Len(todo') : todo'[i] = Writes[Tried' + i]
<1> DEFINE t == todo
<1>1. t \in Seq(GivenCommand) /\ t # <<>> /\ Len(t) <= 6
      /\ \A i \in 1..Len(t) : t[i] = Writes[(6 - Len(t)) + i]
  BY DEF FirmwareTypes, Left, Tried
<1> HIDE DEF t
<1>2. /\ Len(t) \in 1..6 /\ Head(t) = t[1] /\ Head(t) \in GivenCommand /\ Tail(t) \in Seq(GivenCommand)
      /\ Len(Tail(t)) = Len(t) - 1 /\ \A i \in 1..Len(t) - 1 : Tail(t)[i] = t[i + 1]
  <2>1. t \in Seq(GivenCommand) /\ t # <<>> /\ Len(t) <= 6
    BY <1>1
  <2>2. Len(t) \in 1..6
    <3>1. Len(t) \in Nat
      BY <2>1
    <3>2. Len(t) # 0
      BY <2>1, EmptySeq
    <3>3. Len(t) <= 6
      BY <2>1
    <3>4. PICK n \in Nat : n = Len(t)
      BY <3>1
    <3>5. n # 0 /\ n <= 6
      BY <3>2, <3>3, <3>4
    <3>6. n \in 1..6
      BY <3>5
    <3> QED BY <3>4, <3>6
  <2>3. Head(t) = t[1] /\ t[1] \in GivenCommand
    BY <2>1, <2>2
  <2>4. /\ Tail(t) \in Seq(GivenCommand) /\ Len(Tail(t)) = Len(t) - 1
        /\ \A i \in 1..Len(t) - 1 : Tail(t)[i] = t[i + 1]
    BY <2>1, <2>2
  <2> QED BY <2>2, <2>3, <2>4
<1>3. Head(t) = Writes[(6 - Len(t)) + 1]
  BY <1>1, <1>2
<1>4. \A i \in 1..Len(Tail(t)) : Tail(t)[i] = Writes[(6 - Len(Tail(t))) + i]
  <2> SUFFICES ASSUME NEW i \in 1..Len(t) - 1
               PROVE  Tail(t)[i] = Writes[(6 - (Len(t) - 1)) + i]
    BY <1>2
  <2>1. i + 1 \in 1..Len(t) /\ (6 - Len(t)) + (i + 1) = (6 - (Len(t) - 1)) + i
    BY <1>2
  <2>2. t[i + 1] = Writes[(6 - Len(t)) + (i + 1)]
    BY <1>1, <2>1
  <2> QED BY <1>2, <2>1, <2>2
<1>5. 6 - Len(t) \in 0..5 /\ 6 - Len(Tail(t)) = (6 - Len(t)) + 1 /\ Len(Tail(t)) <= 6
  <2>1. \A n \in 1..6 : 6 - n \in 0..5 /\ 6 - (n - 1) = (6 - n) + 1 /\ n - 1 <= 6
    OBVIOUS
  <2>2. Len(t) \in 1..6 /\ Len(Tail(t)) = Len(t) - 1
    BY <1>2
  <2> QED BY <2>1, <2>2
<1> QED BY <1>2, <1>3, <1>4, <1>5 DEF t, Tried

\* A write that main makes.
LEMMA WriteOnTheWay ==
    ASSUME FirmwareInv, pc = "write", todo # <<>>, todo' = Tail(todo), ~FW!Failed(f_core), f_core.en,
           Len(f_core.cmds) < FifoDepth, f_core' = FW!Pushed(f_core, Head(todo)),
           UNCHANGED <<f_target, skips>>, NEW s, NEW d, OnTheWay(s, d)
    PROVE  OnTheWay(s, d)'
<1> DEFINE k == Len(f_core.cmds)
           x == Head(todo)
           w == IF s = 0 THEN 0 ELSE 1
<1>1. /\ x \in GivenCommand /\ x = Writes[Tried + 1] /\ Tried \in 0..5 /\ Tried' = Tried + 1
      /\ f_core \in CoreType /\ f_core.cmds \in Seq(GivenCommand) /\ k \in Nat /\ OnBus1 \in {0, 1}
  BY NextWrite, FirmwareFields DEF FirmwareInv, FirmwareTypes, OnBus1
<1>2. f_core'.cmds = Append(f_core.cmds, x) /\ f_core'.cur = f_core.cur /\ f_core'.bus = f_core.bus
  BY <1>1, MainPushes
<1>3. OnBus1' = OnBus1
  BY <1>2 DEF OnBus1
<1>4. /\ s \in 0..Tried /\ d \in 0..6 /\ (skips = 0 => s = 0)
      /\ d + OnBus1 + k = Tried - w
      /\ f_core.cur # FW!Nothing => f_core.cur = Writes[Nth(s, d + 1)]
      /\ \A i \in 1..k : f_core.cmds[i] = Writes[Nth(s, d + OnBus1 + i)]
      /\ BusBehind(s, IF d = 0 THEN 0 ELSE Nth(s, d))
  BY DEF OnTheWay
<1>5. w \in {0, 1} /\ (s = 0 => w = 0) /\ (s # 0 => w = 1)
  OBVIOUS
<1> DEFINE t == f_core.cmds
<1>6. /\ Len(Append(t, x)) = k + 1 /\ Append(t, x)[k + 1] = x
      /\ \A i \in 1..k : Append(t, x)[i] = t[i]
  <2> HIDE DEF x
  <2> QED BY <1>1
<1> HIDE DEF x, w, k
<1>7. s \in 0..Tried' /\ d + OnBus1' + Len(f_core'.cmds) = Tried' - w
  <2>1. s \in 0..Tried'
    BY <1>1, <1>4
  <2>2. Len(f_core'.cmds) = k + 1
    BY <1>2, <1>6
  <2>3. d + OnBus1' + (k + 1) = (d + OnBus1 + k) + 1
    <3>1. d \in Nat /\ k \in Nat /\ OnBus1 \in Nat /\ OnBus1' = OnBus1
      BY <1>1, <1>3, <1>4 DEF k
    <3> QED BY <3>1
  <2>4. Tried' - w = (Tried - w) + 1
    BY <1>1, <1>5
  <2> QED BY <1>4, <2>1, <2>2, <2>3, <2>4
<1>8. Nth(s, d + OnBus1 + (k + 1)) = Tried + 1
  <2>1. d + OnBus1 + (k + 1) = (Tried - w) + 1
    BY <1>1, <1>4, <1>5
  <2>2. s # 0 => ~((Tried - w) + 1 < s) /\ (Tried - w) + 1 + 1 = Tried + 1
    BY <1>1, <1>4, <1>5
  <2>3. s = 0 => (Tried - w) + 1 = Tried + 1
    BY <1>1, <1>5
  <2> QED BY <2>1, <2>2, <2>3 DEF Nth
<1>9. \A i \in 1..Len(f_core'.cmds) : f_core'.cmds[i] = Writes[Nth(s, d + OnBus1' + i)]
  <2> SUFFICES ASSUME NEW i \in 1..k + 1
               PROVE  Append(t, x)[i] = Writes[Nth(s, d + OnBus1 + i)]
    BY <1>2, <1>3, <1>6
  <2>1. CASE i = k + 1
    BY <1>1, <1>6, <1>8, <2>1
  <2>2. CASE i # k + 1
    <3>1. i \in 1..k
      BY <1>1, <2>2 DEF k
    <3> QED BY <1>4, <1>6, <3>1
  <2> QED BY <2>1, <2>2
<1>10. BusBehind(s, IF d = 0 THEN 0 ELSE Nth(s, d))'
  BY <1>2, <1>4 DEF BusBehind
<1> QED BY <1>2, <1>4, <1>7, <1>9, <1>10 DEF OnTheWay, w

\* The first write that main skips.
LEMMA SkipOnTheWay ==
    ASSUME FirmwareInv, pc = "write", todo # <<>>, todo' = Tail(todo),
           UNCHANGED <<f_core, f_target>>, skips = 0, skips' = 1, NEW s, NEW d, OnTheWay(s, d)
    PROVE  \E t \in 0..6 : OnTheWay(t, d)'
<1> DEFINE k == Len(f_core.cmds)
<1>1. /\ Tried \in 0..5 /\ Tried' = Tried + 1 /\ f_core.cmds \in Seq(GivenCommand) /\ k \in Nat /\ OnBus1 \in {0, 1}
      /\ OnBus1' = OnBus1
  BY NextWrite, FirmwareFields DEF FirmwareInv, OnBus1
<1>2. /\ s = 0 /\ d \in 0..6 /\ d + OnBus1 + k = Tried
      /\ f_core.cur # FW!Nothing => f_core.cur = Writes[Nth(0, d + 1)]
      /\ \A i \in 1..k : f_core.cmds[i] = Writes[Nth(0, d + OnBus1 + i)]
      /\ BusBehind(0, IF d = 0 THEN 0 ELSE Nth(0, d))
  <2>1. s = 0
    BY DEF OnTheWay
  <2>2. d \in 0..6 /\ d + OnBus1 + k = Tried
    <3>1. d \in 0..6 /\ d + OnBus1 + k = Tried - 0
      BY <2>1 DEF OnTheWay
    <3>2. Tried - 0 = Tried
      BY <1>1
    <3> QED BY <3>1, <3>2
  <2>3. /\ f_core.cur # FW!Nothing => f_core.cur = Writes[Nth(0, d + 1)]
        /\ \A i \in 1..k : f_core.cmds[i] = Writes[Nth(0, d + OnBus1 + i)]
        /\ BusBehind(0, IF d = 0 THEN 0 ELSE Nth(0, d))
    BY <2>1 DEF OnTheWay
  <2> HIDE DEF k
  <2> QED BY <2>1, <2>2, <2>3
<1>3. PICK v \in 1..6 : v = Tried + 1
  BY <1>1
<1>4. \A j \in 0..v - 1 : Nth(v, j) = Nth(0, j) /\ Nth(0, j) = j
  BY <1>3 DEF Nth
<1> HIDE DEF k
<1>5. d \in 0..v - 1 /\ d + OnBus1 + k = v - 1 /\ (OnBus1 = 1 => d + 1 \in 0..v - 1)
      /\ \A i \in 1..k : d + OnBus1 + i \in 0..v - 1
  <2>1. PICK o \in {0, 1} : o = OnBus1
    BY <1>1
  <2>2. d + o + k = v - 1 /\ d \in Nat /\ k \in Nat
    BY <1>1, <1>2, <1>3, <2>1
  <2>3. d \in 0..v - 1 /\ (o = 1 => d + 1 \in 0..v - 1) /\ \A i \in 1..k : d + o + i \in 0..v - 1
    BY <1>3, <2>2
  <2> QED BY <2>1, <2>2, <2>3
<1>6. f_core.cur # FW!Nothing => f_core.cur = Writes[Nth(v, d + 1)]
  BY <1>2, <1>4, <1>5 DEF OnBus1
<1>7. \A i \in 1..k : f_core.cmds[i] = Writes[Nth(v, d + OnBus1 + i)]
  BY <1>2, <1>4, <1>5
<1>8. BusBehind(v, IF d = 0 THEN 0 ELSE Nth(v, d))
  <2>1. (IF d = 0 THEN 0 ELSE Nth(0, d)) = d /\ (IF d = 0 THEN 0 ELSE Nth(v, d)) = d
    BY <1>4, <1>5
  <2>2. d \in 0..6 /\ d <= v - 1 /\ BusBehind(0, d)
    BY <1>2, <1>5, <2>1
  <2>3. d \in {2, 5} => v # d - 1 /\ 0 # d - 1
    BY <1>3, <2>2
  <2>4. BusBehind(v, d)
    BY <2>2, <2>3 DEF BusBehind
  <2> QED BY <2>1, <2>4
<1>9. BusBehind(v, IF d = 0 THEN 0 ELSE Nth(v, d))'
  BY <1>8 DEF BusBehind
<1>10. v \in 0..Tried' /\ skips' # 0 /\ v # 0 /\ d + OnBus1' + Len(f_core'.cmds) = Tried' - 1
  <2>1. f_core'.cmds = f_core.cmds
    OBVIOUS
  <2>2. v \in 0..Tried' /\ skips' # 0 /\ v # 0 /\ Tried' - 1 = v - 1
    BY <1>1, <1>3
  <2> QED BY <1>1, <1>5, <2>1, <2>2 DEF k
<1>11. OnTheWay(v, d)'
  BY <1>1, <1>2, <1>6, <1>7, <1>9, <1>10 DEF OnTheWay, k
<1> QED BY <1>11

\* A write, made or skipped.
LEMMA CmdWriteInv == FirmwareInv /\ FW!CmdWrite => FirmwareInv'
<1> SUFFICES ASSUME FirmwareInv, FW!CmdWrite PROVE FirmwareInv'
  OBVIOUS
<1>1. /\ FirmwareTypes /\ Left /\ Sent /\ pc = "write" /\ todo # <<>> /\ f_core.cmdthd = "not_full"
      /\ f_core \in CoreType /\ f_core.en /\ skips \in Nat
      /\ FW!Failed(f_core) => Still
      /\ ~FW!Failed(f_core) /\ skips <= 1 => \E s, d \in 0..6 : OnTheWay(s, d)
      /\ skips <= 1 => Meant(port)
  BY DEF FirmwareInv, Left, Sent, FirmwareTypes, FW!CmdWrite
<1>2. /\ todo' = Tail(todo) /\ UNCHANGED <<f_target, port>>
      /\ pc' \in {"write", "done"} /\ (pc' = "write" => todo' # <<>>)
      /\ \/ FW!TxReady(f_core) /\ f_core' = FW!Pushed(f_core, Head(todo)) /\ skips' = skips
         \/ skips' = skips + 1 /\ f_core' = f_core
  BY DEF FW!CmdWrite, FW!MayWrite
<1>3. /\ Head(todo) \in GivenCommand /\ todo' \in Seq(GivenCommand)
      /\ Len(todo') <= 6 /\ \A i \in 1..Len(todo') : todo'[i] = Writes[Tried' + i]
  BY <1>1, <1>2, NextWrite
<1>4. Left'
  BY <1>2, <1>3 DEF Left
<1>5. CASE FW!TxReady(f_core) /\ f_core' = FW!Pushed(f_core, Head(todo)) /\ skips' = skips
  <2> DEFINE x == Head(todo)
  <2>1. /\ f_core' \in CoreType /\ f_core'.en /\ f_core'.cur = f_core.cur /\ f_core'.bus = f_core.bus
        /\ f_core'.cmdthd = f_core.cmdthd /\ (FW!Failed(f_core') <=> FW!Failed(f_core))
        /\ FW!Failed(f_core) => f_core' = f_core
    <3>1. x \in GivenCommand /\ f_core' = FW!Pushed(f_core, x)
      BY <1>3, <1>5
    <3> HIDE DEF x
    <3> QED BY <1>1, <3>1, MainPushes
  <2>2. FirmwareTypes'
    BY <1>1, <1>2, <1>3, <1>5, <2>1 DEF FirmwareTypes
  <2>3. FW!Failed(f_core') => Still'
    BY <1>1, <2>1 DEF Still
  <2>4. ASSUME ~FW!Failed(f_core'), skips' <= 1
        PROVE  (\E s, d \in 0..6 : OnTheWay(s, d))'
    <3>1. PICK s, d \in 0..6 : OnTheWay(s, d)
      BY <1>1, <1>5, <2>1, <2>4
    <3>2. Len(f_core.cmds) < FifoDepth
      BY <1>1, <1>5 DEF FW!TxReady
    <3>3. OnTheWay(s, d)'
      BY <1>1, <1>2, <1>5, <2>1, <2>4, <3>1, <3>2, WriteOnTheWay
    <3> QED BY <3>3
  <2>5. Sent'
    BY <1>2, <2>1, <2>3, <2>4 DEF Sent
  <2>6. (skips <= 1 => Meant(port))'
    BY <1>1, <1>2, <1>5 DEF Meant
  <2> QED BY <1>1, <1>4, <2>1, <2>2, <2>5, <2>6 DEF FirmwareInv
<1>6. CASE skips' = skips + 1 /\ f_core' = f_core
  <2>1. FirmwareTypes'
    BY <1>1, <1>2, <1>3, <1>6 DEF FirmwareTypes
  <2>2. FW!Failed(f_core') => Still'
    BY <1>1, <1>6 DEF Still
  <2>3. ASSUME ~FW!Failed(f_core'), skips' <= 1
        PROVE  (\E s, d \in 0..6 : OnTheWay(s, d))'
    <3>1. skips = 0 /\ skips' = 1
      BY <1>1, <1>6, <2>3
    <3>2. PICK s, d \in 0..6 : OnTheWay(s, d)
      BY <1>1, <1>6, <2>3, <3>1
    <3>3. \E t \in 0..6 : OnTheWay(t, d)'
      BY <1>1, <1>2, <1>6, <3>1, <3>2, SkipOnTheWay
    <3> QED BY <3>3
  <2>4. Sent'
    BY <1>1, <1>2, <1>6, <2>2, <2>3 DEF Sent
  <2>5. (skips <= 1 => Meant(port))'
    BY <1>1, <1>2, <1>6 DEF Meant
  <2> QED BY <1>1, <1>4, <1>6, <2>1, <2>4, <2>5 DEF FirmwareInv
<1> QED BY <1>2, <1>5, <1>6

\* main before its writes.
LEMMA SetupInv == FirmwareInv /\ (FW!Open \/ FW!Setup \/ FW!Enable) => FirmwareInv'
<1> SUFFICES ASSUME FirmwareInv, FW!Open \/ FW!Setup \/ FW!Enable PROVE FirmwareInv'
  OBVIOUS
<1>1. /\ pc \in {"open", "setup", "enable"} /\ FirmwareTypes /\ f_core \in CoreType /\ ~f_core.en /\ Still
      /\ todo = Writes /\ skips = 0 /\ ~FW!Failed(f_core) /\ f_core.cmdthd = "not_full" /\ Meant(port)
      /\ UNCHANGED <<f_target, todo, skips, port>>
  BY DEF FirmwareInv, Sent, FirmwareTypes, FW!Open, FW!Setup, FW!Enable
<1>2. /\ f_core' \in CoreType /\ f_core'.cmdthd = "not_full" /\ Still' /\ ~FW!Failed(f_core')
      /\ \/ pc' \in {"failed", "setup", "enable"} /\ ~f_core'.en
         \/ pc' = "write" /\ f_core'.en
  <2>1. CASE FW!Open
    BY <1>1, <2>1 DEF FW!Open, Still
  <2>2. CASE FW!Setup
    BY <1>1, <2>2, MainOperations DEF FW!Setup, Still
  <2>3. CASE FW!Enable
    BY <1>1, <2>3, MainOperations DEF FW!Enable, Still
  <2> QED BY <2>1, <2>2, <2>3
<1>3. FirmwareTypes'
  BY <1>1, <1>2 DEF FirmwareTypes, Still
<1>4. Left'
  <2>1. todo' = Writes /\ Len(Writes) = 6
    BY <1>1, WriteFacts
  <2>2. Writes # <<>>
    BY <2>1
  <2> QED BY <2>1, <2>2 DEF Left, Tried
<1>5. OnTheWay(0, 0)'
  <2>1. Tried' = 0
    BY <1>1, WriteFacts DEF Tried
  <2>2. OnBus1' = 0 /\ f_core'.cmds = <<>> /\ f_core'.cur = FW!Nothing /\ f_core'.bus = "free"
    BY <1>2 DEF Still, OnBus1
  <2>3. BusBehind(0, 0)'
    BY <2>2 DEF BusBehind
  <2>4. Len(f_core'.cmds) = 0
    BY <2>2
  <2> QED BY <1>1, <2>1, <2>2, <2>3, <2>4 DEF OnTheWay
<1>6. Sent'
  <2>1. \E s, d \in 0..6 : OnTheWay(s, d)'
    BY <1>5
  <2> QED BY <1>1, <1>2, <2>1 DEF Sent
<1>7. Meant(port)'
  BY <1>1 DEF Meant
<1> QED BY <1>2, <1>3, <1>4, <1>6, <1>7 DEF FirmwareInv

\* A step of the firmware.
LEMMA FirmwareNext == FirmwareInv /\ [FW!Next]_(FW!vars) => FirmwareInv'
<1>1. ASSUME FirmwareInv, UNCHANGED FW!vars PROVE FirmwareInv'
  <2>1. UNCHANGED <<f_core, f_target, pc, todo, skips, port>>
    BY <1>1 DEF FW!vars, FW!main
  <2>2. FirmwareTypes' /\ Left' /\ (Meant(port) => Meant(port)')
    BY <1>1, <2>1 DEF FirmwareInv, FirmwareTypes, Left, Tried, Meant
  <2>3. Tried' = Tried /\ OnBus1' = OnBus1 /\ (Still => Still') /\ (FW!Failed(f_core') <=> FW!Failed(f_core))
    BY <2>1 DEF Tried, OnBus1, Still, FW!Failed
  <2>4. \A s, d \in 0..6 : OnTheWay(s, d) => OnTheWay(s, d)'
    <3> SUFFICES ASSUME NEW s \in 0..6, NEW d \in 0..6, OnTheWay(s, d) PROVE OnTheWay(s, d)'
      OBVIOUS
    <3>1. BusBehind(s, IF d = 0 THEN 0 ELSE Nth(s, d))'
      BY <2>1 DEF OnTheWay, BusBehind
    <3> QED BY <2>1, <2>3, <3>1 DEF OnTheWay
  <2>5. Sent'
    BY <1>1, <2>1, <2>3, <2>4 DEF FirmwareInv, Sent
  <2> QED BY <1>1, <2>1, <2>2, <2>5 DEF FirmwareInv
<1> QED BY <1>1, CmdWriteInv, SetupInv, BusInv DEF FW!Next, FW!Main

\* As long as main skips one of its command writes at most, a register of the port expander
\* holds its reset value or the one main means for it: no failure, and no target address,
\* makes the expander take a byte for another one.
THEOREM RegistersAsMeant == FW!Spec => [](skips <= 1 => NoWrongRegister)
<1>1. FW!Spec => []FirmwareInv
  BY FirmwareStarts, FirmwareNext, PTL DEF FW!Spec
<1>2. FirmwareInv => (skips <= 1 => NoWrongRegister)
  BY MeantRegisters DEF FirmwareInv
<1> QED BY <1>1, <1>2, PTL

-----------------------------------------------------------------------------
(* The run, in which either program runs *)

\* A step of the run is one of the driver or one of the firmware, or none of the two.
LEMMA EitherRuns ==
    /\ BothInit => Init /\ FW!Init
    /\ [BothNext]_<<block, vars, firmware>> => [Next]_vars /\ [FW!Next]_(FW!vars)
<1>1. BothInit => Init /\ FW!Init
  BY DEF BothInit
<1>2. UNCHANGED firmware => UNCHANGED FW!vars
  BY DEF firmware, FW!vars, FW!main
<1>3. BothNext => [Next]_vars /\ [FW!Next]_(FW!vars)
  BY <1>2 DEF BothNext
<1>4. UNCHANGED <<block, vars, firmware>> => UNCHANGED vars /\ UNCHANGED firmware
  OBVIOUS
<1> QED BY <1>1, <1>2, <1>3, <1>4

\* In the run a register of the port expander gets no value that is not meant for it,
\* whatever fails and wherever main skips a command write.
THEOREM NoRegisterIsWrong == ASSUME MaxSkips \in {0, 1} PROVE BothSpec => []NoWrongRegister
<1> DEFINE Once == skips \in Nat /\ skips <= 1
<1>1. BothInit => FirmwareInv /\ Once
  <2>1. FW!Init => Once
    BY DEF FW!Init
  <2> QED BY <2>1, EitherRuns, FirmwareStarts
<1>2. FirmwareInv /\ Once /\ [BothNext]_<<block, vars, firmware>> => FirmwareInv' /\ Once'
  <2> SUFFICES ASSUME FirmwareInv, Once, [FW!Next]_(FW!vars) PROVE FirmwareInv' /\ Once'
    BY EitherRuns
  <2>1. skips' = skips \/ (skips < MaxSkips /\ skips' = skips + 1)
    BY DEF FW!Next, FW!Main, FW!Open, FW!Setup, FW!Enable, FW!CmdWrite, FW!Bus, FW!vars, FW!main
  <2> QED BY <2>1, FirmwareNext
<1>3. FirmwareInv /\ Once => NoWrongRegister
  BY MeantRegisters DEF FirmwareInv
<1> QED BY <1>1, <1>2, <1>3, PTL DEF BothSpec

===============================================================================
