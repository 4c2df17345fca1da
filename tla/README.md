# c10gx_icmp_server: specifications, model checking and proofs

The repository is a ping server in an FPGA: a 10G Ethernet MAC, a receive path that
sorts frames by protocol, an ARP responder, a chain of four blocks that turns an echo
request into an echo reply, and a transmit path that merges and buffers the answers. Beside
it a Nios II processor runs a small C program that sets up the SFP cage through an I2C port
expander and prints to a JTAG UART. This directory models the blocks, the program and the
drivers under it in TLA+, checks them with TLC and proves their safety properties with TLAPS. Paths below are relative to the repository's root.

## 1. The system

### 1.1 Parts and how they interact

```
 MAC rx -> l8_to_ulong2 -> rx_split_by_etype -+-ARP---> arp_proc ---------------------+
             (MAC to HLS)                     |            ^ ch_pps_in (1 pulse/s)    |
                                              +-IPv4--> rx_split_by_ipv4proto         |
                                              +-other-> rx_split_discard |            |
                                                                         |            v
   +-ICMP----------------------------------------------------------------+         tx_merge
   |                                     other -> rx_split_discard                 ^  |
   v                                                                               |  |
 icmp_proc_swapmac -> icmp_proc_swapip -> icmp_proc_param -> icmp_proc_ipv4chksum -+  |
                                                                                      v
                                         MAC tx <- l8_pkt_buf <- ulong2_to_l8 <-------+
```

All arrows are Avalon-ST streams of 8-byte beats with `sop`, `eop` and `empty`
(`L8_AVALON_ST_PKT`). A beat moves in a clock in which the sender holds `valid` and
the receiver holds `ready`. There is no other communication between the blocks, no
shared memory and no software on the data path.

```
 alt_main -> alt_sys_init -> alt_io_redirect -> main (enet_nios_proc.c)
               |    |              |              |           |
               |    +-- registers--+--> HAL file descriptors  |
               |                   |         | read, write    |
               |                   v         v                v
               +--> I2C driver   device   JTAG UART driver   I2C driver <-> interrupt routine
                     (init)      lists     <-> interrupt       |
                                           <-> clock         I2C core -> port expander
```

The firmware (`src/enet_nios_proc/enet_nios_proc/`) and its board support package
(`src/enet_nios_proc/enet_nios_proc_bsp/`, below *BSP*) run on one processor without an
operating system: one thread, and interrupt routines that cut into it.

The HLS components (`*.cpp`) are compiled with `hls_always_run_component` and
`hls_stall_free_return`: a call of the C++ function is one clock, its `static`
variables are registers, and statements see the registers in program order. The
Verilog blocks (`*.v`) clock all their registers together. So one invocation, or one
clock, is one atomic step in every model. What is concurrent is the environment: which
beats arrive when, and which outputs are accepted when. In the software a step is one access
to what an interrupt routine or the hardware shares; the hardware takes its own steps.

| part | source | state | operations |
| --- | --- | --- | --- |
| `rx_split_by_etype` | `src/rx_split/rx_split.cpp:109` | three pipeline registers, a register per lane, `output_state` | invocation |
| `rx_split_by_ipv4proto` | `rx_split.cpp:234` | four pipeline registers, a register per lane, `output_state` | invocation |
| `rx_split_discard` | `rx_split.cpp:101` | none | reads and drops |
| `arp_proc` | `src/arp_proc/arp_proc.cpp:117` | six reception registers, sender with mode, index and two pending flags, reply address, gateway entry and its age | invocation; pulse |
| `icmp_proc_swapmac`, `_swapip` | `src/icmp_proc/icmp_proc.cpp:94`, `:163` | three registers, beat counter | invocation |
| `icmp_proc_param` | `icmp_proc.cpp:239` | two registers, beat counter | invocation |
| `icmp_proc_ipv4chksum` | `icmp_proc.cpp:293` | four registers, beat counter, one sum register | invocation |
| `tx_merge` | `src/tx_merge/tx_merge.cpp:135` | a register per lane, output register, `port_select` | invocation |
| `l8_to_ulong2`, `ulong2_to_l8` | the `.v` files of those names, `src/common/fifo_80x8.v` | 8-word FIFO, ready and data flags, output register | clock |
| `l8_pkt_buf` | `src/l8_pkt_buf/*.v` | 2048-word FIFO, frame counter with two delay registers, ready and data flags, output register | clock |
| pulse and heart beat | `src/top/top.v:186-231` | two counters | clock |
| firmware | `src/enet_nios_proc/enet_nios_proc/enet_nios_proc.c` | none of its own; registers of the port expander | find the controller, initialise, six command writes |
| I2C driver | BSP `drivers/src/altera_avalon_i2c.c` | list of controllers, the application's `IRQ_DATA_t`, registers of the core | transmit and receive, polled and with interrupts, retries, callback, status query |
| JTAG UART driver | BSP `drivers/src/altera_avalon_jtag_uart_*.c` | two rings, enabled interrupts, host's absence | read, write, close, time-out, interrupt routine, clock routine |
| HAL descriptors | BSP `HAL/src/alt_open.c`, `alt_close.c`, `alt_get_fd.c`, `alt_fd_lock.c`, ... | pool, its mark, exclusive flags | open, close, read, write, lock, redirection |
| HAL lists | BSP `HAL/inc/sys/alt_llist.h`, `HAL/src/alt_find_*.c` | circular lists | insert, search |

(Where a text below names only a file, it is the one of that name under `src/`.)

### 1.2 What is hard about it

- **Bubbles and stalls.** Every block must behave the same wherever gaps fall in its
  input and however its output stalls. The HLS blocks look ahead (a lane is decided by
  a field one to three beats behind the first) or combine neighbouring beats (the two
  halves of an address), so a gap changes which beats stand next to each other.
- **Neighbouring frames.** Frames follow back to back. The look-ahead may see the next
  frame; the ARP reception window may hold beats of two; the one sum register is begun
  for a frame while the one before still needs it.
- **Late flags.** The Verilog blocks register their ready and data flags: they speak of
  one or two clocks ago. Room must be left, and what is popped now must be subtracted.
- **Events in one clock.** A pulse with an announcement; a frame entering with one
  leaving; a reply and a request becoming pending.
- **State read over several steps.** A reply's address is read during six steps while
  a newer query may replace it.
- **Arithmetic at the edges.** Ones' complement with two zeros, borrow, carry of a
  carry, an 8-bit beat index.
- **Interrupt routines.** They share indices, enable bits and status bits with the code
  they cut into. A bit switched off a moment too late is a wake-up that never comes; a
  status bit cleared too early is an error nobody sees.
- **Faults on the bus.** A byte that is not acknowledged, a lost arbitration and a loop that
  gives up can each come at every step of a transaction, which is then left, or tried again.
- **Sequences of calls.** A device initialised twice, a descriptor taken, locked, given back
  and taken again, a standard stream closed.
- **Everything must come out.** A block that waits for a beat that cannot come holds
  the whole chain, for there is one path.

`PROJECT.json` lists these hazards at their lines with the properties aimed at them.

### 1.3 What makes each part correct

- splitters: each frame whole, in order, once, on the lane of its type; no frame waits
  for another one;
- `tx_merge`: frames of the two lanes never mix, nothing is lost, ARP first, both served;
- `arp_proc`: output is whole frames; decisions are taken on fields of one frame; replies
  carry an asker's addresses; requests go out when, and only when, the entry expired;
- ICMP chain: the reply is the request with its addresses exchanged, type 0, an ICMP
  checksum exactly as good as the request's and the right header checksum;
- bridges: FIFO order, no overflow or underflow, tail bytes at the right end;
- `l8_pkt_buf`: FIFO order, no overflow, an exact frame count, and a frame that has begun
  on the MAC's side never pauses;
- I2C driver: success means that the target took part in every byte; no byte lands twice or
  beyond a buffer; the core is released whatever failed; a transaction with interrupts ends;
- firmware: the expander's registers get no value meant for something else;
- JTAG UART: characters arrive in order and once, no wake-up is lost, calls return;
- HAL: exclusive access is respected, failed opens leave nothing behind, the standard streams
  always lead somewhere, searches see every descriptor and end.

## 2. The modules

| module | models | notes |
| --- | --- | --- |
| `L8Stream` | beats, framing, one-beat registers | extended by every component |
| `Demux` | abstract splitter: each lane gets its beats in order, once | refined by both splitters |
| `Fifo` | abstract FIFO | refined by the bridges and the packet buffer |
| `RxSplitByEtype`, `RxSplitByIpv4Proto` | the splitters | |
| `TxMerge` | `tx_merge` | |
| `ArpProc` | `arp_proc` | `Pulse` is the pulse generator's write |
| `IcmpProcSwap` | `icmp_proc_swapmac` and `icmp_proc_swapip` | `Field`, chosen in `Init`, says which |
| `IcmpProcParam`, `IcmpProcIpv4Chksum` | the blocks of those names | arithmetic in `OnesComplement` |
| `OnesComplement` | the 16-bit checksum operations and their reference definition | no state |
| `L8Bridge` | both bridges with `fifo_80x8` | `Direction`, chosen in `Init`, says which |
| `L8PktBuf` | `l8_pkt_buf` with `fifo_80x2048` | Intel's `scfifo` is external |
| `I2cCore` | the Avalon I2C core and the target on the bus | external: from the driver's use and its register header; the assumptions are in the module's head |
| `I2cDriver` | the I2C driver | beside `I2cCore` |
| `Firmware` | `main` and the driver's initialisation | beside `I2cCore`, with the port expander |
| `DeviceList` | the HAL's circular lists and the searches through them | operators on a function of successors; used by `Firmware` and `HalFd` |
| `HalFd` | the pool of descriptors, start-up, exclusive access | a system call is a step |
| `JtagUart` | the JTAG UART driver, its interrupt and clock routines | the device's FIFOs and the host are its environment |
| `L8Stream_proofs`, `RxPath_proofs`, `TxPath_proofs`, `Icmp_proofs`, `ArpProc_proofs`, `I2c_proofs`, `I2cBytes_proofs`, `Stdio_proofs` | theorems | section 5 |
| `MC*` | constants for TLC, and which components share a run | section 3 |

**State and actions of the data path.** The variables are the source's registers, by their names; a
register with its `_en` flag is a sequence of at most one beat. `Invoke` (HLS) or
`Clock` (Verilog) is the whole invocation, with all stages in the source's order; it is
parameterised by what the outside does in that clock (which outputs are accepted, which
beat is offered). `Supply` is the upstream block writing to the input buffer
(`ihc::buffer<8>` or the Verilog handshake). The history variables `sent`, `out` and
(in `ArpProc`) `queries`, `pulses` and `age` record what went by; no guard of a
component reads them.

**State and actions of the software.** A record `call` holds where the application's call
is (`at`) and its C variables; each action is the code between two accesses to shared state
and says in its guard where it starts. `Irq` and `Isr` are one entry of the interrupt
routine; the routine of the I2C driver waits for the core in it, and the program does not
run meanwhile (`At`). A wait loop is an action that may also take its way out; `Slow` says
whether it may do so while the core still works. `core` is a record of the core's registers
and FIFOs, `target` what was acknowledged on the bus.

**Data.** A beat is a packet and its position in it; a packet is a record with only the
fields the block looks at. For the splitters that is the field that decides and a value
`noise` found at the same place in all other beats, so that payload may imitate an
ethertype. For `arp_proc` an address is a pair of halves, because the code moves the
halves in different beats. For the swap blocks each beat is its four 16-bit words, each
named by packet and place. The checksum blocks carry the actual 16-bit values and keep
the widths of the source (`UINT8` index, `UINT16` words, `UINT24` sum). A byte sent over I2C
is its position in the buffer, a character is a number in order of writing, and a device's
name is a sequence of path elements, because a search by prefix looks at no more.

**Variants.** Next to some definitions stand variants with a plausible bug
(`Decide_NoRunt`). They belong to no specification: they are substituted one at a time
to see that the property that should notice does.

## 3. The runs

Bounds of the data path: `Packets` is the set of packets that may be sent, `MaxSent` the
number of beats sent in a behaviour (a packet is begun only if it fits), `BufDepth` the depth
of the input buffer. With `MaxSent` exhausted the blocks go on with stuttering invocations.

Components that answer the same kind of question share a run: a variable `block`, chosen in
the initial state, says which of them the behaviour runs, and the variables of the others
keep their initial values. So such a run is the sum of the runs of its components, not their
product; the fairness conditions are those of the components with `block` in front.

| run (cfg) | instance | what it shows |
| --- | --- | --- |
| `MCRxPath` | ethertype: frames of 1-3 beats of all lanes, payload imitating other types, 7 beats; protocol: frames of 1-4 beats, 8 beats; buffers of 2 | routing, refinement of `Demux`, nothing gets stuck |
| `MCTxPath` | bridges: both directions, the FIFO's real 8 words, frames of 2-3 beats with several tails, 10 beats; packet buffer: 8 words, threshold 5, frames of 1, 3, 5 beats, 12 beats; merge: frames of 1-3 beats, 4 beats a lane | no overflow or underflow, exact count, no underrun, FIFO refinement, tails aligned, frames unmixed, both lanes served |
| `MCTxPathOdd` | replies with one to three unused tail bytes | **violation**, section 6 |
| `MCArpProc` | up to three frames: queries of two hosts, one outside the gateway's network, and padded gateway announcements; life time 1; two pulses | what is sent is whole, goes to an asker, and is sent when it must be |
| `MCArpTornReply` | the same without pulses | **violation**, section 6 |
| `MCIcmp` | swap blocks: both, frames of 3-6 beats, 11 beats; param: checksums on both sides of the borrow and both zeros, right and wrong messages, two frames; checksum: frames of 3, 5, 6 beats back to back | only the addresses change, a reply is as good as its request, each frame gets its own header's checksum, frames come out |
| `MCIcmpCarry` | the identification for which folding carries again | **violation**, section 6 |
| `MCI2c` | driver: FIFOs of 2, one retry, transmits of 1 and 2 bytes, receives of 1 and 3; every step may fail, every wait may give up; firmware: its six writes, one of them skipped | the I2C and firmware properties of section 1.3 |
| `MCI2cQuery` | the same without slow waits (`Slow = FALSE`) | **violation**, section 6 |
| `MCI2cList` | the firmware's two initialisations | **violation**, section 6 |
| `MCStdio` | UART: rings of 3 slots, device FIFOs of 1, requests of 1 and 3, 4 characters written and 3 sent, with and without clock; HAL: 3 descriptors beyond the standard ones, a device, a file system, names of each kind | the UART and HAL properties of section 1.3 |
| `MCStdioLock` | the same | **violation**, section 6 |

**Why the bounds are enough.** A splitter's pipeline holds four or five beats and its
decision depends on at most four neighbouring ones; 7 or 8 beats put two or three frames
of every mixture of lengths into it at once. `arp_proc`'s window is six beats: three
frames are one answered, one torn into the answer and one after. The swap and checksum
blocks combine beats at most two apart, and two frames back to back are in the pipeline
at once. For the bridges, 10 beats fill a FIFO of the real depth 8 beyond its threshold
and wrap the ready delay. `L8PktBuf` has depth 8 instead of 2048 with the same distance
of 3 between threshold and depth, which is what the late flag needs. The buffer depth 2
(1 for `arp_proc`) instead of 8 of the HLS inputs loses nothing: a deeper buffer only
delays beats, and any arrival pattern it produces at the first register is also
produced by a sender that waits.

I2C FIFOs of two entries instead of four fill up in the middle of every transaction, and
the firmware's six writes fill them twice; three received bytes are more than the FIFO
holds, so that they take several interrupts. One retry instead of ten thousand shows what
an attempt leaves to the next. A ring of three slots takes two characters, so a request of
three goes round, has to wait, and is cut short when it may not; the device's FIFO of one
makes every character an interrupt of its own. `ALT_MAX_FD = 6` exhausts the pool, and
three free descriptors give every order of the highest, a middle and the lowest one.

**Deadlock** is looked for in every run but `MCStdio`: there a read without host blocks for
ever, as it should. In `MCI2c` a program that has ended and a core that has nothing left to
do may stop (`Ended`).

**Beyond these bounds.** The 8-bit beat index comes round in frames of more than 256 beats,
which no instance has; with two skipped writes instead of `MaxSkips = 1` the expander's
register 3 gets a wrong value (section 6).

## 4. Fairness

- `WF(Invoke(TRUE))`, `WF(Clock(.., TRUE))`: the clock runs, so a step always happens
  (`hls_always_run_component`), and the receiver accepts again and again. Weak fairness
  suffices because such a step is always enabled. For the splitters there is one
  condition per lane, so one lane may stall while others accept. It is an assumption on
  the receiver; the code justifies it downstream: the MAC takes beats at its rate,
  and each block is checked to pass on what it takes.
- `tx_merge`, the bridges and `l8_pkt_buf` also assume that a sender continues a frame
  it has begun, since they hold an exclusive path for that frame. The splitters and the
  ICMP blocks need no such thing: a frame that was sent completely comes out.
- Nothing is assumed about when a *new* frame starts, or about pulses.
- I2C: the processor goes on with a call (`Program`, `Main`), takes interrupts (`Isr`), and
  the core works on its commands (`Core`, `Bus`). Which way a transfer goes, and whether a
  wait gives up, is free.
- JTAG UART: the processor goes on with a call (`CallStep`) and takes interrupts (`Irq`); the
  host reads what is in the device (`HostReads`). It need not send, and it may be slow
  enough to be taken for absent in between. The clock need not run.
- The properties of the HAL are safety properties.

## 5. Proofs

TLAPS proves the following for all values of the constants: any set of packets with positive
lengths, any depth of the buffers and rings, any `MaxSent`. The column *states* names the
property of the run of section 3; where it is empty the comment at the theorem says what
is meant. Where type correctness is proved it is not also a property of the run.

| module | theorem | states |
| --- | --- | --- |
| `RxPath_proofs` | `RoutingCorrect`, `ProtocolRoutingCorrect` | `RoutedToItsLane`, `RoutedByProtocol` |
| | `PathRoutes` | both, for the specification of the run |
| | `TypeCorrect` | `TypeOK` of the ethertype splitter |
| | `PathImplementsDemux` | `SplittersImplementDemux`: the refinement of `Demux` |
| `TxPath_proofs` | `QueueNeverOverflows`, `QueueNeverUnderflows` | `NeverOverflows`, `NeverUnderflows` |
| | `BridgeImplementsFifo` | `ImplementsFifo`: the refinement of `Fifo` |
| | `BytesAligned` | `TailAligned`, if towards the MAC no last beat has one to three unused bytes (section 6, 3) |
| | `TypeCorrect` | `TypeOK` of the bridges |
| | `BufferNeverFull`, `BufferCountExact`, `BufferNoUnderrun` | `NeverFull`, `CountExact`, `NoUnderrun` (an action property) |
| | `PathBuffersImplementFifo` | `BuffersImplementFifo`: bridge and packet buffer refine `Fifo` |
| | `MergeFramed`, `MergeKeepsLanes` | `OutFramed`, `LanesKept` |
| `Icmp_proofs` | `RepliesCorrect` | `RepliesAsGoodAsRequests`, for frames of at most 256 beats |
| | `SwapsOnlyAddresses` | `OnlyAddressesSwapped`, likewise |
| | `SumsOwnHeader` | `ChecksumOfOwnHeader`, likewise |
| | `ChainCorrect` | the three together, for the specification of the run |
| | `ReplyAsGoodAsRequest` | the corrected checksum verifies iff the original did, for every 16-bit checksum and every content |
| | `HeaderChecksumRightUnlessCarry` | one fold is right for every header sum whose fold does not carry again |
| | `ParamTypeCorrect` | `TypeOK` of `icmp_proc_param`, for frames of any length |
| `ArpProc_proofs` | `RequestsOnlyWhenStale` | `RequestOnlyWhenStale` (an action property) |
| | `SendsWholeFrames` | `OutFramed` |
| | `RepliesAnswerThisOrNext` | `ReplyFromThisOrNextQuery` |
| | `DecidesOnOneFrame` | `DecisionsFromOneFrame` |
| `I2c_proofs` | `CoreIsReleased` | `ReleasedWhenIdle` |
| | `RegistersAsMeant`, `NoRegisterIsWrong` | `NoWrongRegister`, as long as at most one command write is skipped |
| `I2cBytes_proofs` | `BytesLandInOrder`, `SuccessIsDelivery` | `BuffersInOrder`, `SuccessMeansDelivered` |
| | `DriverDelivers` | the driver's three invariants, for the specification of the run |
| `Stdio_proofs` | `TransmitsInOrder`, `ReceivesInOrder`, `NoWakeUpLost` | `TxInOrder`, `RxInOrder`, `NoStall` |
| | `UartTypes` | `TypeOK` of the driver |
| | `PoolIsCovered`, `StreamsNeverLost` | `MarkCoversPool`, `StdioNeverLost` |
| | `FailedOpensLeaveNothing`, `LocksAreRespected` | `FailedOpenLeavesNothing`, `NoOpenWhileLocked` (action properties) |
| | `StdioSafe` | the invariants together, for the specification of the run |

`L8Stream_proofs` has the lemmas about beats, streams, pipelines and counts that the others
cite. Each invariant below was checked with TLC on the run's instance before it was proved.

**Routing.** `RoutedToItsLane` looks only at what left and is not inductive. `IInv` adds:
the stream sent is `Framed`; the registers and the buffer hold the *end* of that stream
in its order (`InPlace`), so that the beat in `stage2` is beat `Routed + 1`; and what
`output_state` knows (`Decided`): within a frame it is the frame's lane, between two
frames it is `HOLD` or the lane of the frame whose first beat stands in `stage2`. From
`InPlace` and `Framed` follows what the neighbours in the pipeline can be (`Neighbours`),
and from that that a decision taken between two frames is right (`DecideRight`): a beat
in `stage2` starts a frame, so if it also ends it the frame has no ethertype, and
otherwise the beat in `stage1` is its second. `ProtoInv` says the same of the protocol
splitter, where the decision looks three beats ahead: there `ProtoNeighbours` follows
the frame from the oldest register to the newest one that matters, and a frame that ends
before its protocol byte is one of no lane.

**The splitters implement `Demux`.** For each lane `LaneKept` counts: of the beats routed so far as
many belong to the lane as its consumer has taken and its register holds, and the one in the
register stands where as many of the lane's beats come before it as have been taken.
`AheadCounts` says that such numbers are unique, so the beat taken is the one `Demux`
asks for (`LaneTakesNext`). That a clock keeps this (`LaneStep`) needs that a beat goes to its own
lane, which is `RoutedToItsLane`'s invariant, and that it comes to a free register.

**Bridges.** The ready flag is computed from a count that is one clock old, and is seen
one clock later. `Late` (in `QInv`) says how far the queue may be ahead: at most one word
of the old count, the old count at most the threshold while ready is up, so at most
threshold + 2 = 7 words of 8. The design has one word to spare. `TypeCorrect` rests on it.
`InOrder` says that what left, what stands in the shift register and what is queued is
what was sent, from which each step is one of `Fifo` or a stutter. `Aligned` says for each
state of the shift register which bytes of the beat are still in it.

**Packet buffer.** `BufferInv` consists of `Room` (the queue has at most `Depth - 2` words,
and at most `Depth - 3` while ready is up), `Counted` (the counter and its delay registers
together are the number of frame ends in the FIFO) and `Announced` and `MiddleAnnounced`
(whatever is announced to the MAC is in the FIFO, and while a frame is being read its rest
is). `CountExact` alone is not inductive: a frame that enters and one that leaves in the
same clock are seen by the counter one clock apart.

**Merge.** `MergeInv` follows each lane by its positions: `OfLane` is the subsequence of
what passed that came from a lane, and `PassedOfLane` says that with the register and
the buffer it is what was sent there. `SelectedMiddle` and `InsideRest` connect the
selected lane with the frame that is open at the output.

**ICMP blocks.** `Reads` says for each of the three blocks that the buffer holds the end
of the stream and that `idx_counter` is the index of the beat read next. It needs frames of
at most 256 beats (`ShortFrames`, `ShortSwapFrames`, `ShortChksumFrames`): in a longer one
the 8-bit index comes round and a payload beat is taken for a header beat, so the
theorems would be false without. `ParamInv` adds what each register holds of its packet.
`SwapInv` has `SwapInPlace`, which beat is where, with its words exchanged or not yet, and
`NoneLeftAlone`: a beat that waits for its successor has not left `stage1` without it;
bubbles may separate the two by any number of clocks. `ChksumInv` has
`SumRight`: the one sum register is the partial sum of the frame of the beat that entered
`stage1` last, up to that beat; that it is complete when a checksum is taken is
`ChecksumOfOwnHeader`. `ReplyAsGoodAsRequest` and `HeaderChecksumRightUnlessCarry` are
about the operators these blocks use, against the reference `OnesSum`.

**ARP.** There are two invariants. `DecideInv` is about what is received: in `Window` the
six stages are consecutive beats of the stream with `BlankBeat` behind them, so that a first
beat at the far end has the rest of its frame before it (`FrameAssumption`: six beats or
more). `SendInv` is about what is sent: `Framing` ties mode and index to the position in
the frame being sent, and `Accounted` counts: every query accepted has begun its reply or is the
one in `stdby`. Because a further query can be accepted while a reply is sent, but no second
one, each of its beats has this query's addresses or the next one's. `Aged` says that
the age of the entry and the count that is left are the life time together; the request
rule follows.

**I2C driver.** The core's registers are shared by a call, the interrupt routine and the core
itself, so that none of the three properties holds by looking at one of them. `Control`
is first: `EnabledBy` says who is responsible for the core while it is on (an armed interrupt, the
routine, a call at work, or the gap between the transmit and the receive of one operation), `CoreQuiet`
that a core that is off does and holds nothing, `Labels` what a call's place in its code says
about the interrupt. With nobody responsible the core is off, which is `ReleasedWhenIdle`.
`Progress` follows the data. A transaction is a list of commands that only depends on the
call (`Step`): w of them write, r read. In a `Session` the core is either idle or has done d of them, and
from d follows what is on the bus, in the FIFO, at the target and with the call (`OnBus`,
`Owned`); a transaction abandoned by a time-out leaves nothing, because a new one begins on
a core that was switched on anew. `Stream` is what came in so far, the buffer being filled and behind
it the receive FIFO; its numbers increase (`Bytes`) and it fits the buffer (`Fits`), hence
`BuffersInOrder`. `NothingIn` and `Undisturbed` keep an old receive out of a new transmit.
`Delivered` is about the end: all bytes received means all commands done (`Received`), and a call that returns
success did so from there (`Finished`), through every retry.

**Firmware.** `FirmwareInv` numbers the six writes. `OnTheWay(s, d)` says that d commands are done, that the
one at place s was skipped (0: none), and that the rest stand in the FIFO in order, each at its
place `Nth`; `BusBehind` says what is on the bus behind the last one done. That is
enough to see that the second byte of every message is the one meant for the register named
by the first. The case that makes it more than bookkeeping is a skipped *address*: the message then
begins with a register number, which for the target addresses 0 and 1 may be taken for the
address to read from. With two skipped writes the property is false (section 6), and the theorem says so: `skips <= 1`.

**JTAG UART.** `UartInv` gives each character its place by its number: `TxPlaced` and
`RxPlaced` say what number stands at which index of a ring, counted from what is with
the device, the host and the application. `TxHeld` and `RxHeld` are about the copies of the indices
that a call has read: the interrupt routine may have moved on since, but only in the direction
that leaves what the call is about to do valid. `NoStall` is itself inductive with these.

**Descriptors.** `FdInv`: a free descriptor has no device and no flags, the mark
is at or above every descriptor in use, the standard streams are not free, and before `main`
nothing else is open.

**Assumptions.** In the modules, evaluated in every run: `PacketsAssumption`,
`DepthAssumption`, `BoundAssumption` and their like for the components of a shared run
(`ProtoAssumption`, `MergeAssumption`, `SwapAssumption`, `ChksumAssumption`); `TailAssumption`
(`empty` is a three-bit field); `BufferAssumption` (more than four words); `MessageAssumption`
and `PartAssumption` (a field is a 16-bit word, a beat's contribution to the header sum at
most four of them); `FrameAssumption` (`arp_proc` receives no frame below six beats, the
MAC's minimum is eight), `AddressAssumption`, `LifetimeAssumption`; `LengthsAssumption`,
`TimeoutAssumption`, `CountsAssumption` (a ring has two slots or more); `PoolAssumption`
(more descriptors than the three standard ones and one); `DepthAssumption` of `I2cCore` (a
FIFO holds an entry, a target has a seven-bit address) and `DriverAssumption` (no transfers of no bytes). In the theorems: the
frame lengths of the ICMP blocks, `ShiftComplete` in `BytesAligned` and one skipped write in
`NoRegisterIsWrong`; they exclude what section 6 reports.

**Only model-checked.** Liveness, which is out of the prover's reach with its fairness:
`PathDelivers`, `LanesServed`, `LastQueryAnswered`, `GatewayAsked`, `ChainDelivers`,
`InterruptsEnd`, `SidebandsSet`, `CharsArrive` and `CallsReturn`. Every safety property of a
run is proved. The `TypeOK` of a component without a type theorem states the domains of its variables
and is no property of a run.

## 6. What the checks found

Runs that find a statement of the source violated:

1. *A reply torn between two askers* (`MCArpTornReply`, `arp_proc.cpp:266-269`). A query
   is accepted whenever `out_send_arp_rpy_stdby` is clear, also while a reply is being
   sent, and then replaces `rpy_mac` and `rpy_ip` in the middle of it. The first asker's
   Ethernet address is followed by the second's ARP addresses. `MCArpProc` shows the
   extent: the addresses are always this query's or the next one's, and the last query
   gets a clean reply.
2. *A lost carry* (`MCIcmpCarry`, `icmp_proc.cpp:369-370`). The carries of the
   header sum are added once. If that addition carries again, the checksum is one too
   large. `HeaderChecksumRightUnlessCarry` says that these are the only headers that go wrong.
3. *Truncated tails* (`MCTxPathOdd`, `ulong2_to_l8.v:92-98`). For k unused bytes the
   table keeps k bytes of the last beat instead of 8 - k. Replies of a length that is 5,
   6 or 7 modulo 8 lose bytes.
4. *A lock that misses a descriptor* (`MCStdioLock`, BSP `HAL/src/alt_fd_lock.c:61`). The
   loop ends below `alt_max_fd`, which is the highest descriptor in use and not one more:
   the lock is granted although that descriptor refers to the same device.
5. *A missing acknowledgement reported as success* (`MCI2cQuery`, BSP
   `drivers/src/altera_avalon_i2c.c:108`). The interrupt routine, and the call that arms the
   interrupt, clear all status bits before anyone has looked at the one for a missing
   acknowledgement; the query then says that the transaction was completed.
6. *A list closed on itself* (`MCI2cList`, `altera_avalon_i2c.c:177`). `alt_sys_init` and
   `main` both initialise the controller and each inserts it into the list. The second
   insertion makes the entry its own successor, and a search for any other name never ends.
   The program does no such search.

Observed while reading, without a run:

- A reply's upper target-IP half is the gateway's (`arp_proc.cpp:221`), right only for
  askers in its /16. The properties of `ArpProc` speak of the lower half.
- `arp_proc.cpp:191` aligns its last beat to the upper end, where `ulong2_to_l8` shifts
  from the lower end: the low half of the target IP leaves as other bytes.
- The comment at `arp_proc.cpp:115-116` has a request sent at each pulse; the code sends
  one only when the entry expired. The comment at `:251` has queries refresh the entry; a
  query for the device's own address does not. `:37` names 192.0.2.x, the code 192.168.2.x.
- `icmp_proc_swapip` waits for the beat after beat 3 (`icmp_proc.cpp:194`), so a frame of
  four beats stops it for ever; in `IcmpProcSwap` these are the frames `Stops` excludes.
  The MAC pads frames to eight beats, so none arrive in practice.
- The `UINT8` beat index (`icmp_proc.cpp:232`) comes round in frames longer than 2048 bytes,
  and payload beats are taken for header beats. `ShortFrames` in section 5 excludes them.
- `icmp_proc_param` rewrites the type without looking at it, and none of the blocks
  looks at IP options.
- `arp_proc.cpp:256` dispatches a frame of fewer than six beats on beats of two frames. The
  MAC delivers no frame shorter than eight beats; `ArpProc` has none.
- `top.v:231` writes the pulse without looking at `ready`. `arp_proc` empties that buffer in
  every clock, so it is always ready.
- I2C: the polled transmit looks for a lost arbitration after each command but not after the
  last byte is out (`SuccessMeansDelivered` excepts it). A receive with interrupts whose
  acknowledgement, arbitration or bytes were lost and cleared stays busy for ever; the
  status query does not notice (`InterruptsEnd` speaks of receives whose bytes came).
  `master_tx_rx` goes on to its receive after a time-out of the transmit, on a core that is
  switched off; with `txsize` 0 it does so on a core that was never switched on, and with
  `rxsize` 0 it leaves the core on. `send_address` with ten bits drops the status of the
  first byte. The receive overflow bit is never looked at. In `config_speed_set` the low
  count `- 60` passes below zero for a slow clock, and the sum of both counts makes the bus
  a little faster than asked.
- Firmware: a single skipped write (the wait loop of `cmd_write`) leaves a register
  unset or the bus taken, never a wrong value; two in a row may set register 3 wrongly.
- JTAG UART: without host and without clock, as this BSP is configured, a write blocks for
  ever once ring and device are full. A blocked write whose host was silent for a single
  tick returns short, or with an error, although the time-out has not passed
  (`altera_avalon_jtag_uart_write.c:187`). `close` of a descriptor that may not block reports
  `EWOULDBLOCK` with characters left, and `alt_close` gives the descriptor back nevertheless.
- HAL: a lock taken through a standard stream survives its `close`, for those descriptors
  are never given back.

## 7. Not modelled

- `rx_split_discard`: stateless; it is the lane that accepts.
- 10G MAC, PHY, `system.qsys`: Intel IP and generated interconnect. They are the
  environment. The order in which they connect the blocks is the picture above.
- Pulse and heart beat generator: two free-running counters. The pulse is an action of
  `ArpProc` that may come at any time.
- Reset: the initial state is the state after reset; a reset in operation is not
  modelled.
- I2C driver: ten-bit addresses, transfers of no bytes (they return at once), an interrupt
  handler of the application's own.
- HAL descriptors: `fcntl`, `fstat`, `lseek`, `isatty` and `dup`, which at most set a flag of
  one descriptor; `O_NONBLOCK` is a parameter of the calls in `JtagUart`. This BSP registers
  no file system; `HalFd` has one, for `alt_open` and `alt_find_file` serve them.
- The variants of the JTAG UART driver that this build does not compile: the small driver,
  uC/OS-II, `ALTERA_AVALON_JTAG_UART_IGNORE_FIFO_FULL_ERROR`.
- The rest of the HAL: start-up and exception code in assembler, cache and register accesses,
  stubs of the C library, and what this build does not use (alarms, DMA, flash, logging,
  profiling). Most of the repository's lines are these, with register headers, licence texts,
  test benches, generated and board files. They hold no state that a model could relate to
  anything.

## 8. Plan

Modelled, in this order: streams, splitters, merge, ARP, ICMP chain, bridges, packet buffer;
I2C driver, firmware, HAL descriptors and lists, JTAG UART driver. Proved: section 5. To come:

1. *Composition*: `IcmpChain`, the four ICMP blocks with their buffers, refined to one abstract
   "request becomes reply" specification. `IcmpServer`: splitter, ARP, ICMP and merge over an
   abstract MAC, with the property that a stalling ARP lane delays but never mixes or loses
   ICMP frames.
2. *I2C*: a second master on the bus instead of a free choice to lose the arbitration.

## 9. Running

`tlc -config X.cfg M` for each line of section 3; the module is the cfg's name without
`Odd`, `TornReply`, `Carry`, `Query`, `List` or `Lock`. `tlapm M_proofs.tla` for the proofs. The
longest run takes about three minutes.
