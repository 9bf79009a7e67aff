# A verification of rtgen-dpdk

rtgen-dpdk sends periodic frames at exact launch times. A *talker* (`src/src/talker.c`)
fills a flow table, computes one cyclic schedule per transmit queue, and runs one lcore
per queue; each lcore walks its schedule, wakes shortly before a frame's launch time,
hands the frame to the card with that time, and polls the card for the hardware time at
which it left. A *PTP client* keeps the card's clock on a master's, and a *listener*
receives. This directory holds TLA+ specifications of these parts, the TLC runs that
check them on small instances, and TLAPS proofs: every invariant and action property that a
passing run checks is also a theorem, for every file, flow table, network and run length
that the assumptions named below admit. Liveness is model-checked only.

Line numbers refer to the files under `src/src/` unless another path is given.

## 1. Inventory

| Component | Source | State | Operations | Works with |
|---|---|---|---|---|
| Command line, configuration file | `talker.c` 40-231 | local variables | `parser`, `parse_config_file` | fills the flow table |
| Flow table and set-up | `flow.c`, `talker.c` 352-529 | `flows[]`, `dev_state_list`, `tx_queue_nums` | `add_flow`, configuration loop, port start, launch loop | table → queues, schedules, frames → lcores |
| Schedule computation | `sche.c` | `order[]`, `sending_time[]`, `cycle_period` per queue | `gcd`, `lcm`, frame counts, fill, `sort` | reads the flow table, is read by `tx_loop` |
| Transmission loop | `talker.c` 258-350 | `sche_time` per flow; position, clock reading, launch time, flow, previous times per lcore | one lcore per queue: take, miss, sleep, send, poll | the card's rings, clock and stamp register; statistics |
| DPDK engine, transmit side | `engine_dpdk.c` 234-319, 359-399 | none of its own | `sche_single`, `sleep`, `read_clock`, `get_tx_hardware_timestamp`, `prepare_packet_offload`, `cleanup_dpdk` | between the loop and the card |
| Statistics | `statistic.c` | a record per flow and per lcore | `update_nums`, time and jitter updates | called by the loop |
| PTP client | `ptpclient_dpdk.c` | `ptp_data`: master, own id, sequence numbers, four stamps | `parse_sync`, `parse_fup`, `parse_drsp` | network, the port's clock and stamp register |
| Listener | `listener.c`, `engine_dpdk.c` 285-339 | mbuf pool | `rx_loop`, `recv_single`, `get_rx_hardware_timestamp` | receive ring and stamp register |
| Device set-up | `engine_dpdk.c` 14-173 | the device, `dev_state_list` | `setup_EAL`, `configure_*`, `start_port` | called by both `main()`s |
| Packet construction | `header_dpdk.c`, `engine_dpdk.c` 181-232 | one mbuf per flow | headers, payload, checksums | once, before sending |
| Utilities, legacy prototypes | `utility.c`, `src/.legacy/` | – | conversions; not built | – |

All tx lcores of a port share its clock and its **one** transmit-stamp register, and are
otherwise separate: a flow belongs to one queue and a queue to one lcore.

Where it is hard:

- *Timing against state.* `tx_loop` has three ways out of its body (missed, refused, sent);
  on each, the flow's timer, the counters and the previous hardware time must move
  together. The deadline is tested once, with a clock reading that is old when it is used.
- *State left over.* The head of the body records a sample for the **previous** position
  with `txtime` and `flow` of the iteration before; `flow` is uninitialised at first.
- *The shared stamp register.* A poll takes whatever stamp is there; polls run out.
- *Ending.* The run time is tested once per pass over the schedule; `main()` waits for all
  lcores and then stops the port, which discards what the rings still hold.
- *Schedules in machine words.* The cycle is a least common multiple modulo 2^64; the frames of
  a queue are counted in an `int`, and written by loops that go by the 64-bit cycle.
- *Queue numbers and queue counts* are mixed up between set-up and launch, over all ports.
- *Lines and locals.* A malformed line leaves the locals of the parser as the line before
  set them.
- *Frames are built by functions that each append and each set the length.*
- *Averages by a counter of something else.* The running averages are weighted by the number
  of frames sent, which is neither the number of software samples nor that of hardware ones.
- *Buffers.* The listener returns none to its pool, and it asks one register for the stamp of
  whatever frame it has in hand.
- *PTP.* Four stamps from four messages, any of which may be lost or someone else's.

What makes each part correct:

| Component | Correct when |
|---|---|
| Schedule computation | the cycle is the true lcm when it fits a word; arrays are filled exactly as allocated, as long as an `int` can count the frames; the order is sorted and stable |
| Set-up | flows are as written; the queue counter agrees with the queues set up; every accepted flow has its queue, its port and an lcore |
| Packet construction | the frame holds its payload and stays consistent with its checksum |
| Transmission loop | each launch time of each flow gets exactly one outcome; no timer leaves its grid; none is given up early; it ends, and not long after the run time |
| Statistics | samples are computed from the frame they are recorded for; jitter is over one period; counters add up, no average exceeds its largest sample, an lcore's worst case is a flow's |
| Listener | each frame is received once and in order; a stamp is its own frame's; nothing waits for ever in the ring |
| PTP client | a correction synchronizes the clock, whatever was lost; a complete exchange comes through |

`PROJECT.json` lists the hazards line by line.

## 2. Modules

| Module | What it is |
|---|---|
| `ScheduleOps` | `sche.c` as operators and recursive functions |
| `PacketOps` | the layout of a frame, as operators |
| `Setup` | `main()` of the talker up to the launch of the lcores; uses `ScheduleOps`, `PacketOps` |
| `TxLoop` | lcores, the waiting `main()`, the card and time; its properties |
| `FlowService` | abstract specification: what is promised for each flow |
| `TxLoopTimely` | `TxLoop` restricted to patient polls, or to a prompt machine |
| `TxStatistics` | `TxLoopTimely` with the timing records of `statistic.c` |
| `FoldLemmas` | induction over numbers, sums over sets, folds over sequences, loops |
| `SetupProofs` | theorems about `Setup`, and about `ScheduleOps` and `PacketOps` |
| `TxLoopProofs`, `TxLoopTimelyProofs`, `TxStatisticsProofs` | theorems about `TxLoop`, `TxLoopTimely`, `TxStatistics` |
| `TxPassProofs` | theorems about `TxLoop` and `TxLoopTimely` that count: outcomes, and passes over the schedule |
| `Listener` | the listener, with its pool, ring and card |
| `ListenerProofs` | theorems about `Listener` |
| `PtpClient` | `sync_loop`, with masters, link and card |
| `PtpClientProofs` | theorems about `PtpClient` |
| `MCSetup`, `MCTxLoop`, `MCTxLoopTimely`, `MCTxStatistics`, `MCPtpClient`, `MCListener` | values for TLC |

**ScheduleOps.** `gcd`, `lcm`, `lcm_of_array` and `calculate_cycle` have the code's names and
its word arithmetic (`% WORD`; a small `WORD` makes overflow happen). `gcd` is a function of a
pair, since the prover knows recursive functions of one argument. `FlowFrames` and
`QueueFrames` are the two fill loops, `CompareSwap`, `SortPass` and `sort` the bubble
sort, which moves both arrays together. `calculate_num_frames_per_queue` adds up the 64-bit
quotients in an `int` (`ToInt`; a small `INT_HALF`, the half of the values of an `int`, makes that
overflow happen). The variants without a queue, which nothing calls, are left out.

**PacketOps.** A buffer is its length, the ranges of bytes that were written, each with what was
written there, and the range the UDP checksum covers. `append` is `rte_pktmbuf_append`: it
moves the length on, or does nothing when the buffer has no room. The prepare functions
have the code's names, and set the length to 42 bytes and the payload as the code does.

**Setup.** `phase` says where `main()` is; each loop is an action per iteration.

| Action | Code |
|---|---|
| `setup_EAL` | `engine_dpdk.c` 14-45, with `dev_state_list` laid out as in `engine_dpdk.h` 46-60 |
| `CommandLine` / `ConfigLine`, `EndParse` | `talker.c` 138-146 / 148-231; `add_flow` |
| `ConfigureFlow`, `ConfigureSyncQueue` | 383-408, 410-430 |
| `StartPorts` | 432-437; a port starts if all of its queues have been set up |
| `ScheduleQueue`, `FillOverruns`, `AllocationFails` | `create_schedule_state` (`sche.c` 18-46), called at 449 |
| `PreparePkts` | 451-460 and `prepare_pkts`, 233-256 |
| `LaunchQueue`, `LaunchWithoutSchedules`, `EndLaunch` | 485-509, 526 |

A line of the file is abstracted to the fields it gives: `ReadCounts` are the numbers of fields
`sscanf` may convert, in the order of its format; a VLAN ID out of range is given and not taken.
What a line does not give is what the locals held (`Overwrite`): before the first line they are
uninitialized, and the model takes them to be some flow of `FlowConfigs`: of all the values they
may have, those that name a port and a queue there are. The program is *crashed* in three ways.
A file without a flow leaves the pointer that `talker.c` 411 uses uninitialized (`EndParse`). A
queue with so many frames that the `int` is negative gets no memory; `create_schedule_state`
then returns NULL, which `main()` does not look at before it launches the lcores
(`AllocationFails`, `LaunchWithoutSchedules`). And a queue with so many more that the `int` is
positive again gets arrays that are too small by 2^32 entries, which the program does not
survive writing (`FillOverruns`). The loops of `create_schedule_state` (449) and of the launch
(485) run over indexes below the *number* of configured queues, of all ports together. `lines`
is a history for `FlowsAsWritten` and ends with the parser.

**TxLoop.** `pc[q]` names the points of `tx_loop` where other threads, the card or the clock
can come between: before the loop (`start`), the while test (`while`), the head of the for
body (`for`), `sleep()`, the hand-over (`send`), the poll for the stamp (`stamp`), `done`.

| Action | Code |
|---|---|
| `SetBaseTime`, `LaunchLcore`, `AllLaunched`, `Cleanup` | `main()`, `talker.c` 462-528 |
| `StartLoop`, `LoopTest` | 258-292, 294 |
| `FrameMissed` / `FrameKept` (common head `BeginFrame`) | 296-327 / 296-322 |
| `Wake` | `sleep()` and the second clock reading |
| `SendOk` / `SendFail` | `sche_single`, 330-336; `update_nums` |
| `ReadStamp` / `StampTimeout` | `get_tx_hardware_timestamp`, 338-346 |
| `NicLaunch`, `Tick` | the card and the clock (external) |

A frame is its flow and its launch time. Values of samples are left out, but not *which*
frame they come from: `prev_hwtime[f]` is the frame whose stamp the flow has, `stamp` the
frame whose time the register holds. The number of polls and retries is abstracted to
"some number": an lcore may give up at any poll. `StampTimeout` also empties the register,
because the poll loop tests its counter after the read: a stamp found at the last poll is
consumed and reported as missing. Timers start at `base + offset` and are moved on
*before* use, so the first launch is at `base + offset + period`; the sample output in
`src/README.txt` 145-160 agrees.

**FlowService.** Each flow has a grid of launch times and takes them one by one; each gets
exactly one outcome; a frame is handed over no earlier than `delta` before its launch time;
a launch time is given up only when the clock has passed that moment by more than
`FUDGE_FACTOR`; a queue works on one frame at a time. `TxLoop!Service` is the refinement
mapping: a queue has a frame *open* from `inc_flow_timer` to `update_nums`.

**TxLoopTimely.** Two restrictions of `TxLoop`: `PatientSpec`, in which the polls for a stamp
outlast the frame's wait in the ring (the purpose of `HW_TIMESTAMP_TRY_TIMES`), and
`PromptSpec`, in which lcores and card also take no time.

**TxStatistics.** The actions of `PatientSpec`, each with what it does to the timing records.
`Delta` and `Jitter` are the samples, through `AbsInt`, since `abs()` takes an `int`; `Averaged`
is the end of every update function. `SampleSoftware` is the head of the for body (298-313),
which dates the previous position's flow whether its frame was sent or missed;
`SampleHardware` is 338-346. Here `swtime`, `hwtime` and `stamp_at` hold the times that `TxLoop`
keeps only the owners of.

**PtpClient.** Times are those of the masters; the client's clock is `offset` ahead and only
`parse_drsp` changes that. `parse_sync`, `FollowUpForeign`, `FollowUpAlone`, `SendRequest`,
`StampRead`, `StampMissing`, `Adjust`, `ResponseIgnored` are the handlers' ways through;
`parse_fup` is cut at its wait for the stamp (`pc = "await"`), where the card and the network
go on. Each message takes one of `Delays`; it may be lost; a request may be refused.

**Listener.** A frame is the number of its arrival; buffers are counted. `Parse`, `StartPort` and
`Allocate` are `main()`; `Receive` and `ReceiveNothing` are `recv_single` returning 1 and 0;
`ReadStamp`, `PollStamp` and `StampTimeout` the calls of `get_rx_hardware_timestamp`. The parser
compares its `c` before it has assigned it, so that the options may go unread. The card
(`Arrive`) stamps a frame that carries a stamp if its register is free, and drops a frame that
finds no descriptor; with an empty pool no descriptor is given back.

## 3. Runs

| Run | Specification | Shows |
|---|---|---|
| `setup` | `Setup` | `CycleIsLeastCommonMultiple`, `SortedStable`, `FramesExact`, `FlowsAsWritten`, `FlowsReady`, `ChecksumStands`, `TypeOK` |
| `setup_gap` (violation) | `Setup` | `EveryFlowServed` fails: finding 1 |
| `payload` (violation) | `Setup` | `PayloadInFrame` fails: finding 5 |
| `tx_mixed` | `TxLoop` | `GridAligned`, `CountersBalance`, `CycleAligned`, `SampleLocals`, `OverrunBounded`, `JitterWholePeriods`, `LaunchOrder`, `TypeOK` |
| `tx_queues` | `TxLoop`, fair | `ImplementsFlowService`, `Finishes` |
| `tx_patient` | `TxStatistics` | `JitterConsecutive`, `StampIsOwn`, `DrainedAtStop`, `HardwareJitterExplained`, `SoftwareJitterExplained`, `AverageBelowMaximum`, `CoreMaximum` |
| `tx_prompt` | `PromptSpec` | `InTimeOnceSending` |
| `no_stamp` (violation) | `TxLoop` | `NoEarlyLaunch` fails: finding 2 |
| `stamp_two_queues` (violation) | `PromptSpec` | `StampIsOwn` fails: finding 3 |
| `ptp` | `PtpClient`, fair | `CorrectionSynchronizes`, `Recovers`, `TypeOK` |
| `ptp_two_masters` (violation) | `PtpClient` | `CorrectionSynchronizes` fails: finding 4 |
| `listener` | `Listener`, fair | `EachFrameOnce`, `StampIsOwn`, `HeardWhilePoolLasts`, `TypeOK` |

### Findings

1. **A flow on queue 1 alone is not sent.** The device always has `NUM_TX_QUEUE` = 2 queues;
   `main()` sets up those that flows name and queue 1 for the PTP client. If no flow names
   queue 0 it is not set up, the "[Fatal !]" test (`talker.c` 422-425) only prints, and the port
   cannot be started (`listener.c` 118 says so): the program ends.
2. **`--no-stamp` also switches the launch time off.** The table in the comment of
   `prepare_packet_offload` (`engine_dpdk.c` 239-242) and the code below it have the two
   arguments in opposite order, so that (0, 1) asks for a time stamp alone.
3. **With two queues of a port, stamps change owners.** An lcore takes the stamp of the other
   lcore's frame and records it for its own. The run uses `config/flow_config_queue.txt`.
4. **A second PTP master disturbs the exchange.** `parse_sync` compares the message's clock id
   with itself (`ptpclient_dpdk.c` 81-83), so every master's SYNC replaces the arrival time.
5. **The payload is not in the frame.** `prepare_packet_header` sets the length of the whole frame;
   the payload is then appended behind it, and the length set back (`engine_dpdk.c` 183-191).
   A payload that does not fit twice into a buffer is not written at all. (The checksum stays
   right for frames without a VLAN tag, `ChecksumStands`; with a tag the frame is four bytes
   too short for its headers, and the payload overwrites bytes the checksum covers.)

Further observations that the models make explicit, and that no run is spent on:

- With the four queues of each kind of the I210 and I225, `setup_EAL` writes beyond the arrays of
  the first port and sets `is_running` of the second, which is then never started. `FlowsReady`
  therefore speaks of devices that fit (`DeviceFits`).
- The first hardware sample of a flow enters its average with half its weight: `num_pkt_send`
  starts at one and has been counted up before (`Averaged`). The average then lies below every
  sample; `AverageBelowMaximum` states the bound that does hold.
- Software times are recorded for missed frames too, although `talker.c` 305 says "only [...] if
  the flow has been sent", and with the weights of the frames that were sent (`SampleSoftware`).
- `sche.h` 14 speaks of "at most" 20000 frames a cycle; nothing enforces it. With 2^31 frames on a
  queue, which the wrapped cycle of ordinary periods may well ask for, the program crashes.
- With periods 2 and 4 and offsets 0 and 1 the schedule is `1, 2, 1` and its launch times are 2,
  5, 4: `sche.c` sorts the *starts* of the periods, and a frame is launched at the end of one. The
  second frame keeps the third from its time in the ring. `LaunchOrder` states the order
  that `sche.c` does give: by the start of the periods.
- The listener never gives a buffer back (`listener.c` 78, where the call is commented out): once
  the pool is empty it hears nothing any more. `HeardWhilePoolLasts` is about the time before.
- When polls for a stamp run out, the flow's previous hardware time is kept (`talker.c` 338), and
  the next jitter is taken over two periods or more; `JitterWholePeriods` says by how much it
  can be wrong.
- The last flow of a schedule has a first software jitter that is measured from the start of the
  loop (`SoftwareJitterExplained` exempts it).
- No option sets `pit_ip_enabled`, so that `-d` has no effect (`CommandLine`).

### Bounds, and why they are enough

- `setup`: a table of three flows and files of up to four lines (so that `add_flow` overflows), two
  ports with the two transmit queues and one receive queue of the program, devices that
  report just these queues or four of each kind. `INT_HALF` = 8: seven frames can be counted, and
  the tables include queues with fewer, with a negative count, and with a count that has come
  round again. Periods {4, 6, 9, 10} include pairs with and
  without a common factor and, with `WORD = 64`, a pair (9, 10) whose cycle wraps; offset 7 lies
  beyond some periods, so that the sort has work to do. Lines are complete, empty of fields, or
  end after the second field. A payload of 1200 bytes does not fit twice into a buffer, one of
  8 does. A fourth flow would add no new relation between two arrays, two ports or two
  queues. `setup_gap` and `payload` have one port.
- `tx_mixed`: periods 2 and 4 on one queue (a flow twice in a cycle, once in a cycle), deltas 1
  and 2, `FUDGE_FACTOR` 1, and a run of several cycles. Its launch times do go back (2, 5, 4),
  which is what `LaunchOrder` is about. `MaxTime` stops the clock some units after the end of
  the run, so that every lateness that can cause a miss occurs, and several in a row. The ring
  has one descriptor, so that it is full as often as not.
- `tx_patient`: the same flows with two seconds of run time, four cycles of every flow: enough
  for misses between two samples. (No frame is refused and no stamp is missing there, which
  `NoRefusal` and `NoTimeout` of `TxLoopTimelyProofs` prove of every single lcore with patient
  polls; refusals and missing stamps are in `tx_mixed` and `tx_queues`.) `INT_HALF` is beyond
  the last moment; the truncation of `abs()` does not occur (with it the two jitter properties
  could not hold).
- `tx_queues`: two lcores, one with two flows of equal period, for interleavings on the shared
  register.
- `tx_prompt`: three flows on a queue whose launch times are exactly `delta - FUDGE_FACTOR`
  apart, the tightest table for which the property can hold, and lcores that start after the
  base time, so that there are launch times to miss.
- `MCTxLoop` and `MCTxLoopTimely` write the orders out; their assumptions, which TLC evaluates,
  say that these are the ones `ScheduleOps` computes, and that they satisfy the hypotheses
  of the theorems about them (`ExactSchedules`, `SortedStarts`, `NearOffsets`,
  `SpacedSchedules`), so that these hypotheses are not empty.
- `ptp`: three exchanges, one loss, one refusal: one exchange more than can fail. `slack` is the
  number of moments that may pass while somebody could act (a late poll). Delays 1 and 3
  make the two directions of an exchange asymmetric; the first offsets -4 and 5 are outside
  the error which that asymmetry explains, one to each side.
- `listener`: six buffers, of which two fill the ring and one is `main()`'s, and seven frames: three
  receptions, then a ring that fills and frames that are dropped. `spaced` is chosen at first:
  a network that leaves the listener time between two frames, or any.

### Fairness

`TxLoop!FairSpec`: weak fairness of `main()`, of each lcore and of the clock; they are threads
on cores of their own (`rte_eal_remote_launch`) and time. Nothing is assumed of the card, nor
that a stamp is ever found: `Finishes` holds because the poll loop is bounded. In
`PtpClient!FairSpec` network, client and time each go on; the masters keep sending.
`Listener!FairSpec`: weak fairness of the program, a thread on a core of its own; nothing is
assumed of the network.

### Assumptions on the environment

- `JitterConsecutive`, `StampIsOwn` and `DrainedAtStop` need polls that outlast the frame
  (`PatientSpec`). With shorter ones an lcore reads the stamp of an earlier frame, and
  jitter is taken over two periods; the mutant of a single poll shows this. What holds without
  that assumption is `JitterWholePeriods`.
- `HardwareJitterExplained` and the other properties of the records are about the same spec; they
  need no assumption on missed deadlines.
- `InTimeOnceSending` is about a prompt machine. An lcore that is held up between its deadline
  test and the hand-over (`talker.c` 329) sends a late frame all the same; no property is about
  that.
- `Listener!StampIsOwn` is about spaced frames: in a burst a stamp may go to the next frame.
- `ptp` is checked with `Overlap = FALSE`, a master ends an exchange before the next; a response
  that arrives after the next SYNC would be combined with its arrival time, since `parse_drsp`
  compares with the follow-up's number only. And with `PromptCard = TRUE`, the request leaves
  within the 1000 polls; otherwise a correction is computed with a zero stamp. The network
  neither repeats nor reorders. The receive stamp of a SYNC is always its own:
  `ptpclient_dpdk.c` 85 ignores the result of the read, and a failed one would leave `tstamp2`
  as it was. Sequence numbers do not wrap (they are only compared).
- Allocations and device calls, whose failure ends the program or is reported and ignored,
  succeed, except the start of a port with incomplete queues and allocations of a negative size.
  Flows name existing ports and queues.

## 4. Proofs

Each proof module has an inductive invariant in named parts, a lemma that each action
keeps it, and short temporal theorems at the end. 29 theorems are listed in `PROJECT.json`.

### Configuration (`SetupProofs`)

For every file of any length, device, number of ports and of queues, and width of a word
(`WordAssumption`, `SetupAssumption`, `TailroomAssumption`: types of the parameters):

| Theorem | Says |
|---|---|
| `SetupTypeCorrect` | `Spec => []TypeOK`; tables hold what is put into them, loops stay in bounds |
| `FlowsFollowTheFile` | `Spec => []FlowsAsWritten`; a malformed line neither moves nor changes other lines' flows |
| `CycleIsTheLeast` | `Spec => []CycleIsLeastCommonMultiple`; no intermediate product wraps if the result fits |
| `SchedulesSorted` | `Spec => []SortedStable`; the bubble sort is a stable sort |
| `SchedulesExact` | `Spec => []FramesExact`; only a queue with more frames than an `int` counts ends the program; a schedule that is made has the frames that are due, and if the cycle fits one at every `offset + j * period` and no other |
| `EveryFlowReady` | `Spec => []FlowsReady`; every flow has its queue, its port and its lcore |
| `ChecksumsStand` | `Spec => []ChecksumStands`, if the tail room of a buffer holds an Ethernet header (`TailroomForHeader`; the pool's buffers have 2048 bytes) |

*The state.* `SetupInv` adds to the types: what is in the table and how far each loop has come
(`FlowTable`, `Counting`); that the schedules are those of the first queues and the lcores those
of the queues with frames (`Schedules`, `Lcores`); that the frames are those of the table as it
is (`Frozen`); and that, on a device that fits, what the flags in `dev_state_list` say and what
the card has set up are the same (`Agreement`). The last is what `EveryFlowReady` rests on,
with one counting argument: the launch loop runs below the number of queues of *all* ports,
and a port that started has `NUM_TX_QUEUE` of them, so that the loop goes over every queue
number. `Parsed` relates locals and table to the lines read so far.

*The cycle.* `gcd` is shown to divide both arguments and to be a sum of multiples of them
(`IsGcd`, Bezout), by induction on the first. A common multiple of both periods is then a
multiple of their `lcm`; a fold over the flows keeps this (`OfFirst`, "of the first n periods"), and
as every intermediate divides the result it is no larger.

*The frames.* A flattened sequence of sequences has each of them as a block; the block of flow
i holds its frames (`Filled`), hence their number, which is that of the frames due. The `int` that
`calculate_num_frames_per_queue` adds up is the same number modulo that of the values of an
`int`, so that it is the same below `INT_HALF`, and a schedule is made only then: the number is
otherwise negative, or less than what is written.

*The sort.* A permutation is a bijection of the places, and the sort is one that keeps the order
of equal times (`Permuted`, `Stable`). After pass i the last i places are in order and nothing
before them is later (`Settled`); within a pass, the latest frame so far is at the place that is
compared next (`LatestAt`).

### Transmission loop (`TxLoopProofs`, `TxPassProofs`)

`TxLoopProofs` proves, for all queues, flow tables, orders, periods, offsets, deltas, base
times and run times that satisfy the assumptions of `TxLoop`, and for unbounded runs:

| Theorem | Says |
|---|---|
| `TypeCorrect` | `Spec => []TypeOK`; an lcore never indexes outside its schedule |
| `LaunchTimesOnGrid` | `Spec => []GridAligned`; each timer stands at `base + offset + k * period`, k the number of outcomes counted |
| `SampleLocalsBelong` | `Spec => []SampleLocals`; the locals left over belong to the flow dated with them |
| `JitterInWholePeriods` | `Spec => []JitterWholePeriods`; a stamp of the flow in hand and the flow's previous one are whole periods apart, in this order |
| `RefinesFlowService` | `Spec => ImplementsFlowService`; the detailed model implements the abstract service |

*Assumptions* (named in `TxLoop`, evaluated by TLC in every run): `FlowAssumption` (types of the
table), `OrderAssumption` (a schedule names flows of its own queue only, which `SchedulesExact`
proves of `sche.c`), `ParameterAssumption` (types of the parameters), `DeltaAssumption`
(no first launch time is below its delta, so `txtime - delta` does not wrap).

*Argument.* `TypeOK` is not inductive: the step of an lcore indexes its schedule, and that is
in range only if the lcore was launched, which is so only for a non-empty schedule and after
the base time was set. `Shape` adds this (what holds while `main()` is in set-up, and that
busy lcores have a frame of their own queue in hand); `IInv == TypeOK /\ Shape` is inductive
(`InitIInv`, `IInvInductive`, one lemma for the steps of `main()`, card and time and one for
those of an lcore).

`GridAligned` needs that counters are zero before the grid is laid out (`GridInv`). Its core is
`LcoreSlotStep`: a step of any lcore moves timer, count and frame in hand of every flow in one
of a few ways, and each of them preserves the equation (`GridStep`). That lcores do not
disturb each other's flows (`OtherQueueStep`) follows from `OrderAssumption`.

`SampleLocals` is strengthened to `Locals`, which follows `flow` and `txtime` from the end of one
iteration to the head of the next, across the while test and the wrap of the position.

`JitterInWholePeriods` follows the frames that may become hardware times, where they are: the flow's
kept frame, the one in the register and those in the ring. `Trail` says of them that a ring
holds frames of its own queue's flows only (`OwnRings`), that each is at a place of its flow's grid
that the flow's count has passed (`FramesOnGrid`), and that of one flow the kept frame is before
the one in the register, and both before those in the ring, which are in order
(`FramesInOrder`). Giving a frame up keeps this, losing a stamp too, and so does another lcore that
reads it.

`RefinesFlowService` maps each action to a step of `FlowService` or a stutter, under `IInv`.

`TxPassProofs` proves, about the same specification:

| Theorem | Says |
|---|---|
| `OutcomesAddUp` | `Spec => []CountersBalance`; each frame has one outcome, an lcore's counters are the sums of its flows' |
| `FlowsStayInStep` | `ExactSchedules`: `Spec => []CycleAligned`; a pass moves every flow on by one cycle |
| `RunEndsInTime` | `ExactSchedules`: `Spec => []OverrunBounded`; a run ends at most a cycle and a delta late |
| `LaunchTimesInOrder` | `ExactSchedules`, `SortedStarts`, `NearOffsets`: `Spec => LaunchOrder`; frames are taken in the order in which their periods begin |

*Hypotheses on the schedules.* `ExactSchedules`, every flow as often as its period fits into the
cycle, is what `SchedulesExact` proves of `sche.c` for cycles that fit a word. `SortedStarts` is
the order by the starts of the periods, which is what its sort gives as long as no start wraps
(`SchedulesSorted`); it holds with periods mixed as they may be. `NearOffsets`, that no flow
begins more than a period of its own after another one of its queue, is a condition on the flow
table that the code does not check; it is about the step from one pass to the next.

*Argument.* `Balance` states the sums by name and is inductive with `IInv`; lcores change
records of different flows, and a sum over a finite set changes with one of its terms
(`FoldLemmas`). For the passes, `Passes` says of each lcore that it has been through its
schedule k times and through the first so many places of it once more, and that each of its
flows has been counted just as often (`Hits` counts the places). With `GridInv` this
gives the launch time of a flow in terms of pass and place (`LaunchTimesInOrder`), the equal
advance at the end of a pass, and the distance from the test of the run time to the last
launch time of a pass.

### Timely restrictions (`TxLoopTimelyProofs`, `TxPassProofs`)

For every flow table and run time:

| Theorem | Says |
|---|---|
| `StampOwnOneQueue` | one queue: `PatientSpec => StampIsOwn`; each stamp is recorded for its own frame |
| `DrainedOneQueue` | one queue: `PatientSpec => []DrainedAtStop`; nothing is discarded when the port is stopped |
| `JitterConsecutiveOneQueue` | one queue: `PatientSpec => []JitterConsecutive`; jitter is over one period, through missed deadlines |
| `InTimeOnceSpaced` | `ExactSchedules`, `SpacedSchedules`: `PromptSpec => InTimeOnceSending`, for any number of queues |

The first three assume a hardware stamp (`PIT_HW`) and a single queue, which is what finding 3
says they need. *Argument.* `Card` says where the one frame is that the card may hold: between
the hand-over and the end of the poll it is in the ring, or its stamp is in the register;
everywhere else both are empty. `History` follows the flow's last stamped frame: `Pending`, from
the moment the timer is moved on until the stamp is read or given up, it is one period behind
the frame in hand. Under these hypotheses no frame is refused and no poll runs out (`NoRefusal`,
`NoTimeout`), so that missed deadlines are what these theorems are about; the general case is
`JitterInWholePeriods`.

`InTimeOnceSpaced` is in `TxPassProofs`, as it needs the passes. `SpacedSchedules` says that
consecutive launch times of a queue, the step from the last to the first included, are
`delta - FUDGE_FACTOR` apart or more. `InTime` says, of an lcore on its way to the hand-over, that the
clock has not passed the moment the deadline test allowed. `Ahead` says of an lcore that has
sent a frame that the clock has not passed the launch time before the one it comes to next, and
that nothing in its ring is launched later, whatever ends its wait: its stamp, that of another
queue's frame, or the last poll.

### Timing records (`TxStatisticsProofs`)

For every flow table and every width of `int`:

| Theorem | Says |
|---|---|
| `AveragesBelowMaximum` | `StatSpec => []AverageBelowMaximum`; no average exceeds its largest sample (it may lie below all of them) |
| `CoreReportsWorst` | `StatSpec => []CoreMaximum`; an lcore's worst case is that of one of its flows |
| `SoftwareJitterBounded` | `StatSpec => []SoftwareJitterExplained`; for all but the last flow of a schedule, at most twice the distance from the launch times |
| `HardwareJitterBounded` | one queue, `PIT_HW`: `StatSpec /\ []SamplesFit => []HardwareJitterExplained` |

*Averages.* Since the weights are not sample counts, the argument must not use what they are: it
needs that the divisor is positive (`SendPositive`), and that a quotient of a sum of n terms
below the maximum is below it (`Quotient`, `AveragedRecord`); `Locals` of `TxLoopProofs` says
that the sample is of the flow whose record is changed.

*Jitter.* The two times compared are of launch times one period apart, by `Locals` for the
software times and by `History` for the hardware times; so the jitter is the difference of two
samples that are in the record. In software it is a difference of distances, whichever side
of the launch time they lie on, hence the factor two; the difference is truncated to an `int`
with them (`AbsInt`), which commutes with the subtraction. A hardware time is never before its
launch time, which gives the bound without the factor, but only as long as the distances
themselves are not truncated (`SamplesFit`): beyond that one of the samples may come out
small. (In the run `INT_HALF` is beyond the last moment, which implies it.)

### Listener (`ListenerProofs`)

`ListenerProofs` proves, for every pool, ring and traffic with a ring smaller than the pool
(`ListenerAssumption`):

| Theorem | Says |
|---|---|
| `TypeCorrect` | `Spec => []TypeOK`; the pool is never asked for a buffer it lacks |
| `FramesInOrder` | `Spec => []EachFrameOnce`; frames are received once and in order, and none vanishes |
| `SpacedStampsAreOwn` | `Spec => []StampIsOwn`; with spaced frames, a stamp is printed with its own frame |

*Argument.* `Buffers` accounts for every buffer that left the pool: the ring's, `main()`'s, and one
for each reception; with `TypeOK` it is inductive (`IInvInductive`). It also says that a stamp
is only waited for once a frame has been received. `EachFrameOnce` needs that no frame is known
that has not arrived (`Accounted`). `StampIsOwn` needs that, with spaced frames, register and ring
are about one frame, the last that arrived (`Owned`).

### PTP client (`PtpClientProofs`)

`PtpClientProofs` proves, for all delays, first offsets and bounds:

| Theorem | Says |
|---|---|
| `TypeCorrect` | `Spec => []TypeOK`, for any masters, overlapping or not |
| `CorrectionOneMaster` | `Lone(m)` gives `Spec => CorrectionSynchronizes`: every correction leaves the clock within half the spread of the delays |

`Lone(m)` states the assumptions under which the run `ptp` shows it: one master that ends an
exchange before the next, and a card that sends a request while the client waits; finding 4 is
what happens without the first. *Argument.* The correction is right when its four stamps, which
four different steps take, are of one exchange. `Coherent(m)` is about the exchange whose SYNC
left at some moment `T`: `Messages` says of every message in the client's `Inbox` (on the link
or polled next) that it belongs to it, and that a SYNC's receive stamp, the follow-up's content
and the response's time are those of messages that travelled for one of the delays; `Request`
that there is one request at most; `Ordered` that follow-up and response are the last of their
exchange; `Phases` and `Data` that the client's data are this exchange's as long as an answer
may come (`Open`). The request's own stamp exists because an answer needs a request that left,
which the card stamped (`StampOf`); this is why `StampMissing` can be followed by no answer.
`Residue` is the arithmetic: `delta_eval` of such stamps leaves half the difference of the two
transit times, rounded. There is one lemma for each action.

### Induction

The library's induction theorems take an operator as a parameter, which the installed provers
cannot instantiate. `FoldLemmas` derives induction over the natural numbers for a *set* of
numbers (`LeastNumber`, `Induction`) from the theorem about well-founded relations that has no
such parameter; sums, folds over the prefixes of a sequence and loops
(`LoopExists`) follow. A recursive function whose recursion goes to smaller values is defined
by the same means.

### What stays with TLC

Liveness: `Finishes`, `Recovers`, `HeardWhilePoolLasts`. The prover has no rules for `ENABLED`
and so none for fairness. The runs with a violation show what happens without a hypothesis
(finding 3 for `OneQueue`, finding 4 for a single master).

Two hypotheses link the parts and are not themselves derived by a theorem across modules:
`TxLoop` takes its schedules as a constant, with `OrderAssumption` and `ExactSchedules` about it,
and `Setup` proves the same two facts of the schedules it computes, in its own terms
(`FramesExact`). `MCTxLoop` lets TLC compare the two.

## 5. Not modelled

- The characters of a configuration line and of the options, the values of header fields, address
  conversion (`utility.c`) and messages: no control depends on them, except that a comparison of
  pointers (`engine_dpdk.c` 202) never lets the port's own address into a frame.
- `print_stats` and the last samples, which are only printed.
- The options given to the device; failures of library calls other than the start of a port.
- Ownership of mbufs by the driver: `tx_loop` hands one mbuf per flow over again and again.
- The PTP client is not composed with the lcores: its launch is commented out (`talker.c` 457).
- The legacy prototypes in `src/.legacy/`, which the makefile does not build.

## 6. Plan

Done, in this order: the schedule computation and set-up; the transmission loop with its
abstract service; its timely restrictions; the first theorems; the PTP client; the parser,
devices and frames of the set-up; the listener and its theorems; the timing records; the
theorems about stamps, averages and the clock's correction; the theorems about passes,
records and jitter; the theorems about the set-up and the schedule computation.

Next, the model: PTP with overlapping exchanges and late responses, and with receive stamps that
cannot be read; an mbuf handed over again before the driver is done with it.

Next, the proofs: that the schedules `Setup` hands to the lcores satisfy `OrderAssumption` and
`ExactSchedules` of `TxLoop`, as a theorem about `ScheduleOps` that both use, and `SortedStarts`
with them.
