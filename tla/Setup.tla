------------------------------- MODULE Setup -------------------------------
(***************************************************************************)
(* main() of src/talker.c up to the point where the tx_loop lcores run:    *)
(* the devices are listed, the flow table is filled from the command line  *)
(* or a configuration file, the ports and queues named by the flows are    *)
(* configured and the ports started, one schedule per configured queue is  *)
(* computed, the frames are laid out, and one lcore per non-empty schedule *)
(* is launched.                                                            *)
(*                                                                         *)
(* The flows name existing ports and queues below NUM_TX_QUEUE, also those *)
(* made of locals that no line has set.  Library calls succeed, but for    *)
(* the start of a port some queue of which has not been set up, and so do  *)
(* allocations, but for those of a negative size.  The program is          *)
(* "crashed" where it goes on with a null pointer, with an uninitialized   *)
(* one or beyond the end of an array that is too small by 2 * INT_HALF     *)
(* entries or more.                                                        *)
(***************************************************************************)
EXTENDS ScheduleOps, PacketOps, FiniteSets, FiniteSetsExt

CONSTANTS
    FlowConfigs,    \* what a complete line or the command line may say
    Ports,          \* the device's ports, 0 .. number - 1
    Devices,        \* numbers [tx, rx] of queues that the ports may report
    MAX_NUM_FLOWS,  \* capacity of flow_state.flows (flow.h:16)
    NUM_TX_QUEUE,   \* size of txq_state and number of queues (engine_dpdk.h:27)
    NUM_RX_QUEUE,   \* size of rxq_state (engine_dpdk.h:28)
    MaxLines,       \* bound: lines in the file, so that add_flow can overflow
    ReadCounts      \* bound: how many fields of a line sscanf may convert

\* The fields of a line in the order of sscanf's format.
Fields == <<"port", "queue", "vlan", "ip", "period", "offset", "size">>

ASSUME SetupAssumption ==
    /\ MAX_NUM_FLOWS \in Nat \ {0}
    /\ NUM_TX_QUEUE \in Nat \ {0}
    /\ NUM_RX_QUEUE \in Nat \ {0}
    /\ MaxLines \in Nat \ {0}
    /\ ReadCounts \subseteq 0 .. Len(Fields)
    /\ Ports \subseteq Nat
    /\ \A d \in Devices : d.tx \in Nat /\ d.rx \in Nat
    /\ FlowConfigs \subseteq
          [port : Ports, queue : 0 .. NUM_TX_QUEUE - 1, vlan : BOOLEAN, ip : BOOLEAN,
           period : 1 .. WORD - 1, offset : 0 .. WORD - 1, size : Nat]

VARIABLES
    phase,          \* where main() is
    device,         \* what the ports report
    locals,         \* the locals of parse_config_file
    lines,          \* history: what line i said, and the fields it gave
    flows,          \* state->flows[0 .. num_flows - 1]
    next,           \* loop variable of the phase's for loop
    configured,     \* ports with is_configured = 1
    running,        \* ports with is_running = 1
    synced,         \* ports with is_synced = 1
    txq,            \* <<port, queue>> with is_configured = 1
    tx_queue_nums,  \* count of configure_tx_queue calls
    queue_setup,    \* the card: queues that have been set up
    started,        \* the card: ports that have been started
    schedule,       \* the schedules computed so far, schedule[q + 1] for queue q
    pkts,           \* the frame of each flow
    launched        \* queues whose tx_loop was launched on an lcore

parserVars == <<locals, lines>>
devVars    == <<device, configured, running, synced, txq, tx_queue_nums>>
cardVars   == <<queue_setup, started>>
vars == <<phase, parserVars, flows, next, devVars, cardVars, schedule, pkts, launched>>

SYNC_TX_QUEUE_ID == NUM_TX_QUEUE - 1

Init ==
    /\ phase = "eal"
    /\ device \in Devices
    /\ locals \in FlowConfigs
    /\ lines = <<>>
    /\ flows = <<>>
    /\ next = 1
    /\ configured = {} /\ running = {} /\ synced = {}
    /\ txq = {}
    /\ tx_queue_nums = 0
    /\ queue_setup = {} /\ started = {}
    /\ schedule = <<>>
    /\ pkts = <<>>
    /\ launched = {}

-----------------------------------------------------------------------------
(* setup_EAL.  dev_state_list is an array of structs of int: four flags,   *)
(* then three ints for each transmit and each receive queue.  The loops    *)
(* over the queues that the device REPORTS write past txq_state and        *)
(* rxq_state when there are more than they have room for: into the queues  *)
(* of the other kind and into the flags of the ports that follow.          *)

\* Where in the list port p's struct begins, and queue i of it.
DevAt(p) == p * (4 + 3 * NUM_TX_QUEUE + 3 * NUM_RX_QUEUE)
TxqAt(p, i) == DevAt(p) + 4 + 3 * i
RxqAt(p, i) == DevAt(p) + 4 + 3 * NUM_TX_QUEUE + 3 * i

\* The ints the two loops set to one, for all ports together.
Written == UNION {{TxqAt(p, i) : i \in 0 .. device.tx - 1} \cup
                  {RxqAt(p, i) : i \in 0 .. device.rx - 1} : p \in Ports}

\* Ports whose flag number n was hit: 1 is_configured, 2 is_synced, 3 is_running.
FlagHit(n) == {p \in Ports : DevAt(p) + n \in Written}

setup_EAL ==
    /\ phase = "eal"
    /\ configured' = FlagHit(1)
    /\ synced' = FlagHit(2)
    /\ running' = FlagHit(3)
    /\ txq' = {pq \in Ports \X (0 .. NUM_TX_QUEUE - 1) : TxqAt(pq[1], pq[2]) + 1 \in Written}
    /\ phase' = "parse"
    /\ UNCHANGED <<parserVars, flows, next, device, tx_queue_nums, cardVars, schedule, pkts,
                   launched>>

-----------------------------------------------------------------------------
(* The flow table.                                                         *)

\* Mutant: an overflowing flow takes the last place.
add_flow_LastPlace(f) ==
    flows' = IF Len(flows) >= MAX_NUM_FLOWS THEN [flows EXCEPT ![MAX_NUM_FLOWS] = f]
                                            ELSE Append(flows, f)

\* Beyond the capacity the flow is reported and dropped.
add_flow(f) ==
    flows' = IF Len(flows) >= MAX_NUM_FLOWS THEN flows ELSE Append(flows, f)

\* parse_command_arguments: one flow, at the base time; no option sets
\* pit_ip_enabled.
CommandLine ==
    /\ phase = "parse"
    /\ lines = <<>> /\ flows = <<>>
    /\ \E f \in FlowConfigs : add_flow([f EXCEPT !.ip = FALSE, !.offset = 0])
    /\ locals' = <<>>
    /\ phase' = "configure"
    /\ UNCHANGED <<lines, next, devVars, cardVars, schedule, pkts, launched>>

\* What a line gives when sscanf converts its first n fields; a VLAN ID out of
\* range is reported and changes nothing.
Given(f, n, badVlan) ==
    Restrict(f, {Fields[j] : j \in 1 .. n} \ (IF badVlan THEN {"vlan"} ELSE {}))

\* sscanf stores what it converts and leaves the other variables alone.
Overwrite(f, given) ==
    [k \in DOMAIN f |-> IF k \in DOMAIN given THEN given[k] ELSE f[k]]

\* One line that is neither empty nor a comment; the number of fields converted
\* is not looked at.
ConfigLine ==
    /\ phase = "parse"
    /\ Len(lines) < MaxLines
    /\ \E f \in FlowConfigs, n \in ReadCounts, badVlan \in BOOLEAN :
          LET given == Given(f, n, badVlan)
          IN  locals' = Overwrite(locals, given) /\ lines' = Append(lines, given)
    /\ add_flow(locals')
    /\ UNCHANGED <<phase, next, devVars, cardVars, schedule, pkts, launched>>

\* End of file: parse_config_file returns, and its locals are gone.  After its loop
\* over the flows main() goes on with a pointer that the loop sets (dev_state): without
\* a flow it is uninitialized.
EndParse ==
    /\ phase = "parse"
    /\ locals' = <<>> /\ lines' = <<>>
    /\ phase' = IF flows = <<>> THEN "crashed" ELSE "configure"
    /\ UNCHANGED <<flows, next, devVars, cardVars, schedule, pkts, launched>>

-----------------------------------------------------------------------------
(* Ports and queues.                                                       *)

configure_tx_queue(p, q) == queue_setup' = queue_setup \cup {<<p, q>>}

\* Mutant: every flow counts a queue, configured before or not.
ConfigureTxQueue_Always(p, q) ==
    /\ tx_queue_nums' = tx_queue_nums + 1
    /\ txq' = txq \cup {<<p, q>>}
    /\ configure_tx_queue(p, q)

\* is_configured keeps a queue from being configured and counted twice.
ConfigureTxQueue(p, q) ==
    IF <<p, q>> \in txq THEN UNCHANGED <<tx_queue_nums, txq, queue_setup>>
    ELSE /\ tx_queue_nums' = tx_queue_nums + 1
         /\ txq' = txq \cup {<<p, q>>}
         /\ configure_tx_queue(p, q)

\* The port and the queue a flow names, each the first time it is named.
ConfigureFlow ==
    /\ phase = "configure"
    /\ next <= Len(flows)
    /\ configured' = configured \cup {flows[next].port}
    /\ ConfigureTxQueue(flows[next].port, flows[next].queue)
    /\ next' = next + 1
    /\ UNCHANGED <<phase, parserVars, flows, device, running, synced, started, schedule, pkts,
                   launched>>

\* The PTP client's queue, on the port of the last flow.  The "[Fatal !]" tests
\* that follow only print.
ConfigureSyncQueue ==
    /\ phase = "configure"
    /\ next > Len(flows)
    /\ ConfigureTxQueue(flows[Len(flows)].port, SYNC_TX_QUEUE_ID)
    /\ phase' = "start"
    /\ UNCHANGED <<parserVars, flows, next, device, configured, running, synced, started,
                   schedule, pkts, launched>>

\* Every queue the port was configured for has been set up.
Complete(p) == {p} \X (0 .. NUM_TX_QUEUE - 1) \subseteq queue_setup

\* start_port on each port that is configured and not running; the program ends
\* when one cannot be started.
StartPorts ==
    /\ phase = "start"
    /\ IF \A p \in configured \ running : Complete(p)
       THEN /\ started' = configured \ running
            /\ running' = running \cup configured
            /\ phase' = "schedule"
       ELSE /\ phase' = "exited"
            /\ UNCHANGED <<started, running>>
    /\ next' = 0
    /\ UNCHANGED <<parserVars, flows, device, configured, synced, txq, tx_queue_nums,
                   queue_setup, schedule, pkts, launched>>

-----------------------------------------------------------------------------
(* Schedules, frames and lcores.                                           *)

\* The numbers of entries that are allocated for queue q, and that are written.
Room(q) == calculate_num_frames_per_queue(flows, calculate_cycle(flows), q)
Fill(q) == Len(QueueFrames(flows, calculate_cycle(flows), q))

\* create_schedule_state: one iteration of its loop over num_queues.
ScheduleQueue ==
    /\ phase = "schedule"
    /\ next < tx_queue_nums
    /\ Room(next) >= 0 /\ Fill(next) <= Room(next)
    /\ schedule' = Append(schedule,
                       init_schedule_state_per_queue(flows, calculate_cycle(flows), next))
    /\ next' = next + 1
    /\ UNCHANGED <<phase, parserVars, flows, devVars, cardVars, pkts, launched>>

\* The same, with the arrays too small: the program does not survive the fill.
FillOverruns ==
    /\ phase = "schedule"
    /\ next < tx_queue_nums
    /\ Room(next) >= 0 /\ Fill(next) > Room(next)
    /\ phase' = "crashed"
    /\ UNCHANGED <<parserVars, flows, next, devVars, cardVars, schedule, pkts, launched>>

\* A negative number of entries is more than there is memory for: what has been
\* made is given up, and create_schedule_state returns NULL, here <<>>.
AllocationFails ==
    /\ phase = "schedule"
    /\ next < tx_queue_nums
    /\ Room(next) < 0
    /\ schedule' = <<>>
    /\ next' = tx_queue_nums
    /\ UNCHANGED <<phase, parserVars, flows, devVars, cardVars, pkts, launched>>

\* With schedules or without: enable_synchronization, and prepare_pkts.
PreparePkts ==
    /\ phase = "schedule"
    /\ next = tx_queue_nums
    /\ synced' = synced \cup configured
    /\ pkts' = [i \in DOMAIN flows |-> prepare_pkt(flows[i])]
    /\ phase' = "launch"
    /\ next' = 0
    /\ UNCHANGED <<parserVars, flows, device, configured, running, txq, tx_queue_nums, cardVars,
                   schedule, launched>>

\* Mutant: a schedule of one frame is taken for an empty one.
HasFrames_MoreThanOne(q) == schedule[q + 1].num_frames_per_cycle > 1

HasFrames(q) == schedule[q + 1].num_frames_per_cycle # 0

\* A queue whose schedule is empty is skipped.
LaunchQueue ==
    /\ phase = "launch"
    /\ next < tx_queue_nums
    /\ schedule # <<>>
    /\ launched' = IF HasFrames(next) THEN launched \cup {next} ELSE launched
    /\ next' = next + 1
    /\ UNCHANGED <<phase, parserVars, flows, devVars, cardVars, schedule, pkts>>

\* main() does not look at what create_schedule_state has returned.
LaunchWithoutSchedules ==
    /\ phase = "launch"
    /\ next < tx_queue_nums
    /\ schedule = <<>>
    /\ phase' = "crashed"
    /\ UNCHANGED <<parserVars, flows, next, devVars, cardVars, schedule, pkts, launched>>

EndLaunch ==
    /\ phase = "launch"
    /\ next = tx_queue_nums
    /\ phase' = "running"
    /\ UNCHANGED <<parserVars, flows, next, devVars, cardVars, schedule, pkts, launched>>

\* main() waits for the lcores, or the program has come to an end.
Over ==
    /\ phase \in {"running", "exited", "crashed"}
    /\ UNCHANGED vars

Next ==
    \/ setup_EAL
    \/ CommandLine
    \/ ConfigLine
    \/ EndParse
    \/ ConfigureFlow
    \/ ConfigureSyncQueue
    \/ StartPorts
    \/ ScheduleQueue
    \/ FillOverruns
    \/ AllocationFails
    \/ PreparePkts
    \/ LaunchQueue
    \/ LaunchWithoutSchedules
    \/ EndLaunch
    \/ Over

Spec == Init /\ [][Next]_vars

-----------------------------------------------------------------------------
(* Reference definitions.                                                  *)

CommonMultiple(m) == \A i \in DOMAIN flows : m % flows[i].period = 0

\* The mathematical least common multiple, searched for in 1 .. bound.
LeastCommonMultipleIs(m) ==
    /\ m > 0
    /\ CommonMultiple(m)
    /\ \A k \in 1 .. m - 1 : ~CommonMultiple(k)

FlowsOf(q) == {i \in DOMAIN flows : flows[i].queue = q}

\* The true cycle fits the machine word, the case the schedule is meant for.
CycleFits == \E m \in 1 .. WORD - 1 : CommonMultiple(m)

\* The frames to be sent in a cycle from queue q, as pairs of flow and place.
Due(q) == UNION {{i} \X (1 .. calculate_cycle(flows) \div flows[i].period) : i \in FlowsOf(q)}

Scheduled == {q \in 0 .. NUM_TX_QUEUE - 1 : q < Len(schedule)}

\* The state of main(): the lists never outgrow their arrays (flows, and
\* stats_list, which has a place for each of NUM_TX_QUEUE launched lcores), and the
\* counter agrees with the queues that were set up.
TypeOK ==
    /\ phase \in {"eal", "parse", "configure", "start", "schedule", "launch", "running", "exited",
                 "crashed"}
    /\ Len(flows) <= MAX_NUM_FLOWS
    /\ next \in 0 .. MAX_NUM_FLOWS + NUM_TX_QUEUE
    /\ started \subseteq configured /\ configured \subseteq Ports
    /\ queue_setup \subseteq txq
    /\ tx_queue_nums = Cardinality(queue_setup)
    /\ launched \subseteq 0 .. NUM_TX_QUEUE - 1

\* calculate_cycle: every queue's schedule has the least common multiple of
\* the periods of ALL flows as its cycle, whenever that number fits a word.
CycleIsLeastCommonMultiple ==
    CycleFits => \A q \in Scheduled : LeastCommonMultipleIs(schedule[q + 1].cycle_period)

\* sort: the two arrays come out ordered by sending time, and frames with the
\* same sending time keep the order in which the flows were configured.
SortedStable ==
    \A q \in Scheduled :
        LET s == schedule[q + 1].frames
        IN  \A j, k \in DOMAIN s : j < k =>
                \/ s[j].time < s[k].time
                \/ s[j].time = s[k].time /\ s[j].flow <= s[k].flow

\* The frames of a queue are counted in an int and written by loops that go by the
\* cycle.  The two numbers differ, or memory for the first cannot be had, only if in
\* one cycle a queue has more frames than an int can tell: no other table of flows,
\* however its cycle wrapped, ends the program.  A schedule that is made has as many
\* frames as are due, all of its own queue's flows; and when the cycle fits a word,
\* each flow has one frame at every offset + j * period and no other, so that the loop
\* that calls inc_flow_timer once per frame moves every flow on by exactly one cycle.
FramesExact ==
    /\ phase = "crashed" /\ flows # <<>> =>
          \E q \in 0 .. NUM_TX_QUEUE - 1 : Cardinality(Due(q)) >= INT_HALF
    /\ \A q \in Scheduled :
          LET s == schedule[q + 1].frames
              c == schedule[q + 1].cycle_period
          IN  /\ schedule[q + 1].num_frames_per_cycle = Len(s)
              /\ Len(s) = Cardinality(Due(q)) /\ Len(s) < INT_HALF
              /\ \A k \in DOMAIN s : s[k].flow \in FlowsOf(q)
              /\ CycleFits => \A i \in FlowsOf(q) :
                    LET mine == {k \in DOMAIN s : s[k].flow = i}
                    IN  /\ Cardinality(mine) * flows[i].period = c
                        /\ {s[k].time : k \in mine} =
                           {(flows[i].offset + j * flows[i].period) % WORD :
                               j \in 0 .. c \div flows[i].period - 1}

\* A field of a flow is what the last line up to the flow's own that gave it says:
\* a complete line makes exactly its own flow, under the number of its place in the
\* file, whatever malformed lines stand before it and however long the file is.
FlowsAsWritten ==
    \A i \in 1 .. Min({Len(lines), Len(flows)}) : \A k \in DOMAIN flows[i] :
        LET givers == {j \in 1 .. i : k \in DOMAIN lines[j]}
        IN  givers # {} => flows[i][k] = lines[Max(givers)][k]

\* The device reports no more queues than the program has room for.
DeviceFits == device.tx <= NUM_TX_QUEUE /\ device.rx <= NUM_RX_QUEUE

\* Once the lcores run, each flow has what it needs to be transmitted: its queue is
\* set up, its port started and synchronized, and an lcore has its schedule, also
\* when queues of several ports have been counted together.
FlowsReady ==
    phase = "running" /\ DeviceFits /\ CycleFits =>
        \A i \in DOMAIN flows :
            /\ <<flows[i].port, flows[i].queue>> \in queue_setup
            /\ flows[i].port \in started \cap synced
            /\ flows[i].queue \in launched

\* A configuration that is accepted is transmitted, whatever queue ID it asks for
\* (talker.c:16): main() does not come to an end and leave a flow out.
EveryFlowServed ==
    phase \in {"running", "exited"} => \A i \in DOMAIN flows : flows[i].queue \in launched

Payload(m) == {p.at : p \in {x \in m.parts : x.what = "payload"}}

Disjoint(r, s) == r.to <= s.from \/ s.to <= r.from

\* prepare_packet_header computes the UDP checksum before the payload is written.  A
\* frame without VLAN tag stays consistent: the datagram its IP header announces ends
\* with the frame, and nothing the checksum covers is written afterwards.
ChecksumStands ==
    \A i \in DOMAIN pkts : flows[i].ip /\ ~flows[i].vlan =>
        /\ pkts[i].sum.to = pkts[i].len
        /\ \A r \in Payload(pkts[i]) : Disjoint(r, pkts[i].sum)

\* The frame carries its payload ("packet payload is set to its flow-id",
\* talker.c:243).
PayloadInFrame ==
    \A i \in DOMAIN pkts : \E r \in Payload(pkts[i]) : r.to <= pkts[i].len
=============================================================================
