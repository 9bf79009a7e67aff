---------------------------- MODULE ScheduleOps ----------------------------
(***************************************************************************)
(* The schedule computation of src/sche.c as pure operators.               *)
(*                                                                         *)
(* A flow set is a sequence of records [queue, period, offset]; the index  *)
(* in the sequence is the flow id (1-based here, 0-based in the code), and *)
(* offset stands for offset_sec * ONE_SECOND_IN_NS + offset_nsec.  A frame *)
(* [time, flow] is one slot of the two parallel arrays sending_time[] and  *)
(* order[] of struct schedule_state.                                       *)
(***************************************************************************)
EXTENDS Integers, Sequences, SequencesExt

CONSTANTS
    WORD,       \* number of values of a uint64_t: arithmetic wraps modulo WORD
    INT_HALF    \* an int is at least -INT_HALF and below INT_HALF

ASSUME WordAssumption ==
    /\ WORD \in Nat \ {0}
    /\ INT_HALF \in Nat \ {0}
    /\ WORD % (2 * INT_HALF) = 0

-----------------------------------------------------------------------------
(* The cycle: least common multiple of the periods, in machine arithmetic. *)

gcd[p \in Nat \X Nat] == IF p[1] = 0 THEN p[2] ELSE gcd[<<p[2] % p[1], p[1]>>]

\* Mutant: the product of the periods instead of their least common multiple.
lcm_NoGcd(a, b) == (a * b) % WORD

\* Dividing first keeps the intermediate small; only the result can wrap.
lcm(a, b) == ((a \div gcd[<<a, b>>]) * b) % WORD

lcm_of_array(arr) == FoldLeft(lcm, Head(arr), Tail(arr))

Periods(flows) == [i \in DOMAIN flows |-> flows[i].period]

calculate_cycle(flows) == lcm_of_array(Periods(flows))

-----------------------------------------------------------------------------
(* The frames of one queue, in the order the two nested loops write them,  *)
(* and their number as it is counted before the arrays are allocated.      *)

\* Mutant: the inner loop runs once too often.
FlowFrames_OneMore(flows, i, cycle) ==
    [j \in 1 .. cycle \div flows[i].period + 1 |->
        [time |-> (flows[i].offset + (j - 1) * flows[i].period) % WORD,
         flow |-> i]]

FlowFrames(flows, i, cycle) ==
    [j \in 1 .. cycle \div flows[i].period |->
        [time |-> (flows[i].offset + (j - 1) * flows[i].period) % WORD,
         flow |-> i]]

QueueFrames(flows, cycle, queue) ==
    FlattenSeq([i \in DOMAIN flows |->
        IF flows[i].queue = queue THEN FlowFrames(flows, i, cycle) ELSE <<>>])

\* A uint64_t assigned to an int.
ToInt(x) == ((x + INT_HALF) % (2 * INT_HALF)) - INT_HALF

\* An int is added to a uint64_t, and the sum is an int again.
calculate_num_frames_per_queue(flows, cycle, queue) ==
    FoldLeft(LAMBDA n, f : IF f.queue = queue
                           THEN ToInt(n + cycle \div f.period) ELSE n,
             0, flows)

-----------------------------------------------------------------------------
(* The bubble sort: both arrays are permuted together, on strictly greater *)
(* sending times only.                                                     *)

\* Mutant: frames with equal sending times are exchanged too.
CompareSwap_NotStrict(s, j) ==
    IF s[j].time >= s[j + 1].time
    THEN [s EXCEPT ![j] = s[j + 1], ![j + 1] = s[j]]
    ELSE s

CompareSwap(s, j) ==
    IF s[j].time > s[j + 1].time
    THEN [s EXCEPT ![j] = s[j + 1], ![j + 1] = s[j]]
    ELSE s

\* The inner loop, up to the comparison of places last, last + 1.
SortPass(s, last) ==
    LET after[j \in 0 .. last] == IF j = 0 THEN s ELSE CompareSwap(after[j - 1], j)
    IN  after[last]

\* The outer loop: n - 1 passes, pass i ends n - i places in.
sort(s, n) ==
    LET after[i \in 0 .. n] == IF i = 0 THEN s ELSE SortPass(after[i - 1], n - i)
    IN  IF n = 0 THEN s ELSE after[n - 1]

-----------------------------------------------------------------------------
(* One entry of the array create_schedule_state returns, when the arrays   *)
(* are as long as what is written into them.                               *)

init_schedule_state_per_queue(flows, cycle, queue) ==
    LET n == calculate_num_frames_per_queue(flows, cycle, queue)
    IN  [cycle_period         |-> cycle,
         num_frames_per_cycle |-> n,
         frames               |-> sort(QueueFrames(flows, cycle, queue), n)]

\* The order[] array alone: the flow ids tx_loop walks.
OrderOf(schedule) == [k \in DOMAIN schedule.frames |-> schedule.frames[k].flow]
=============================================================================
