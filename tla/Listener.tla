------------------------------ MODULE Listener ------------------------------
(***************************************************************************)
(* The listener: src/listener.c with the functions of src/engine_dpdk.c it *)
(* calls, the buffer pool, and the card that receives for it.              *)
(*                                                                         *)
(* A frame is the number of its arrival.  Buffers are counted: a reception *)
(* hands a filled buffer to rx_loop and posts a fresh one in its place, or *)
(* does not take place when the pool is empty.  The card has one register  *)
(* for receive stamps; a frame is stamped if it is of a kind that the card *)
(* stamps and the register is free when it arrives.  The device and queue  *)
(* calls succeed.                                                          *)
(***************************************************************************)
EXTENDS Integers, Sequences, FiniteSets

CONSTANTS
    NUM_MBUF_ELEMENTS,  \* buffers of the pool (engine_dpdk.h:26)
    NUM_RX_DESC,        \* descriptors of the receive ring (engine_dpdk.h:31)
    MaxFrames           \* bound: frames that arrive

ASSUME ListenerAssumption ==
    /\ NUM_MBUF_ELEMENTS \in Nat
    /\ NUM_RX_DESC \in Nat \ {0}
    /\ NUM_RX_DESC < NUM_MBUF_ELEMENTS
    /\ MaxFrames \in Nat

NoFrame == 0

VARIABLES
    pc,         \* where the program is
    pit_hw,     \* FALSE under -w, --no-stamp
    pool,       \* free buffers of the pool
    received,   \* the frames rx_loop received, in this order
    stamps,     \* pairs <<frame, stamped>>: the stamp printed for a frame is of stamped
    arrived,    \* the card: frames that have arrived
    ring,       \* the card: frames in filled descriptors, oldest first
    dropped,    \* the card: frames that found no descriptor
    stamp,      \* the card: the frame whose time the stamp register holds
    spaced      \* the network: a frame comes only when the one before is dealt with

programVars == <<pc, pit_hw, pool, received, stamps>>
cardVars    == <<arrived, ring, dropped, stamp>>
vars == <<programVars, cardVars, spaced>>

Init ==
    /\ pc = "parse"
    /\ pit_hw = TRUE
    /\ pool = NUM_MBUF_ELEMENTS
    /\ received = <<>>
    /\ stamps = {}
    /\ arrived = 0
    /\ ring = <<>>
    /\ dropped = {}
    /\ stamp = NoFrame
    /\ spaced \in BOOLEAN

-----------------------------------------------------------------------------
(* main()                                                                  *)

\* The options.  parser compares its c with -1 before it has assigned it, and may
\* for that reason end without having looked at any.
Parse ==
    /\ pc = "parse"
    /\ \E option \in {"none", "no-stamp", "help"} :
          /\ pc' = IF option = "help" THEN "exited" ELSE "setup"
          /\ pit_hw' = (option # "no-stamp")
    /\ UNCHANGED <<pool, received, stamps, cardVars, spaced>>

\* The port with all its queues; its start fills the receive ring with buffers.
StartPort ==
    /\ pc = "setup"
    /\ pool' = pool - NUM_RX_DESC
    /\ pc' = "allocate"
    /\ UNCHANGED <<pit_hw, received, stamps, cardVars, spaced>>

\* allocate_packet: a buffer that recv_single never uses.
Allocate ==
    /\ pc = "allocate"
    /\ pool > 0
    /\ pool' = pool - 1
    /\ pc' = "recv"
    /\ UNCHANGED <<pit_hw, received, stamps, cardVars, spaced>>

-----------------------------------------------------------------------------
(* rx_loop                                                                 *)

\* Mutant: the flag is taken for a truth value.
WantsStamp_Positive(flag) == pit_hw /\ flag > 0

WantsStamp(flag) == pit_hw /\ flag >= 0

\* Mutant: whether there is a new buffer is not looked at.
TakeBuffer_Unchecked(n) == pool' = pool - n

\* The ring is given a new buffer for the one handed out, which nobody frees.
TakeBuffer(n) == pool >= n /\ pool' = pool - n

\* Mutant: what has arrived together is taken together, and the last one kept.
Take_Burst ==
    /\ ring # <<>>
    /\ received' = Append(received, ring[Len(ring)])
    /\ ring' = <<>>

Take ==
    /\ ring # <<>>
    /\ received' = Append(received, Head(ring))
    /\ ring' = Tail(ring)

\* recv_single returns 1; flag is the frame's timesync index, never negative.
Receive ==
    /\ pc = "recv"
    /\ Take
    /\ TakeBuffer(1)
    /\ \E flag \in {0, 1} : pc' = IF WantsStamp(flag) THEN "stamp" ELSE "recv"
    /\ UNCHANGED <<pit_hw, stamps, arrived, dropped, stamp, spaced>>

\* recv_single returns 0: nothing is there, or no buffer to put in its place.
ReceiveNothing ==
    /\ pc = "recv"
    /\ ring = <<>> \/ pool = 0
    /\ UNCHANGED vars

\* get_rx_hardware_timestamp finds the register valid.  Reading it frees it.
ReadStamp ==
    /\ pc \in {"stamp", "poll"}
    /\ stamp # NoFrame
    /\ stamps' = stamps \cup {<<received[Len(received)], stamp>>}
    /\ stamp' = NoFrame
    /\ pc' = "recv"
    /\ UNCHANGED <<pit_hw, pool, received, arrived, ring, dropped, spaced>>

\* Some polls find it empty.
PollStamp ==
    /\ pc = "stamp"
    /\ stamp = NoFrame
    /\ pc' = "poll"
    /\ UNCHANGED <<pit_hw, pool, received, stamps, cardVars, spaced>>

\* Mutant: the polls have no limit.
StampTimeout_Never == pc = "poll" /\ UNCHANGED vars

\* The polls run out; the last one may have emptied the register.
StampTimeout ==
    /\ pc = "poll"
    /\ stamp' = NoFrame
    /\ pc' = "recv"
    /\ UNCHANGED <<pit_hw, pool, received, stamps, arrived, ring, dropped, spaced>>

Program ==
    \/ Parse
    \/ StartPort
    \/ Allocate
    \/ Receive
    \/ ReceiveNothing
    \/ ReadStamp
    \/ PollStamp
    \/ StampTimeout

-----------------------------------------------------------------------------
(* The card and the network.                                               *)

\* A frame is stamped at the wire, before the card looks for a descriptor.
Arrive ==
    /\ pc \notin {"parse", "setup", "exited"}
    /\ arrived < MaxFrames
    /\ spaced => ring = <<>> /\ pc = "recv"
    /\ arrived' = arrived + 1
    /\ IF Len(ring) < NUM_RX_DESC
       THEN ring' = Append(ring, arrived') /\ UNCHANGED dropped
       ELSE dropped' = dropped \cup {arrived'} /\ UNCHANGED ring
    /\ stamp' \in IF stamp = NoFrame THEN {NoFrame, arrived'} ELSE {stamp}
    /\ UNCHANGED <<programVars, spaced>>

Exited == pc = "exited" /\ UNCHANGED vars

Next == Program \/ Arrive \/ Exited

Spec == Init /\ [][Next]_vars

\* The program is a thread on a core of its own; nothing is assumed of the network.
FairSpec == Spec /\ WF_vars(Program)

-----------------------------------------------------------------------------
(* Properties.                                                             *)

Looping == pc \in {"recv", "stamp", "poll"}

TypeOK ==
    /\ pc \in {"parse", "setup", "allocate", "recv", "stamp", "poll", "exited"}
    /\ pit_hw \in BOOLEAN
    /\ pool \in Nat
    /\ received \in Seq(Nat)
    /\ stamps \subseteq Nat \X Nat
    /\ arrived \in Nat
    /\ ring \in Seq(Nat)
    /\ dropped \subseteq Nat
    /\ stamp \in Nat
    /\ spaced \in BOOLEAN

\* Each frame that arrived was received, is waiting or was dropped, and only one of
\* them; those received and waiting are in the order of their arrival.
EachFrameOnce ==
    LET taken == received \o ring
    IN  /\ \A i, j \in DOMAIN taken : i < j => taken[i] < taken[j]
        /\ {taken[i] : i \in DOMAIN taken} \cap dropped = {}
        /\ Len(taken) + Cardinality(dropped) = arrived

\* The stamp printed with a frame is its own, provided the network leaves the listener
\* time to deal with a frame before the next; also when some frames carry no stamp.
StampIsOwn == spaced => \A s \in stamps : s[1] = s[2]

\* A frame in the ring is received in the end, unless the pool runs dry first.
HeardWhilePoolLasts ==
    \A n \in 1 .. MaxFrames :
        (\E i \in DOMAIN ring : ring[i] = n) ~>
            (pool = 0 \/ \E i \in DOMAIN received : received[i] = n)
=============================================================================
