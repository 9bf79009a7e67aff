---------------------------- MODULE FlowService ----------------------------
(***************************************************************************)
(* What the talker promises for each flow, without lcores, schedules,      *)
(* descriptor rings or timestamps: the launch times of a flow form a       *)
(* periodic grid; the flow takes them one by one; each gets exactly one    *)
(* outcome; a frame reaches the card no earlier than its delta before the  *)
(* launch time; a launch time is given up as missed only when the clock    *)
(* has passed that moment by more than FUDGE_FACTOR; and a queue works on  *)
(* one frame at a time.                                                    *)
(***************************************************************************)
EXTENDS Integers

CONSTANTS Flows, Queues, FlowTable, NoFlow, FUDGE_FACTOR

VARIABLES
    now,        \* the clock
    base,       \* the base time, fixed once
    launch,     \* launch[f]: the launch time flow f took last
    open,       \* open[q]: the flow with a frame in the hands of queue q
    tally       \* tally[f]: outcomes so far

vars == <<now, base, launch, open, tally>>

Grid(f, b) == b + FlowTable[f].offset

NextLaunch(f) == launch[f] + FlowTable[f].period

WakeTime(f, t) == t - FlowTable[f].delta

Init ==
    /\ now \in Nat
    /\ base = 0
    /\ launch = [f \in Flows |-> 0]
    /\ open = [q \in Queues |-> NoFlow]
    /\ tally = [f \in Flows |-> [sent |-> 0, refused |-> 0, missed |-> 0]]

\* The grid is laid out once, before anything is sent.
Fix ==
    /\ launch = [f \in Flows |-> 0] /\ base = 0
    /\ base' \in Nat
    /\ launch' = [f \in Flows |-> Grid(f, base')]
    /\ UNCHANGED <<now, open, tally>>

\* A queue that is free takes the next launch time of one of its flows.
Open(f) ==
    /\ open[FlowTable[f].queue] = NoFlow
    /\ launch' = [launch EXCEPT ![f] = NextLaunch(f)]
    /\ open' = [open EXCEPT ![FlowTable[f].queue] = f]
    /\ UNCHANGED <<now, base, tally>>

\* ... or gives it up, because it is too late to prepare the frame.
Miss(f) ==
    /\ open[FlowTable[f].queue] = NoFlow
    /\ now > WakeTime(f, NextLaunch(f)) + FUDGE_FACTOR
    /\ launch' = [launch EXCEPT ![f] = NextLaunch(f)]
    /\ tally' = [tally EXCEPT ![f].missed = @ + 1]
    /\ UNCHANGED <<now, base, open>>

\* The frame is handed to the card, or the card refuses it.
Close(f, outcome) ==
    /\ open[FlowTable[f].queue] = f
    /\ now >= WakeTime(f, launch[f])
    /\ open' = [open EXCEPT ![FlowTable[f].queue] = NoFlow]
    /\ tally' = [tally EXCEPT ![f][outcome] = @ + 1]
    /\ UNCHANGED <<now, base, launch>>

Tick ==
    /\ now' = now + 1
    /\ UNCHANGED <<base, launch, open, tally>>

Next ==
    \/ Fix
    \/ \E f \in Flows : Open(f) \/ Miss(f) \/ Close(f, "sent") \/ Close(f, "refused")
    \/ Tick

Spec == Init /\ [][Next]_vars
=============================================================================
