----------------------------- MODULE PtpClient -----------------------------
(***************************************************************************)
(* The PTP client of src/ptpclient_dpdk.c: sync_loop and its handlers for  *)
(* SYNC, FOLLOW_UP and DELAY_RESP, with the masters, the link and the      *)
(* card's transmit-stamp register they work with.                          *)
(*                                                                         *)
(* Times are instants of the masters' common time; the client's clock is   *)
(* ahead of it by offset, which only parse_drsp changes.  Each message     *)
(* takes one of Delays on the link, which keeps the order and may lose     *)
(* it.  A sequence number is only ever compared for equality, and is the   *)
(* number of the exchange.  A second master serves another PTP domain: it  *)
(* answers no request that names the first one's.                          *)
(***************************************************************************)
EXTENDS Integers, Sequences, FiniteSetsExt

CONSTANTS
    Masters,        \* clock ids
    NoMaster,       \* the all-zero clock id
    Delays,         \* how long a message may take
    Offsets,        \* what the client's clock may be ahead of time at first
    Start,          \* time at first
    Overlap,        \* a master may begin an exchange before its last one ended
    PromptCard,     \* a request leaves the card while the client waits for its stamp
    Limit           \* bounds: [exchanges (per master), losses, refusals, others, slack]

NoTime == 0         \* no stamp, and the value of a timespec that was reset

Budgets == {"losses", "refusals", "others", "slack"}    \* what is bounded, beside exchanges

ASSUME PtpAssumption ==
    /\ NoMaster \notin Masters
    /\ Delays \subseteq Nat \ {0} /\ Delays # {}
    /\ Start \in Nat /\ Offsets \subseteq {o \in Int : Start + o > 0}
    /\ Overlap \in BOOLEAN /\ PromptCard \in BOOLEAN
    /\ Limit \in [exchanges : Nat, losses : Nat, refusals : Nat, others : Nat, slack : Nat]

VARIABLES
    now, offset,
    exchange,           \* exchange[m]: SYNC messages master m has sent
    owed,               \* owed[m]: time of the SYNC whose FOLLOW_UP is to come
    toClient, toMaster, \* messages on the link, oldest first
    rxq,                \* received, not yet polled, each with its receive stamp
    txq, txstamp,       \* requests in the transmit ring; the stamp register
    pc,                 \* "poll", or "await" in parse_fup's wait for the stamp
    ptp_data,           \* struct ptpv2_data_slave_ordinary
    used                \* losses, refusals, others' responses and slack so far

masterVars == <<exchange, owed>>
cardVars   == <<rxq, txq, txstamp>>
vars == <<now, offset, masterVars, toClient, toMaster, cardVars, pc, ptp_data, used>>

Message(type, src, seq, time, mine) ==
    [type |-> type, src |-> src, seq |-> seq,
     time |-> time,     \* the time stamp it carries
     mine |-> mine,     \* req_port_id is this client's
     due  |-> 0]        \* on the link: when it arrives; received: the receive stamp

\* ptpclient_dpdk clears ptp_data before it launches sync_loop.
Init ==
    /\ now = Start /\ offset \in Offsets
    /\ exchange = [m \in Masters |-> 0] /\ owed = [m \in Masters |-> NoTime]
    /\ toClient = <<>> /\ toMaster = <<>>
    /\ rxq = <<>> /\ txq = <<>> /\ txstamp = NoTime
    /\ pc = "poll"
    /\ ptp_data = [master_clock_id |-> NoMaster, client_clock_id |-> FALSE,
                   seqID_SYNC |-> 0, seqID_FOLLOWUP |-> 0,
                   tstamp1 |-> NoTime, tstamp2 |-> NoTime,
                   tstamp3 |-> NoTime, tstamp4 |-> NoTime, delta |-> 0]
    /\ used = [w \in Budgets |-> 0]

ClientClock == now + offset

Uses(what) ==
    /\ used[what] < Limit[what]
    /\ used' = [used EXCEPT ![what] = @ + 1]

-----------------------------------------------------------------------------
(* The link and the masters.                                               *)

\* The link with the message behind the others on it.
Behind(link, message, d) ==
    Append(link, [message EXCEPT !.due = IF link = <<>> THEN now + d
                                         ELSE Max({now + d, link[Len(link)].due})])

\* The message goes on its way, or is lost.
Transmit(link, message) ==
    \/ UNCHANGED used /\ \E d \in Delays : link' = Behind(link, message, d)
    \/ Uses("losses") /\ UNCHANGED link

\* Nothing of master m's last exchange is under way.
Ended(m) ==
    /\ owed[m] = NoTime
    /\ \A i \in DOMAIN toClient : toClient[i].src # m
    /\ \A i \in DOMAIN rxq : rxq[i].src # m
    /\ ptp_data.master_clock_id = m => pc = "poll" /\ txq = <<>> /\ toMaster = <<>>

SendSync(m) ==
    /\ exchange[m] < Limit.exchanges
    /\ owed[m] = NoTime
    /\ Overlap \/ Ended(m)
    /\ exchange' = [exchange EXCEPT ![m] = @ + 1]
    /\ owed' = [owed EXCEPT ![m] = now]
    /\ Transmit(toClient, Message("SYNC", m, exchange[m], NoTime, FALSE))
    /\ UNCHANGED <<now, offset, toMaster, cardVars, pc, ptp_data>>

SendFollowUp(m) ==
    /\ owed[m] # NoTime
    /\ owed' = [owed EXCEPT ![m] = NoTime]
    /\ Transmit(toClient, Message("FOLLOW_UP", m, exchange[m] - 1, owed[m], FALSE))
    /\ UNCHANGED <<now, offset, exchange, toMaster, cardVars, pc, ptp_data>>

\* The request arrives; its master answers with the time it did.
Answer ==
    /\ toMaster # <<>>
    /\ Head(toMaster).due = now
    /\ toMaster' = Tail(toMaster)
    /\ Transmit(toClient, Message("DELAY_RESP", Head(toMaster).src, Head(toMaster).seq,
                                   now, TRUE))
    /\ UNCHANGED <<now, offset, masterVars, cardVars, pc, ptp_data>>

\* A master's response to another client of the multicast group, about an
\* exchange of its own.
AnswerOther(m) ==
    /\ exchange[m] > 0
    /\ Uses("others")
    /\ \E d \in Delays :
          toClient' = Behind(toClient, Message("DELAY_RESP", m, exchange[m] - 1, now, FALSE), d)
    /\ UNCHANGED <<now, offset, masterVars, toMaster, cardVars, pc, ptp_data>>

\* A message arrives, and the card takes the client clock's time.
Receive ==
    /\ toClient # <<>>
    /\ Head(toClient).due = now
    /\ toClient' = Tail(toClient)
    /\ rxq' = Append(rxq, [Head(toClient) EXCEPT !.due = ClientClock])
    /\ UNCHANGED <<now, offset, masterVars, toMaster, txq, txstamp, pc, ptp_data, used>>

\* The card sends a request and stamps it if the register is free.
Launch ==
    /\ txq # <<>>
    /\ txq' = Tail(txq)
    /\ txstamp' = IF txstamp = NoTime THEN ClientClock ELSE txstamp
    /\ Transmit(toMaster, Head(txq))
    /\ UNCHANGED <<now, offset, masterVars, toClient, rxq, pc, ptp_data>>

-----------------------------------------------------------------------------
(* sync_loop.                                                              *)

\* The head of the receive queue is a message of this type.
Polls(type) ==
    /\ pc = "poll"
    /\ rxq # <<>>
    /\ Head(rxq).type = type
    /\ rxq' = Tail(rxq)

\* Mutant: the sequence number is kept with the master's identity, the first time.
WithSync_FirstOnly(message) ==
    IF ptp_data.master_clock_id = NoMaster
    THEN [ptp_data EXCEPT !.seqID_SYNC = message.seq,
                          !.master_clock_id = message.src,
                          !.tstamp2 = message.due]
    ELSE [ptp_data EXCEPT !.tstamp2 = message.due]

\* The first master seen is adopted.  The comparison of clock ids that follows compares
\* the message's with itself, so that a SYNC of any master counts.
\* (The result of reading the receive stamp is not looked at; here the read succeeds, and
\* the stamp is the message's own.)
WithSync(message) ==
    [ptp_data EXCEPT !.seqID_SYNC = message.seq,
                     !.master_clock_id = IF @ = NoMaster THEN message.src ELSE @,
                     !.tstamp2 = message.due]

parse_sync ==
    /\ Polls("SYNC")
    /\ ptp_data' = WithSync(Head(rxq))
    /\ UNCHANGED <<now, offset, masterVars, toClient, toMaster, txq, txstamp, pc, used>>

\* The follow-up belongs to the SYNC received last.
Matches(message) == message.seq = ptp_data.seqID_SYNC

FollowUp ==
    /\ Polls("FOLLOW_UP")
    /\ Head(rxq).src = ptp_data.master_clock_id
    /\ UNCHANGED <<now, offset, masterVars, toClient, toMaster>>

\* parse_fup keeps the number and the time of the follow-up.
WithFollowUp == [ptp_data EXCEPT !.seqID_FOLLOWUP = Head(rxq).seq, !.tstamp1 = Head(rxq).time]

\* Mutant: the stamp of the last request is not reset.
WithRequest_StampKept == [WithFollowUp EXCEPT !.client_clock_id = TRUE]

\* ... the client's clock id, and a third stamp that is yet to be taken.
WithRequest == [WithFollowUp EXCEPT !.client_clock_id = TRUE, !.tstamp3 = NoTime]

\* parse_fup, of another master than the one adopted.
FollowUpForeign ==
    /\ Polls("FOLLOW_UP")
    /\ Head(rxq).src # ptp_data.master_clock_id
    /\ UNCHANGED <<now, offset, masterVars, toClient, toMaster, txq, txstamp, pc, ptp_data, used>>

\* parse_fup, when the follow-up's SYNC was lost or no request can be built: the port
\* gives no address, or the buffer has no room.
FollowUpAlone ==
    /\ FollowUp
    /\ \/ ~Matches(Head(rxq)) /\ UNCHANGED used
       \/ Matches(Head(rxq)) /\ Uses("refusals")
    /\ ptp_data' = WithFollowUp
    /\ UNCHANGED <<txq, txstamp, pc>>

\* parse_fup up to its wait: the stamp register is cleared and the request handed
\* to the card, which may have no room for it (the result is not looked at).
SendRequest ==
    /\ FollowUp
    /\ Matches(Head(rxq))
    /\ ptp_data' = WithRequest
    /\ txstamp' = NoTime
    /\ \/ /\ txq' = Append(txq, Message("DELAY_REQ", Head(rxq).src, ptp_data.seqID_SYNC,
                                        NoTime, TRUE))
          /\ UNCHANGED used
       \/ Uses("refusals") /\ UNCHANGED txq
    /\ pc' = "await"

\* The rest of parse_fup: one of the polls finds the stamp ...
StampRead ==
    /\ pc = "await"
    /\ txstamp # NoTime
    /\ ptp_data' = [ptp_data EXCEPT !.tstamp3 = txstamp]
    /\ txstamp' = NoTime
    /\ pc' = "poll"
    /\ UNCHANGED <<now, offset, masterVars, toClient, toMaster, rxq, txq, used>>

\* ... or none of them does, and tstamp3 stays zero.
StampMissing ==
    /\ pc = "await"
    /\ txstamp = NoTime
    /\ PromptCard => txq = <<>>
    /\ pc' = "poll"
    /\ UNCHANGED <<now, offset, masterVars, toClient, toMaster, cardVars, ptp_data, used>>

\* Half the difference of the two one-way differences; C rounds towards zero.
delta_eval(t1, t2, t3, t4) ==
    LET d == (t2 - t1) - (t4 - t3)
    IN  IF d >= 0 THEN -(d \div 2) ELSE (-d) \div 2

Response ==
    /\ Polls("DELAY_RESP")
    /\ UNCHANGED <<now, masterVars, toClient, toMaster, txq, txstamp, pc, used>>

\* Mutant: a response to another client's request counts, too.
Expected_AnyClient(message) == message.seq = ptp_data.seqID_FOLLOWUP

\* The response answers this client's request about the last follow-up.
Expected(message) ==
    /\ ptp_data.client_clock_id /\ message.mine
    /\ message.seq = ptp_data.seqID_FOLLOWUP

\* parse_drsp: the fourth stamp, and the correction of the clock.
Adjust ==
    /\ Response
    /\ Expected(Head(rxq))
    /\ LET delta == delta_eval(ptp_data.tstamp1, ptp_data.tstamp2,
                              ptp_data.tstamp3, Head(rxq).time)
       IN  /\ ptp_data' = [ptp_data EXCEPT !.tstamp4 = Head(rxq).time, !.delta = delta]
           /\ offset' = offset + delta

\* parse_drsp, of a response that is not expected.
ResponseIgnored ==
    /\ Response
    /\ ~Expected(Head(rxq))
    /\ UNCHANGED <<offset, ptp_data>>

Client ==
    \/ parse_sync
    \/ FollowUpForeign \/ FollowUpAlone \/ SendRequest \/ StampRead \/ StampMissing
    \/ Adjust \/ ResponseIgnored

-----------------------------------------------------------------------------

\* Nobody but time can act, and something is on the link.
Idle ==
    /\ rxq = <<>> /\ txq = <<>> /\ pc = "poll"
    /\ \A m \in Masters : owed[m] = NoTime
    /\ toClient # <<>> \/ toMaster # <<>>

\* A message that is due arrives before time goes on.
Tick ==
    /\ toClient # <<>> => Head(toClient).due > now
    /\ toMaster # <<>> => Head(toMaster).due > now
    /\ IF Idle THEN UNCHANGED used ELSE Uses("slack")
    /\ now' = now + 1
    /\ UNCHANGED <<offset, masterVars, toClient, toMaster, cardVars, pc, ptp_data>>

Network ==
    \/ \E m \in Masters : SendSync(m) \/ SendFollowUp(m)
    \/ Answer
    \/ Receive
    \/ Launch

\* The bound on exchanges is reached: sync_loop polls an empty queue for ever.
AtLimit ==
    /\ \A m \in Masters : exchange[m] = Limit.exchanges /\ Ended(m)
    /\ UNCHANGED vars

Next ==
    \/ Network
    \/ Client
    \/ \E m \in Masters : AnswerOther(m)
    \/ Tick
    \/ AtLimit

Spec == Init /\ [][Next]_vars

\* The client polls, the card and the masters do their part, and time passes.
FairSpec == Spec /\ WF_vars(Network) /\ WF_vars(Client) /\ WF_vars(Tick)

-----------------------------------------------------------------------------
(* Properties.                                                             *)

\* State: a stamp that is set was taken, and the client waits only for a request.
TypeOK ==
    /\ now \in Nat /\ offset \in Int
    /\ exchange \in [Masters -> 0 .. Limit.exchanges]
    /\ owed \in [Masters -> Nat]
    /\ txstamp \in Int
    /\ pc \in {"poll", "await"}
    /\ ptp_data.master_clock_id \in Masters \cup {NoMaster}
    /\ pc = "await" => ptp_data.client_clock_id /\ ptp_data.tstamp3 = NoTime
    /\ \A w \in Budgets : used[w] <= Limit[w]

\* The two directions of an exchange differ by at most the difference of two delays;
\* the correction cannot see half of that difference, and rounds.
Within(error) == -error .. error

Synchronized == \E slow, fast \in Delays : offset \in Within((slow - fast + 1) \div 2)

\* The delta values "are used to synchronize the PHC clock" (ptpclient_dpdk.h:13):
\* whichever messages were lost, refused or another client's, each correction of the
\* clock leaves it synchronized.
CorrectionSynchronizes == [][offset' # offset => Synchronized']_vars

\* A lost message costs at most its own exchange: when there are more exchanges than
\* losses and refusals, the clock gets synchronized.
Recovers == <>Synchronized
=============================================================================
