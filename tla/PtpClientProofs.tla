-------------------------- MODULE PtpClientProofs --------------------------
(***************************************************************************)
(* Theorems about PtpClient, for every set of delays, first offset and     *)
(* bound.                                                                  *)
(***************************************************************************)
EXTENDS PtpClient, TLAPS

Link == [type : {"SYNC", "FOLLOW_UP", "DELAY_REQ", "DELAY_RESP"}, src : Masters, seq : Nat,
         time : Int, mine : BOOLEAN, due : Int]

\* What the model keeps of struct ptpv2_data_slave_ordinary.
Slave == [master_clock_id : Masters \cup {NoMaster}, client_clock_id : BOOLEAN,
          seqID_SYNC : Nat, seqID_FOLLOWUP : Nat,
          tstamp1 : Int, tstamp2 : Int, tstamp3 : Int, tstamp4 : Int, delta : Int]

\* TypeOK is about the variables that hold no messages.
StateOK ==
    /\ TypeOK
    /\ toClient \in Seq(Link)
    /\ toMaster \in Seq(Link)
    /\ rxq \in Seq(Link)
    /\ txq \in Seq(Link)
    /\ ptp_data \in Slave
    /\ used \in [Budgets -> Nat]
    /\ \A m \in Masters : owed[m] # NoTime => exchange[m] > 0

-----------------------------------------------------------------------------
(* The link.                                                               *)

\* A message that left at sent and arrives at t was under way for as long as one of
\* the delays, or between two of them: it does not overtake the one before it.
Travels(sent, t) == \E lo, hi \in Delays : sent + lo <= t /\ t <= sent + hi

\* No message stays on the link for longer than the delays allow.
DueSoon(link) == \A x \in Range(link) : \E d \in Delays : x.due <= now + d

\* The same message, apart from the time it is due.
SameMessage(x, y) ==
    /\ x.type = y.type /\ x.src = y.src /\ x.seq = y.seq
    /\ x.time = y.time /\ x.mine = y.mine

LEMMA HeadAndTail ==
    ASSUME NEW S, NEW s \in Seq(S), s # <<>>
    PROVE  /\ Head(s) \in S /\ Tail(s) \in Seq(S)
           /\ Head(s) = s[1]
           /\ Range(s) = {Head(s)} \cup Range(Tail(s))
           /\ Range(s) \subseteq S
<1>1. Len(s) \in Nat \ {0} /\ DOMAIN s = 1 .. Len(s) /\ Head(s) = s[1] /\ Head(s) \in S
    OBVIOUS
<1>2. /\ Tail(s) \in Seq(S) /\ DOMAIN Tail(s) = 1 .. Len(s) - 1
      /\ \A i \in DOMAIN Tail(s) : i + 1 \in DOMAIN s /\ Tail(s)[i] = s[i + 1]
    BY <1>1
<1>3. \A i \in DOMAIN s \ {1} : i - 1 \in DOMAIN Tail(s) /\ Tail(s)[i - 1] = s[i]
    BY <1>1, <1>2
<1>4. \A x \in Range(s) : x \in S
    BY <1>1 DEF Range
<1>5. Range(s) \subseteq {Head(s)} \cup Range(Tail(s))
  <2> SUFFICES ASSUME NEW i \in DOMAIN s PROVE s[i] \in {Head(s)} \cup Range(Tail(s))
      BY DEF Range
  <2> QED BY <1>1, <1>3 DEF Range
<1>6. {Head(s)} \cup Range(Tail(s)) \subseteq Range(s)
    BY <1>1, <1>2 DEF Range
<1> QED BY <1>1, <1>2, <1>4, <1>5, <1>6

LEMMA Appended ==
    ASSUME NEW S, NEW s \in Seq(S), NEW e \in S
    PROVE  /\ Append(s, e) \in Seq(S)
           /\ Append(s, e) # <<>>
           /\ Range(Append(s, e)) = Range(s) \cup {e}
<1>1. /\ Append(s, e) \in Seq(S) /\ Len(s) \in Nat /\ DOMAIN s = 1 .. Len(s)
      /\ DOMAIN Append(s, e) = 1 .. Len(s) + 1
      /\ Append(s, e)[Len(s) + 1] = e
      /\ \A i \in DOMAIN s : Append(s, e)[i] = s[i]
    OBVIOUS
<1>2. DOMAIN Append(s, e) = DOMAIN s \cup {Len(s) + 1}
    BY <1>1
<1>3. Range(Append(s, e)) = Range(s) \cup {e}
    BY <1>1, <1>2 DEF Range
<1>4. Append(s, e) # <<>>
    BY <1>1
<1> QED BY <1>1, <1>3, <1>4

LEMMA Single ==
    ASSUME NEW e
    PROVE  Tail(Append(<<>>, e)) = <<>> /\ Head(Append(<<>>, e)) = e
<1>1. e \in {e} /\ <<>> \in Seq({e})
    OBVIOUS
<1>2. Append(<<>>, e) = <<e>>
    BY <1>1
<1> QED BY <1>1, <1>2

\* The last message of a link is one of its messages.
LEMMA LastOnLink ==
    ASSUME NEW S, NEW s \in Seq(S), s # <<>>
    PROVE  s[Len(s)] \in Range(s) /\ s[Len(s)] \in S
BY DEF Range

LEMMA MaxOfTwo ==
    ASSUME NEW a \in Int, NEW b \in Int
    PROVE  /\ Max({a, b}) \in {a, b}
           /\ a <= Max({a, b}) /\ b <= Max({a, b})
<1>1. \E x \in {a, b} : \A y \in {a, b} : x >= y
    OBVIOUS
<1>2. /\ Max({a, b}) \in {a, b}
      /\ \A y \in {a, b} : Max({a, b}) >= y
    BY <1>1 DEF Max
<1> QED BY <1>2

\* A message takes its place behind the others.
LEMMA BehindIsAppend ==
    ASSUME NEW link \in Seq(Link), NEW message \in Link, NEW d \in Delays, now \in Nat
    PROVE  \E e \in Link :
              /\ Behind(link, message, d) = Append(link, e)
              /\ SameMessage(e, message)
              /\ DueSoon(link) => Travels(now, e.due)
<1>0. d \in Nat /\ now + d \in Int
    BY PtpAssumption
<1>1. CASE link = <<>>
  <2> DEFINE e == [message EXCEPT !.due = now + d]
  <2>1. e \in Link /\ SameMessage(e, message) /\ e.due = now + d
      BY <1>0 DEF Link, SameMessage
  <2>2. Travels(now, e.due)
      BY <1>0, <2>1 DEF Travels
  <2>3. Behind(link, message, d) = Append(link, e)
      BY <1>1 DEF Behind
  <2> HIDE DEF e
  <2> QED BY <2>1, <2>2, <2>3
<1>2. CASE link # <<>>
  <2> DEFINE last == link[Len(link)].due
             e == [message EXCEPT !.due = Max({now + d, last})]
  <2>1. last \in Int /\ link[Len(link)] \in Range(link)
    <3>1. link[Len(link)] \in Link /\ link[Len(link)] \in Range(link)
        BY <1>2, LastOnLink
    <3> QED BY <3>1 DEF Link
  <2>2. Max({now + d, last}) \in {now + d, last} /\ now + d <= Max({now + d, last})
      BY <1>0, <2>1, MaxOfTwo
  <2>3. e \in Link /\ SameMessage(e, message) /\ e.due = Max({now + d, last})
      BY <1>0, <2>1, <2>2 DEF Link, SameMessage
  <2>4. Behind(link, message, d) = Append(link, e)
    <3>1. (IF link = <<>> THEN now + d ELSE Max({now + d, last})) = Max({now + d, last})
        BY <1>2
    <3> QED BY <3>1, Zenon DEF Behind
  <2>5. ASSUME DueSoon(link) PROVE Travels(now, e.due)
    <3>1. PICK h \in Delays : last <= now + h
        BY <2>1, <2>5 DEF DueSoon
    <3>2. CASE e.due = now + d
        BY <1>0, <3>2 DEF Travels
    <3>3. CASE e.due = last
        BY <2>2, <2>3, <3>1, <3>3 DEF Travels
    <3> QED BY <2>2, <2>3, <3>2, <3>3
  <2> HIDE DEF e
  <2> QED BY <2>3, <2>4, <2>5
<1> QED BY <1>1, <1>2

-----------------------------------------------------------------------------
(* Types.                                                                  *)

\* The budgets are kept.
BudgetsKept == used' \in [Budgets -> Nat] /\ \A w \in Budgets : used'[w] <= Limit[w]

LEMMA UsesKeeps ==
    ASSUME StateOK, NEW v \in Budgets, Uses(v)
    PROVE  BudgetsKept
<1>1. \A w \in Budgets : Limit[w] \in Nat
    BY PtpAssumption DEF Budgets
<1>2. /\ used \in [Budgets -> Nat] /\ used[v] < Limit[v]
      /\ used' = [used EXCEPT ![v] = @ + 1]
      /\ \A w \in Budgets : used[w] <= Limit[w]
    BY DEF StateOK, TypeOK, Uses
<1>3. \A w \in Budgets : used'[w] = IF w = v THEN used[v] + 1 ELSE used[w]
    BY <1>2
<1>4. used' \in [Budgets -> Nat]
    BY <1>2
<1>5. ASSUME NEW w \in Budgets PROVE used'[w] <= Limit[w]
  <2>1. used[w] \in Nat /\ Limit[w] \in Nat
      BY <1>1, <1>2
  <2> QED BY <1>2, <1>3, <2>1
<1> QED BY <1>4, <1>5 DEF BudgetsKept

\* What one of the links is after a message was put on it.
Sent(message) ==
    \/ toClient' = toClient
    \/ \E e \in Link : /\ toClient' = Append(toClient, e) /\ SameMessage(e, message)
                       /\ DueSoon(toClient) => Travels(now, e.due)

Asked(message) ==
    \/ toMaster' = toMaster
    \/ \E e \in Link : /\ toMaster' = Append(toMaster, e) /\ SameMessage(e, message)
                       /\ DueSoon(toMaster) => Travels(now, e.due)

LEMMA TransmitSends ==
    ASSUME StateOK, NEW message \in Link, Transmit(toClient, message)
    PROVE  BudgetsKept /\ toClient' \in Seq(Link) /\ Sent(message)
<1>0. now \in Nat /\ toClient \in Seq(Link) /\ BudgetsKept
    BY UsesKeeps DEF Transmit, StateOK, TypeOK, Budgets, BudgetsKept
<1>1. CASE toClient' = toClient
    BY <1>0, <1>1 DEF Sent
<1>2. ASSUME NEW d \in Delays, toClient' = Behind(toClient, message, d)
      PROVE  toClient' \in Seq(Link) /\ Sent(message)
  <2>1. PICK e \in Link : /\ toClient' = Append(toClient, e) /\ SameMessage(e, message)
                          /\ DueSoon(toClient) => Travels(now, e.due)
      BY <1>0, <1>2, BehindIsAppend
  <2>2. toClient' \in Seq(Link)
      BY <1>0, <2>1
  <2> QED BY <2>1, <2>2 DEF Sent
<1> QED BY <1>0, <1>1, <1>2 DEF Transmit

LEMMA TransmitAsks ==
    ASSUME StateOK, NEW message \in Link, Transmit(toMaster, message)
    PROVE  BudgetsKept /\ toMaster' \in Seq(Link) /\ Asked(message)
<1>0. now \in Nat /\ toMaster \in Seq(Link) /\ BudgetsKept
    BY UsesKeeps DEF Transmit, StateOK, TypeOK, Budgets, BudgetsKept
<1>1. CASE toMaster' = toMaster
    BY <1>0, <1>1 DEF Asked
<1>2. ASSUME NEW d \in Delays, toMaster' = Behind(toMaster, message, d)
      PROVE  toMaster' \in Seq(Link) /\ Asked(message)
  <2>1. PICK e \in Link : /\ toMaster' = Append(toMaster, e) /\ SameMessage(e, message)
                          /\ DueSoon(toMaster) => Travels(now, e.due)
      BY <1>0, <1>2, BehindIsAppend
  <2>2. toMaster' \in Seq(Link)
      BY <1>0, <2>1
  <2> QED BY <2>1, <2>2 DEF Asked
<1> QED BY <1>0, <1>1, <1>2 DEF Transmit

\* The messages the masters and the client send.
LEMMA MessageType ==
    ASSUME NEW type \in {"SYNC", "FOLLOW_UP", "DELAY_REQ", "DELAY_RESP"},
           NEW src \in Masters, NEW seq \in Nat, NEW time \in Int, NEW mine \in BOOLEAN
    PROVE  /\ Message(type, src, seq, time, mine) \in Link
           /\ Message(type, src, seq, time, mine).type = type
           /\ Message(type, src, seq, time, mine).src = src
           /\ Message(type, src, seq, time, mine).seq = seq
           /\ Message(type, src, seq, time, mine).time = time
           /\ Message(type, src, seq, time, mine).mine = mine
BY DEF Message, Link

LEMMA InitTyped == Init => StateOK
<1> SUFFICES ASSUME Init PROVE StateOK
    OBVIOUS
<1>1. used = [w \in Budgets |-> 0] /\ \A w \in Budgets : Limit[w] \in Nat
    BY PtpAssumption DEF Init, Budgets
<1>2. Limit.exchanges \in Nat
    BY PtpAssumption
<1>3. ptp_data \in Slave
    BY DEF Init, Slave, NoTime
<1>4. now \in Nat /\ offset \in Int
    BY PtpAssumption DEF Init
<1>5. exchange \in [Masters -> 0 .. Limit.exchanges] /\ owed \in [Masters -> Nat]
    BY <1>2 DEF Init, NoTime
<1>6. toClient = <<>> /\ toMaster = <<>> /\ rxq = <<>> /\ txq = <<>>
      /\ txstamp = NoTime /\ pc = "poll"
    BY DEF Init
<1>7. used \in [Budgets -> Nat] /\ \A w \in Budgets : used[w] <= Limit[w]
    BY <1>1
<1>8. ptp_data.master_clock_id = NoMaster
    BY DEF Init
<1>9. \A m \in Masters : owed[m] = NoTime
    BY DEF Init
<1>10. TypeOK
    BY <1>4, <1>5, <1>6, <1>7, <1>8 DEF TypeOK, NoTime
<1> QED
    BY <1>3, <1>6, <1>7, <1>9, <1>10 DEF StateOK

\* The steps of the masters and the link.
LEMMA NetworkTyped ==
    ASSUME StateOK, Network \/ Tick \/ AtLimit \/ \E m \in Masters : AnswerOther(m)
    PROVE  StateOK'
<1>0. /\ TypeOK /\ now \in Nat /\ now \in Int /\ offset \in Int /\ ClientClock \in Int
      /\ exchange \in [Masters -> 0 .. Limit.exchanges] /\ Limit.exchanges \in Nat
      /\ owed \in [Masters -> Nat]
    BY PtpAssumption DEF StateOK, TypeOK, ClientClock
<1>1. ASSUME NEW m \in Masters, SendSync(m) PROVE StateOK'
  <2>1. Message("SYNC", m, exchange[m], NoTime, FALSE) \in Link
    <3>1. exchange[m] \in Nat /\ NoTime \in Int
        BY <1>0 DEF NoTime
    <3> QED BY <3>1, MessageType
  <2>2. BudgetsKept /\ toClient' \in Seq(Link)
      BY <1>1, <2>1, TransmitSends DEF SendSync
  <2>3. exchange[m] + 1 \in 0 .. Limit.exchanges
      BY <1>0, <1>1 DEF SendSync
  <2>4. exchange' \in [Masters -> 0 .. Limit.exchanges] /\ owed' \in [Masters -> Nat]
      BY <1>0, <1>1, <2>3 DEF SendSync
  <2>5. UNCHANGED <<now, offset, toMaster, rxq, txq, txstamp, pc, ptp_data>>
      BY <1>1 DEF SendSync, cardVars
  <2>6. TypeOK'
      BY <1>0, <2>2, <2>4, <2>5 DEF TypeOK, BudgetsKept
  <2>7. \A n \in Masters : owed'[n] # NoTime => exchange'[n] > 0
      BY <1>0, <1>1 DEF SendSync, StateOK
  <2> QED
      BY <2>2, <2>5, <2>6, <2>7 DEF StateOK, BudgetsKept
<1>2. ASSUME NEW m \in Masters, SendFollowUp(m) PROVE StateOK'
  <2>1. Message("FOLLOW_UP", m, exchange[m] - 1, owed[m], FALSE) \in Link
    <3>1. exchange[m] - 1 \in Nat /\ owed[m] \in Int
        BY <1>0, <1>2 DEF SendFollowUp, StateOK
    <3> QED BY <3>1, MessageType
  <2>2. BudgetsKept /\ toClient' \in Seq(Link)
      BY <1>2, <2>1, TransmitSends DEF SendFollowUp
  <2>3. owed' \in [Masters -> Nat] /\ \A n \in Masters : owed'[n] # NoTime => owed[n] # NoTime
      BY <1>0, <1>2 DEF SendFollowUp, NoTime
  <2> QED
      BY <1>2, <2>2, <2>3 DEF SendFollowUp, StateOK, TypeOK, cardVars, BudgetsKept
<1>3. CASE Answer
  <2>1. Head(toMaster) \in Link /\ Tail(toMaster) \in Seq(Link)
      BY <1>3, HeadAndTail DEF Answer, StateOK
  <2>2. Message("DELAY_RESP", Head(toMaster).src, Head(toMaster).seq, now, TRUE) \in Link
    <3>1. Head(toMaster).src \in Masters /\ Head(toMaster).seq \in Nat
        BY <2>1 DEF Link
    <3> QED BY <1>0, <3>1, MessageType
  <2>3. BudgetsKept /\ toClient' \in Seq(Link)
      BY <1>3, <2>2, TransmitSends DEF Answer
  <2> QED
      BY <1>3, <2>1, <2>3 DEF Answer, StateOK, TypeOK, masterVars, cardVars, BudgetsKept
<1>4. ASSUME NEW m \in Masters, AnswerOther(m) PROVE StateOK'
  <2>1. PICK d \in Delays :
            toClient' = Behind(toClient, Message("DELAY_RESP", m, exchange[m] - 1, now, FALSE), d)
      BY <1>4 DEF AnswerOther
  <2>2. Message("DELAY_RESP", m, exchange[m] - 1, now, FALSE) \in Link
    <3>1. exchange[m] - 1 \in Nat
        BY <1>0, <1>4 DEF AnswerOther
    <3> QED BY <1>0, <3>1, MessageType
  <2>3. toClient' \in Seq(Link)
    <3>1. toClient \in Seq(Link)
        BY DEF StateOK
    <3>2. PICK e \in Link : toClient' = Append(toClient, e)
        BY <1>0, <2>1, <2>2, <3>1, BehindIsAppend
    <3> QED BY <3>1, <3>2
  <2>4. BudgetsKept
      BY <1>4, UsesKeeps DEF AnswerOther, Budgets
  <2> QED
      BY <1>4, <2>3, <2>4 DEF AnswerOther, StateOK, TypeOK, masterVars, cardVars, BudgetsKept
<1>5. CASE Receive
  <2>1. Head(toClient) \in Link /\ toClient' \in Seq(Link)
      BY <1>5, HeadAndTail DEF Receive, StateOK
  <2>2. [Head(toClient) EXCEPT !.due = ClientClock] \in Link
      BY <1>0, <2>1 DEF Link
  <2>3. rxq' \in Seq(Link)
      BY <1>5, <2>2, Appended DEF Receive, StateOK
  <2> QED
      BY <1>5, <2>1, <2>3 DEF Receive, StateOK, TypeOK, masterVars
<1>6. CASE Launch
  <2>1. Head(txq) \in Link /\ txq' \in Seq(Link)
      BY <1>6, HeadAndTail DEF Launch, StateOK
  <2>2. BudgetsKept /\ toMaster' \in Seq(Link)
      BY <1>6, <2>1, TransmitAsks DEF Launch
  <2>3. txstamp' \in Int
      BY <1>0, <1>6 DEF Launch, TypeOK
  <2> QED
      BY <1>6, <2>1, <2>2, <2>3 DEF Launch, StateOK, TypeOK, masterVars, BudgetsKept
<1>7. CASE Tick
  <2>1. now' \in Nat
      BY <1>0, <1>7 DEF Tick
  <2>2. BudgetsKept
    <3>1. CASE used' = used
        BY <3>1 DEF StateOK, TypeOK, BudgetsKept
    <3>2. CASE Uses("slack")
        BY <3>2, UsesKeeps DEF Budgets
    <3> QED BY <1>7, <3>1, <3>2 DEF Tick
  <2> QED
      BY <1>7, <2>1, <2>2 DEF Tick, StateOK, TypeOK, masterVars, cardVars, BudgetsKept
<1>8. CASE AtLimit
    BY <1>8 DEF AtLimit, vars, StateOK, TypeOK, masterVars, cardVars
<1> QED
    BY <1>1, <1>2, <1>3, <1>4, <1>5, <1>6, <1>7, <1>8 DEF Network

LEMMA DeltaInt ==
    ASSUME NEW a \in Int, NEW b \in Int, NEW c \in Int, NEW d \in Int
    PROVE  delta_eval(a, b, c, d) \in Int
BY DEF delta_eval

\* The steps of the client.
LEMMA ClientTyped ==
    ASSUME StateOK, Client
    PROVE  StateOK'
<1>0. /\ TypeOK /\ offset \in Int /\ txstamp \in Int /\ ptp_data \in Slave
      /\ NoTime \in Int
    BY DEF StateOK, TypeOK, NoTime
<1>1. ASSUME NEW type, Polls(type)
      PROVE  Head(rxq) \in Link /\ rxq' \in Seq(Link)
    BY <1>1, HeadAndTail DEF Polls, StateOK
<1>2. CASE parse_sync
  <2>1. Head(rxq) \in Link /\ rxq' \in Seq(Link)
      BY <1>1, <1>2 DEF parse_sync
  <2>2. ptp_data' \in Slave /\ ptp_data'.master_clock_id \in Masters \cup {NoMaster}
      BY <1>0, <1>2, <2>1 DEF parse_sync, WithSync, Slave, Link
  <2> QED
      BY <1>2, <2>1, <2>2 DEF parse_sync, Polls, StateOK, TypeOK, masterVars
<1>3. CASE FollowUpForeign
  <2>1. rxq' \in Seq(Link)
      BY <1>1, <1>3 DEF FollowUpForeign
  <2> QED
      BY <1>3, <2>1 DEF FollowUpForeign, StateOK, TypeOK, masterVars
<1>4. ASSUME FollowUp
      PROVE  /\ rxq' \in Seq(Link)
             /\ WithFollowUp \in Slave /\ WithRequest \in Slave
             /\ WithRequest.client_clock_id /\ WithRequest.tstamp3 = NoTime
             /\ WithFollowUp.master_clock_id = ptp_data.master_clock_id
             /\ WithRequest.master_clock_id = ptp_data.master_clock_id
  <2>1. Head(rxq) \in Link /\ rxq' \in Seq(Link)
      BY <1>1, <1>4 DEF FollowUp
  <2>2. Head(rxq).seq \in Nat /\ Head(rxq).time \in Int
      BY <2>1 DEF Link
  <2> QED
      BY <1>0, <2>1, <2>2 DEF WithFollowUp, WithRequest, Slave
<1>5. CASE FollowUpAlone
  <2>1. BudgetsKept
    <3>1. CASE used' = used
        BY <3>1 DEF StateOK, TypeOK, BudgetsKept
    <3>2. CASE Uses("refusals")
        BY <3>2, UsesKeeps DEF Budgets
    <3> QED BY <1>5, <3>1, <3>2 DEF FollowUpAlone
  <2> QED
      BY <1>4, <1>5, <2>1
         DEF FollowUpAlone, FollowUp, Polls, StateOK, TypeOK, masterVars, BudgetsKept
<1>6. CASE SendRequest
  <2>1. FollowUp /\ ptp_data' = WithRequest /\ pc' = "await" /\ txstamp' = NoTime
      BY <1>6 DEF SendRequest
  <2>2. BudgetsKept /\ txq' \in Seq(Link)
    <3>1. CASE Uses("refusals") /\ txq' = txq
        BY <3>1, UsesKeeps DEF Budgets, StateOK
    <3>2. CASE /\ txq' = Append(txq, Message("DELAY_REQ", Head(rxq).src,
                                             ptp_data.seqID_SYNC, NoTime, TRUE))
               /\ used' = used
      <4>1. Head(rxq) \in Link
          BY <1>1, <2>1 DEF FollowUp
      <4>2. Head(rxq).src \in Masters /\ ptp_data.seqID_SYNC \in Nat
          BY <1>0, <4>1 DEF Link, Slave
      <4>3. Message("DELAY_REQ", Head(rxq).src, ptp_data.seqID_SYNC, NoTime, TRUE) \in Link
          BY <1>0, <4>2, MessageType
      <4> QED
          BY <3>2, <4>3, Appended DEF StateOK, TypeOK, BudgetsKept
    <3> QED BY <1>6, <3>1, <3>2 DEF SendRequest
  <2> QED
      BY <1>0, <1>4, <2>1, <2>2 DEF FollowUp, StateOK, TypeOK, masterVars, BudgetsKept
<1>7. CASE StampRead
  <2>1. ptp_data' \in Slave /\ ptp_data'.master_clock_id \in Masters \cup {NoMaster}
      BY <1>0, <1>7 DEF StampRead, Slave
  <2> QED
      BY <1>0, <1>7, <2>1 DEF StampRead, StateOK, TypeOK, masterVars
<1>8. CASE StampMissing
    BY <1>8 DEF StampMissing, StateOK, TypeOK, masterVars, cardVars
<1>9. CASE Adjust \/ ResponseIgnored
  <2>1. Head(rxq) \in Link /\ rxq' \in Seq(Link) /\ pc = "poll" /\ pc' = "poll"
      BY <1>1, <1>9 DEF Adjust, ResponseIgnored, Response, Polls
  <2>2. /\ ptp_data' \in Slave /\ ptp_data'.master_clock_id \in Masters \cup {NoMaster}
        /\ offset' \in Int
    <3>1. CASE ResponseIgnored
        BY <1>0, <3>1 DEF ResponseIgnored, TypeOK
    <3>2. CASE Adjust
      <4> DEFINE delta == delta_eval(ptp_data.tstamp1, ptp_data.tstamp2,
                                     ptp_data.tstamp3, Head(rxq).time)
      <4>1. Head(rxq).time \in Int
          BY <2>1 DEF Link
      <4>2. delta \in Int
          BY <1>0, <4>1, DeltaInt DEF Slave
      <4>3. /\ ptp_data' = [ptp_data EXCEPT !.tstamp4 = Head(rxq).time, !.delta = delta]
            /\ offset' = offset + delta
          BY <3>2 DEF Adjust
      <4> HIDE DEF delta
      <4>4. ptp_data' \in Slave
          BY <1>0, <4>1, <4>2, <4>3 DEF Slave
      <4> QED BY <1>0, <4>2, <4>3, <4>4 DEF Slave
    <3> QED BY <1>9, <3>1, <3>2
  <2> QED
      BY <1>9, <2>1, <2>2 DEF Adjust, ResponseIgnored, Response, StateOK, TypeOK, masterVars
<1> QED
    BY <1>2, <1>3, <1>5, <1>6, <1>7, <1>8, <1>9 DEF Client

LEMMA StepTyped == StateOK /\ [Next]_vars => StateOK'
<1> SUFFICES ASSUME StateOK, [Next]_vars PROVE StateOK'
    OBVIOUS
<1>1. CASE Next
    BY <1>1, NetworkTyped, ClientTyped DEF Next
<1>2. CASE UNCHANGED vars
    BY <1>2 DEF vars, StateOK, TypeOK, masterVars, cardVars
<1> QED BY <1>1, <1>2

\* Every variable keeps its type; a client that waits for a stamp has sent a request
\* and has cleared the stamp of the one before; the bounds of the model hold.
THEOREM TypeCorrect == Spec => []TypeOK
<1>1. StateOK => TypeOK
    BY DEF StateOK
<1> QED BY <1>1, InitTyped, StepTyped, PTL DEF Spec

-----------------------------------------------------------------------------
(* One master that ends an exchange before it begins the next, and a card  *)
(* that sends a request while the client waits for its stamp.              *)

Lone(m) == Masters = {m} /\ ~Overlap /\ PromptCard

Sync(x)  == x.type = "SYNC"
Fup(x)   == x.type = "FOLLOW_UP"
Reply(x) == x.type = "DELAY_RESP" /\ x.mine     \* to this client's request
Plain(x) == x.type = "DELAY_RESP" /\ ~x.mine    \* to another client's

\* A follow-up and a reply end their exchange's way to the client: what is behind
\* them, and before a reply, concerns others.
Follows(x, y) ==
    /\ Fup(x) \/ Reply(x) => Plain(y)
    /\ Reply(y) => Plain(x)

Sorted(s) == \A i, j \in DOMAIN s : i < j => Follows(s[i], s[j])

Across == \A x \in Range(rxq), y \in Range(toClient) : Follows(x, y)

Ordered == Sorted(rxq) /\ Sorted(toClient) /\ Across

\* What is on its way to the client, or has arrived and is not yet polled.
Inbox == Range(rxq) \cup Range(toClient)

Requested == txq # <<>> \/ toMaster # <<>>

\* The client has asked, and an answer may still come.
Open == pc = "await" \/ Requested \/ \E x \in Inbox : Reply(x)

\* The client may still ask.
Early(m) == owed[m] # NoTime \/ \E x \in Inbox : Fup(x)

\* L is the time at which the request left; its stamp is in the register or read.
StampOf(L) ==
    /\ L + offset > 0
    /\ ptp_data.tstamp2 - offset <= L
    /\ L + offset = IF pc = "await" THEN txstamp ELSE ptp_data.tstamp3

\* T is the time at which the exchange's SYNC was sent.
Messages(m, T) ==
    /\ \A x \in Inbox : Sync(x) \/ Fup(x) \/ Reply(x) => x.seq = exchange[m] - 1
    /\ \A x \in Inbox : Fup(x) => x.time = T
    /\ \A x \in Inbox : Reply(x) =>
          x.time <= now /\ \E L \in Int : StampOf(L) /\ Travels(L, x.time)
    /\ \A x \in Range(toClient) : Sync(x) => Travels(T, x.due)
    /\ \A x \in Range(rxq) : Sync(x) => x.due - offset <= now /\ Travels(T, x.due - offset)

\* There is one request at most: in the card, or on its way, stamped.
Request(m) ==
    /\ txq # <<>> => /\ Tail(txq) = <<>> /\ Head(txq).seq = exchange[m] - 1
                     /\ pc = "await" /\ txstamp = NoTime /\ toMaster = <<>>
    /\ toMaster # <<>> => /\ Tail(toMaster) = <<>> /\ Head(toMaster).seq = exchange[m] - 1
                          /\ \E L \in Int : StampOf(L) /\ Travels(L, Head(toMaster).due)

Phases(m) ==
    /\ owed[m] # NoTime => ~Open /\ \A x \in Inbox : ~Fup(x)
    /\ Requested => \A x \in Inbox : Plain(x)
    /\ pc = "await" => \A x \in Inbox : Plain(x) \/ Reply(x)

\* The client's data are those of this exchange when they matter.
Data(m, T) ==
    /\ Open => /\ ptp_data.master_clock_id = m
               /\ ptp_data.seqID_SYNC = exchange[m] - 1
               /\ ptp_data.seqID_FOLLOWUP = exchange[m] - 1
               /\ ptp_data.tstamp1 = T
    /\ ptp_data.master_clock_id = m => ptp_data.seqID_SYNC < exchange[m]
    /\ (Early(m) \/ Open) /\ ptp_data.master_clock_id = m
            /\ ptp_data.seqID_SYNC = exchange[m] - 1 =>
          ptp_data.tstamp2 - offset <= now /\ Travels(T, ptp_data.tstamp2 - offset)
    /\ owed[m] # NoTime => owed[m] = T

Exchange(m, T) == Messages(m, T) /\ Request(m) /\ Phases(m) /\ Data(m, T)

Coherent(m) ==
    /\ now + offset > 0
    /\ Ordered
    /\ DueSoon(toClient) /\ DueSoon(toMaster)
    /\ \E T \in Nat : Exchange(m, T)

IInv(m) == StateOK /\ Coherent(m)

-----------------------------------------------------------------------------
(* Order.                                                                  *)

LEMMA EmptyRange == Range(<<>>) = {}
BY DEF Range

LEMMA SortedTail ==
    ASSUME NEW S, NEW s \in Seq(S), s # <<>>, Sorted(s)
    PROVE  Sorted(Tail(s)) /\ \A y \in Range(Tail(s)) : Follows(Head(s), y)
<1>1. Len(s) \in Nat \ {0} /\ DOMAIN s = 1 .. Len(s) /\ Head(s) = s[1]
    OBVIOUS
<1>2. /\ DOMAIN Tail(s) = 1 .. Len(s) - 1
      /\ \A i \in DOMAIN Tail(s) : i + 1 \in DOMAIN s /\ Tail(s)[i] = s[i + 1]
    BY <1>1
<1>3. ASSUME NEW i \in DOMAIN Tail(s), NEW j \in DOMAIN Tail(s), i < j
      PROVE  Follows(Tail(s)[i], Tail(s)[j])
  <2>1. i + 1 \in DOMAIN s /\ j + 1 \in DOMAIN s /\ i + 1 < j + 1
      BY <1>2, <1>3
  <2>2. Follows(s[i + 1], s[j + 1])
      BY <2>1 DEF Sorted
  <2> QED BY <1>2, <2>2
<1>4. ASSUME NEW i \in DOMAIN Tail(s) PROVE Follows(Head(s), Tail(s)[i])
  <2>1. 1 \in DOMAIN s /\ i + 1 \in DOMAIN s /\ 1 < i + 1
      BY <1>1, <1>2
  <2>2. Follows(s[1], s[i + 1])
      BY <2>1 DEF Sorted
  <2> QED BY <1>1, <1>2, <2>2
<1>5. Sorted(Tail(s))
    BY <1>3 DEF Sorted
<1>6. ASSUME NEW y \in Range(Tail(s)) PROVE Follows(Head(s), y)
  <2>1. PICK i \in DOMAIN Tail(s) : y = Tail(s)[i]
      BY <1>6 DEF Range
  <2> QED BY <1>4, <2>1
<1> QED BY <1>5, <1>6

LEMMA SortedAppend ==
    ASSUME NEW S, NEW s \in Seq(S), NEW e \in S, Sorted(s),
           \A x \in Range(s) : Follows(x, e)
    PROVE  Sorted(Append(s, e))
<1>1. /\ Len(s) \in Nat /\ DOMAIN s = 1 .. Len(s)
      /\ DOMAIN Append(s, e) = 1 .. Len(s) + 1
      /\ Append(s, e)[Len(s) + 1] = e
      /\ \A i \in DOMAIN s : Append(s, e)[i] = s[i]
    OBVIOUS
<1>2. ASSUME NEW i \in 1 .. Len(s) + 1, NEW j \in 1 .. Len(s) + 1, i < j
      PROVE  Follows(Append(s, e)[i], Append(s, e)[j])
  <2>1. i \in DOMAIN s /\ s[i] \in Range(s)
      BY <1>1, <1>2 DEF Range
  <2>2. CASE j = Len(s) + 1
      BY <1>1, <2>1, <2>2
  <2>3. CASE j # Len(s) + 1
    <3>1. j \in DOMAIN s
        BY <1>1, <2>3
    <3>2. Follows(s[i], s[j])
        BY <1>2, <2>1, <3>1 DEF Sorted
    <3> QED BY <1>1, <2>1, <3>1, <3>2
  <2> QED BY <2>2, <2>3
<1> QED BY <1>1, <1>2 DEF Sorted

\* A message put on the link behind messages it may follow.
LEMMA SentOrdered ==
    ASSUME StateOK, Ordered, NEW message, Sent(message), rxq' = rxq,
           \A x \in Inbox : Follows(x, message)
    PROVE  Ordered'
<1>0. toClient \in Seq(Link)
    BY DEF StateOK
<1>1. CASE toClient' = toClient
    BY <1>1 DEF Ordered, Across
<1>2. ASSUME NEW e \in Link, toClient' = Append(toClient, e), SameMessage(e, message)
      PROVE  Ordered'
  <2>1. \A x \in Inbox : Follows(x, e)
      BY <1>2 DEF SameMessage, Follows, Fup, Reply, Plain
  <2>2. Sorted(toClient') /\ Range(toClient') = Range(toClient) \cup {e}
      BY <1>0, <1>2, <2>1, SortedAppend, Appended DEF Ordered, Inbox
  <2>3. Across'
      BY <2>1, <2>2 DEF Ordered, Across, Inbox
  <2> QED
      BY <2>2, <2>3 DEF Ordered
<1> QED BY <1>1, <1>2 DEF Sent

\* The client polls a message.
LEMMA PolledOrdered ==
    ASSUME StateOK, Ordered, rxq # <<>>, rxq' = Tail(rxq), toClient' = toClient
    PROVE  /\ Ordered'
           /\ Head(rxq) \in Link /\ Head(rxq) \in Inbox
           /\ Inbox' \subseteq Inbox
           /\ Range(rxq') \subseteq Range(rxq)
           /\ \A y \in Inbox' : Follows(Head(rxq), y)
<1>1. rxq \in Seq(Link)
    BY DEF StateOK
<1>2. /\ Head(rxq) \in Link /\ Range(rxq) = {Head(rxq)} \cup Range(Tail(rxq))
      /\ Sorted(Tail(rxq)) /\ \A y \in Range(Tail(rxq)) : Follows(Head(rxq), y)
    BY <1>1, HeadAndTail, SortedTail DEF Ordered
<1>3. Sorted(rxq') /\ Sorted(toClient') /\ Across'
    BY <1>2 DEF Ordered, Across
<1>4. \A y \in Inbox' : Follows(Head(rxq), y)
    BY <1>2 DEF Ordered, Across, Inbox
<1> QED BY <1>2, <1>3, <1>4 DEF Ordered, Inbox

-----------------------------------------------------------------------------
(* The steps of the master and the link.                                   *)

LEMMA SentDue ==
    ASSUME StateOK, DueSoon(toClient), NEW message, Sent(message), now' = now
    PROVE  DueSoon(toClient)'
<1>1. CASE toClient' = toClient
    BY <1>1 DEF DueSoon
<1>2. ASSUME NEW e \in Link, toClient' = Append(toClient, e), Travels(now, e.due)
      PROVE  DueSoon(toClient)'
  <2>1. Range(toClient') = Range(toClient) \cup {e}
      BY <1>2, Appended DEF StateOK
  <2>2. \E d \in Delays : e.due <= now + d
      BY <1>2 DEF Travels
  <2> QED
      BY <2>1, <2>2 DEF DueSoon
<1> QED BY <1>1, <1>2 DEF Sent

\* What a step that puts a message on the link adds to the inbox.
LEMMA SentInbox ==
    ASSUME StateOK, DueSoon(toClient), NEW message, Sent(message), rxq' = rxq
    PROVE  /\ \A x \in Inbox' \ Inbox : SameMessage(x, message)
           /\ \A x \in Range(toClient') \ Range(toClient) : Travels(now, x.due)
           /\ Inbox \subseteq Inbox'
           /\ Range(toClient') \ Range(toClient) \subseteq Inbox'
           /\ \A x \in Range(toClient') \ Range(toClient) : SameMessage(x, message)
<1>1. CASE toClient' = toClient
    BY <1>1 DEF Inbox
<1>2. ASSUME NEW e \in Link, toClient' = Append(toClient, e), Travels(now, e.due),
             SameMessage(e, message)
      PROVE  /\ \A x \in Inbox' \ Inbox : SameMessage(x, message)
             /\ \A x \in Range(toClient') \ Range(toClient) : Travels(now, x.due)
             /\ Inbox \subseteq Inbox'
             /\ Range(toClient') \ Range(toClient) \subseteq Inbox'
             /\ \A x \in Range(toClient') \ Range(toClient) : SameMessage(x, message)
  <2>1. Range(toClient') = Range(toClient) \cup {e}
      BY <1>2, Appended DEF StateOK
  <2> QED BY <1>2, <2>1 DEF Inbox
<1> QED BY <1>1, <1>2 DEF Sent

\* What the steps' proofs use of the invariant, beside the exchange.
LEMMA Facts ==
    ASSUME NEW m, Lone(m), IInv(m)
    PROVE  /\ StateOK /\ now \in Nat /\ offset \in Int /\ now + offset > 0
           /\ m \in Masters /\ exchange[m] \in Nat /\ owed[m] \in Nat
           /\ ptp_data \in Slave /\ txstamp \in Int
           /\ Ordered /\ DueSoon(toClient) /\ DueSoon(toMaster)
           /\ \A x \in Inbox : x \in Link /\ x.src = m
           /\ rxq \in Seq(Link) /\ toClient \in Seq(Link)
           /\ toMaster \in Seq(Link) /\ txq \in Seq(Link)
<1>1. StateOK /\ TypeOK /\ m \in Masters /\ Coherent(m)
    BY DEF IInv, StateOK, Lone
<1>2. exchange[m] \in 0 .. Limit.exchanges /\ Limit.exchanges \in Nat
    BY <1>1, PtpAssumption DEF TypeOK
<1>3. \A s \in Seq(Link) : \A x \in Range(s) : x \in Link
    BY DEF Range
<1>4. \A x \in Link : x.src = m
    BY DEF Link, Lone
<1>5. \A x \in Inbox : x \in Link /\ x.src = m
    BY <1>1, <1>3, <1>4 DEF StateOK, Inbox
<1> QED
    BY <1>1, <1>2, <1>5 DEF StateOK, TypeOK, Coherent

\* Between two exchanges nothing is under way.
LEMMA EndedEmpty ==
    ASSUME NEW m, Lone(m), IInv(m), Ended(m)
    PROVE  ~Open /\ Inbox = {} /\ toClient = <<>> /\ rxq = <<>>
<1>1. toClient \in Seq(Link) /\ rxq \in Seq(Link) /\ \A x \in Link : x.src = m
    BY DEF IInv, StateOK, Link, Lone
<1>2. toClient = <<>> /\ rxq = <<>>
  <2>1. toClient # <<>> => 1 \in DOMAIN toClient /\ toClient[1] \in Link
      BY <1>1
  <2>2. rxq # <<>> => 1 \in DOMAIN rxq /\ rxq[1] \in Link
      BY <1>1
  <2> QED BY <1>1, <2>1, <2>2 DEF Ended
<1>3. Inbox = {}
    BY <1>2, EmptyRange DEF Inbox
<1>4. ~Open
    BY <1>3 DEF Open, Requested, Ended, IInv, Coherent, Exchange, Data
<1> QED BY <1>2, <1>3, <1>4

LEMMA SendSyncCoherent ==
    ASSUME NEW m, Lone(m), IInv(m), SendSync(m)
    PROVE  Coherent(m)'
<1> DEFINE message == Message("SYNC", m, exchange[m], NoTime, FALSE)
<1>0. /\ StateOK /\ now \in Nat /\ offset \in Int /\ now + offset > 0 /\ m \in Masters
      /\ exchange[m] \in Nat /\ owed[m] = NoTime
      /\ UNCHANGED <<now, offset, toMaster, rxq, txq, txstamp, pc, ptp_data>>
    BY Facts DEF SendSync, cardVars
<1>1. ~Open /\ Inbox = {} /\ toClient = <<>> /\ rxq = <<>>
    BY EndedEmpty DEF SendSync, Lone
<1>2. /\ message \in Link /\ message.type = "SYNC" /\ message.seq = exchange[m]
  <2>1. NoTime \in Int /\ FALSE \in BOOLEAN
      BY DEF NoTime
  <2> QED BY <1>0, <2>1 DEF Message, Link
<1>3. Sent(message)
    BY <1>0, <1>2, TransmitSends DEF SendSync
<1> HIDE DEF message
<1>4. Ordered' /\ DueSoon(toClient)' /\ DueSoon(toMaster)'
  <2>1. Ordered'
      BY <1>0, <1>1, <1>3, SentOrdered DEF IInv, Coherent
  <2>2. DueSoon(toClient)'
      BY <1>0, <1>3, SentDue DEF IInv, Coherent
  <2>3. DueSoon(toMaster)'
      BY <1>0 DEF IInv, Coherent, DueSoon
  <2> QED BY <2>1, <2>2, <2>3
<1>5. /\ \A x \in Inbox' : SameMessage(x, message)
      /\ \A x \in Range(toClient') : Travels(now, x.due)
      /\ Range(rxq') = {}
  <2>1. Range(toClient) = {} /\ Range(rxq') = {}
      BY <1>0, <1>1, EmptyRange
  <2> QED
      BY <1>0, <1>1, <1>3, <2>1, SentInbox DEF IInv, Coherent
<1>6. exchange'[m] = exchange[m] + 1 /\ owed'[m] = now
    BY <1>0 DEF SendSync, StateOK, TypeOK
<1>7. \A x \in Inbox' : /\ x.type = "SYNC" /\ x.seq = exchange'[m] - 1
                        /\ ~Fup(x) /\ ~Reply(x)
    BY <1>0, <1>2, <1>5, <1>6 DEF SameMessage, Fup, Reply
<1>8. ~Open'
    BY <1>0, <1>1, <1>7 DEF Open, Requested
<1>9. Messages(m, now)'
    BY <1>0, <1>5, <1>7 DEF Messages
<1>10. Request(m)' /\ Phases(m)'
    BY <1>0, <1>1, <1>7, <1>8 DEF Request, Phases, Open, Requested
<1>11. Data(m, now)'
  <2>1. PICK T \in Nat : Data(m, T)
      BY DEF IInv, Coherent, Exchange
  <2>2. ptp_data.seqID_SYNC \in Nat
      BY <1>0 DEF StateOK, Slave
  <2> QED
      BY <1>0, <1>6, <1>8, <2>1, <2>2 DEF Data
<1>12. Exchange(m, now)'
    BY <1>9, <1>10, <1>11 DEF Exchange
<1> QED
    BY <1>0, <1>4, <1>12 DEF Coherent

LEMMA SendFollowUpCoherent ==
    ASSUME NEW m, Lone(m), IInv(m), SendFollowUp(m)
    PROVE  Coherent(m)'
<1> DEFINE message == Message("FOLLOW_UP", m, exchange[m] - 1, owed[m], FALSE)
<1>0. /\ StateOK /\ now \in Nat /\ offset \in Int /\ now + offset > 0 /\ m \in Masters
      /\ exchange[m] \in Nat /\ owed[m] \in Nat /\ owed[m] # NoTime
      /\ UNCHANGED <<now, offset, exchange, toMaster, rxq, txq, txstamp, pc, ptp_data>>
      /\ Ordered /\ DueSoon(toClient) /\ DueSoon(toMaster)
    BY Facts DEF SendFollowUp, cardVars
<1>1. PICK T \in Nat : Exchange(m, T)
    BY DEF IInv, Coherent
<1>2. /\ message \in Link /\ message.type = "FOLLOW_UP" /\ message.seq = exchange[m] - 1
      /\ message.time = T /\ ~message.mine
  <2>1. owed[m] \in Int /\ exchange[m] - 1 \in Nat /\ owed[m] = T
      BY <1>0, <1>1 DEF StateOK, Exchange, Data
  <2> QED BY <1>0, <2>1 DEF Message, Link
<1>3. Sent(message)
    BY <1>0, <1>2, TransmitSends DEF SendFollowUp
<1> HIDE DEF message
<1>4. ~Open /\ \A x \in Inbox : ~Fup(x) /\ ~Reply(x)
    BY <1>0, <1>1 DEF Exchange, Phases, Open
<1>5. Ordered' /\ DueSoon(toClient)' /\ DueSoon(toMaster)'
  <2>1. \A x \in Inbox : Follows(x, message)
      BY <1>2, <1>4 DEF Follows, Reply
  <2>2. Ordered'
      BY <1>0, <1>3, <2>1, SentOrdered
  <2>3. DueSoon(toClient)'
      BY <1>0, <1>3, SentDue
  <2> QED BY <1>0, <2>2, <2>3 DEF DueSoon
<1>6. /\ \A x \in Inbox' \ Inbox : /\ x.seq = exchange[m] - 1 /\ x.time = T
                                   /\ ~Sync(x) /\ ~Reply(x)
      /\ \A x \in Range(toClient') \ Range(toClient) : ~Sync(x)
    BY <1>0, <1>2, <1>3, SentInbox DEF SameMessage, Sync, Reply
<1>7. ~Open'
    BY <1>0, <1>4, <1>6 DEF Open, Requested
<1>8. Messages(m, T)'
    BY <1>0, <1>1, <1>4, <1>6 DEF Exchange, Messages
<1>9. Request(m)' /\ Phases(m)'
  <2>1. owed'[m] = NoTime
      BY <1>0 DEF SendFollowUp, StateOK, TypeOK
  <2> QED BY <1>0, <1>7, <2>1 DEF Request, Phases, Open, Requested
<1>10. Data(m, T)'
  <2>1. owed'[m] = NoTime /\ Early(m)
      BY <1>0 DEF SendFollowUp, StateOK, TypeOK, Early
  <2> QED BY <1>0, <1>1, <1>7, <2>1 DEF Exchange, Data
<1>11. Exchange(m, T)'
    BY <1>8, <1>9, <1>10 DEF Exchange
<1> QED
    BY <1>0, <1>5, <1>11 DEF Coherent

LEMMA AnswerCoherent ==
    ASSUME NEW m, Lone(m), IInv(m), Answer
    PROVE  Coherent(m)'
<1> DEFINE message == Message("DELAY_RESP", Head(toMaster).src, Head(toMaster).seq, now, TRUE)
<1>0. /\ StateOK /\ now \in Nat /\ offset \in Int /\ now + offset > 0 /\ m \in Masters
      /\ toMaster # <<>> /\ Head(toMaster).due = now /\ toMaster' = Tail(toMaster)
      /\ UNCHANGED <<now, offset, exchange, owed, rxq, txq, txstamp, pc, ptp_data>>
      /\ Ordered /\ DueSoon(toClient)
    BY Facts DEF Answer, cardVars, masterVars
<1>1. PICK T \in Nat : Exchange(m, T)
    BY DEF IInv, Coherent
<1>2. /\ toMaster' = <<>> /\ txq = <<>> /\ Head(toMaster).seq = exchange[m] - 1
      /\ \E L \in Int : StampOf(L) /\ Travels(L, now)
      /\ Requested /\ Open /\ owed[m] = NoTime
      /\ \A x \in Inbox : Plain(x)
    BY <1>0, <1>1 DEF Exchange, Request, Phases, Requested, Open
<1>3. /\ message \in Link /\ message.type = "DELAY_RESP" /\ message.seq = exchange[m] - 1
      /\ message.time = now /\ message.mine
  <2>1. Head(toMaster) \in Link
      BY <1>0, HeadAndTail DEF StateOK
  <2>2. Head(toMaster).src \in Masters /\ Head(toMaster).seq \in Nat /\ now \in Int
      BY <1>0, <2>1 DEF Link
  <2> QED BY <1>2, <2>2 DEF Message, Link
<1>4. Sent(message)
    BY <1>0, <1>3, TransmitSends DEF Answer
<1> HIDE DEF message
<1>5. Ordered' /\ DueSoon(toClient)' /\ DueSoon(toMaster)'
  <2>1. \A x \in Inbox : Follows(x, message)
      BY <1>2 DEF Follows, Plain, Fup, Reply
  <2>2. Ordered'
      BY <1>0, <1>4, <2>1, SentOrdered
  <2>3. DueSoon(toClient)'
      BY <1>0, <1>4, SentDue
  <2> QED BY <1>2, <2>2, <2>3, EmptyRange DEF DueSoon
<1>6. /\ \A x \in Inbox' \ Inbox : /\ x.seq = exchange[m] - 1 /\ x.time = now /\ Reply(x)
                                   /\ ~Sync(x) /\ ~Fup(x)
      /\ \A x \in Range(toClient') \ Range(toClient) : ~Sync(x)
    BY <1>0, <1>3, <1>4, SentInbox DEF SameMessage, Sync, Reply, Fup
<1>7. \A L : StampOf(L)' <=> StampOf(L)
    BY <1>0 DEF StampOf
<1>8. Messages(m, T)'
  <2>1. \A x \in Inbox' : Reply(x) => x.time <= now /\ \E L \in Int : StampOf(L) /\ Travels(L, x.time)
      BY <1>0, <1>1, <1>2, <1>6 DEF Exchange, Messages
  <2>2. \A x \in Inbox' : /\ Sync(x) \/ Fup(x) \/ Reply(x) => x.seq = exchange[m] - 1
                          /\ Fup(x) => x.time = T
      BY <1>1, <1>6 DEF Exchange, Messages
  <2> QED BY <1>0, <1>1, <1>6, <1>7, <2>1, <2>2 DEF Exchange, Messages
<1>9. Request(m)' /\ Phases(m)'
  <2>1. ~Requested'
      BY <1>0, <1>2 DEF Requested
  <2>2. \A x \in Inbox' : Plain(x) \/ Reply(x)
      BY <1>2, <1>6
  <2> QED BY <1>0, <1>2, <2>1, <2>2 DEF Request, Phases, Requested
<1>10. Data(m, T)'
    BY <1>0, <1>1, <1>2 DEF Exchange, Data
<1>11. Exchange(m, T)'
    BY <1>8, <1>9, <1>10 DEF Exchange
<1> QED
    BY <1>0, <1>5, <1>11 DEF Coherent

LEMMA AnswerOtherCoherent ==
    ASSUME NEW m, Lone(m), IInv(m), AnswerOther(m)
    PROVE  Coherent(m)'
<1> DEFINE message == Message("DELAY_RESP", m, exchange[m] - 1, now, FALSE)
<1>0. /\ StateOK /\ now \in Nat /\ offset \in Int /\ now + offset > 0 /\ m \in Masters
      /\ UNCHANGED <<now, offset, exchange, owed, toMaster, rxq, txq, txstamp, pc, ptp_data>>
      /\ Ordered /\ DueSoon(toClient) /\ DueSoon(toMaster)
      /\ toClient \in Seq(Link) /\ exchange[m] - 1 \in Nat
    BY Facts DEF AnswerOther, cardVars, masterVars
<1>1. PICK T \in Nat : Exchange(m, T)
    BY DEF IInv, Coherent
<1>2. /\ message \in Link /\ message.type = "DELAY_RESP" /\ ~message.mine
  <2>1. now \in Int
      BY <1>0
  <2> QED BY <1>0, <2>1 DEF Message, Link
<1>3. Sent(message)
  <2>1. PICK d \in Delays : toClient' = Behind(toClient, message, d)
      BY DEF AnswerOther
  <2> HIDE DEF message
  <2>2. PICK e \in Link : /\ toClient' = Append(toClient, e) /\ SameMessage(e, message)
                          /\ DueSoon(toClient) => Travels(now, e.due)
      BY <1>0, <1>2, <2>1, BehindIsAppend
  <2> QED BY <2>2 DEF Sent
<1> HIDE DEF message
<1>4. Ordered' /\ DueSoon(toClient)' /\ DueSoon(toMaster)'
  <2>1. \A x \in Inbox : Follows(x, message)
      BY <1>2 DEF Follows, Plain, Reply
  <2>2. Ordered'
      BY <1>0, <1>3, <2>1, SentOrdered
  <2>3. DueSoon(toClient)'
      BY <1>0, <1>3, SentDue
  <2> QED BY <1>0, <2>2, <2>3 DEF DueSoon
<1>5. /\ \A x \in Inbox' \ Inbox : Plain(x) /\ ~Sync(x) /\ ~Fup(x) /\ ~Reply(x)
      /\ \A x \in Range(toClient') \ Range(toClient) : ~Sync(x)
      /\ Inbox \subseteq Inbox'
    BY <1>0, <1>2, <1>3, SentInbox DEF SameMessage, Sync, Reply, Fup, Plain
<1>6. (Open' <=> Open) /\ (Early(m)' <=> Early(m)) /\ (Requested' <=> Requested)
    BY <1>0, <1>5 DEF Open, Early, Requested
<1>7. \A L : StampOf(L)' <=> StampOf(L)
    BY <1>0 DEF StampOf
<1>8. Messages(m, T)'
    BY <1>0, <1>1, <1>5, <1>7 DEF Exchange, Messages
<1>9. Request(m)'
    BY <1>0, <1>1, <1>7 DEF Exchange, Request
<1>10. Phases(m)'
    BY <1>0, <1>1, <1>5, <1>6 DEF Exchange, Phases
<1>11. Data(m, T)'
    BY <1>0, <1>1, <1>6 DEF Exchange, Data
<1>12. Exchange(m, T)'
    BY <1>8, <1>9, <1>10, <1>11 DEF Exchange
<1> QED
    BY <1>0, <1>4, <1>12 DEF Coherent

\* A message keeps all but its time when it gets a receive stamp.
LEMMA Restamped ==
    \A x \in Link, t \in Int :
        /\ [x EXCEPT !.due = t] \in Link
        /\ SameMessage([x EXCEPT !.due = t], x)
        /\ [x EXCEPT !.due = t].due = t
BY DEF Link, SameMessage

LEMMA ReceiveCoherent ==
    ASSUME NEW m, Lone(m), IInv(m), Receive
    PROVE  Coherent(m)'
<1> DEFINE h == Head(toClient)
           e == [h EXCEPT !.due = ClientClock]
<1>0. /\ now \in Nat /\ offset \in Int /\ now + offset > 0
      /\ toClient # <<>> /\ toClient' = Tail(toClient) /\ rxq' = Append(rxq, e)
      /\ h.due = now
      /\ UNCHANGED <<now, offset, exchange, owed, toMaster, txq, txstamp, pc, ptp_data>>
      /\ Ordered /\ DueSoon(toClient) /\ DueSoon(toMaster)
      /\ toClient \in Seq(Link) /\ rxq \in Seq(Link)
    BY Facts DEF Receive, masterVars
<1>1. PICK T \in Nat : Exchange(m, T)
    BY DEF IInv, Coherent
<1>2. /\ h \in Link /\ Range(toClient) = {h} \cup Range(toClient')
      /\ Sorted(toClient') /\ \A y \in Range(toClient') : Follows(h, y)
    BY <1>0, HeadAndTail, SortedTail DEF Ordered
<1>3. e \in Link /\ SameMessage(e, h) /\ e.due = now + offset
  <2>1. h \in Link /\ ClientClock \in Int /\ ClientClock = now + offset
      BY <1>0, <1>2 DEF ClientClock
  <2> QED BY <2>1, Restamped, Zenon
<1> HIDE DEF h, e
<1>4. Range(rxq') = Range(rxq) \cup {e}
    BY <1>0, <1>3, Appended
<1>5. /\ Inbox' = Range(rxq) \cup Range(toClient') \cup {e}
      /\ Inbox = Range(rxq) \cup Range(toClient') \cup {h}
    BY <1>2, <1>4 DEF Inbox
<1>6. /\ e.seq = h.seq /\ e.time = h.time
      /\ Sync(e) <=> Sync(h)
      /\ Fup(e) <=> Fup(h)
      /\ Reply(e) <=> Reply(h)
      /\ Plain(e) <=> Plain(h)
    BY <1>3 DEF SameMessage, Sync, Fup, Reply, Plain
<1>7. Ordered'
  <2>1. \A x \in Range(rxq) : Follows(x, e)
      BY <1>0, <1>2, <1>6 DEF Ordered, Across, Follows
  <2>2. Sorted(rxq')
      BY <1>0, <1>3, <2>1, SortedAppend DEF Ordered
  <2>3. Across'
      BY <1>0, <1>2, <1>4, <1>6 DEF Ordered, Across, Follows
  <2> QED BY <1>2, <2>2, <2>3 DEF Ordered
<1>8. DueSoon(toClient)' /\ DueSoon(toMaster)'
    BY <1>0, <1>2 DEF DueSoon
<1>9. (Open' <=> Open) /\ (Early(m)' <=> Early(m)) /\ (Requested' <=> Requested)
    BY <1>0, <1>5, <1>6 DEF Open, Early, Requested
<1>10. \A L : StampOf(L)' <=> StampOf(L)
    BY <1>0 DEF StampOf
<1>11. Messages(m, T)'
  <2>1. Messages(m, T) /\ h \in Inbox
      BY <1>1, <1>5 DEF Exchange
  <2>2. \A x \in Inbox' :
            /\ Sync(x) \/ Fup(x) \/ Reply(x) => x.seq = exchange[m] - 1
            /\ Fup(x) => x.time = T
            /\ Reply(x) => x.time <= now /\ \E L \in Int : StampOf(L) /\ Travels(L, x.time)
    <3>1. CASE e \in Inbox
        BY <1>5, <2>1, <3>1 DEF Messages
    <3>2. \A x \in Inbox' \ {e} : x \in Inbox
        BY <1>5
    <3> QED BY <1>6, <2>1, <3>2 DEF Messages
  <2>3. Sync(e) => e.due - offset <= now /\ Travels(T, e.due - offset)
    <3>1. Sync(h) => Travels(T, now)
        BY <1>0, <1>2, <2>1 DEF Messages
    <3>2. e.due - offset = now
        BY <1>0, <1>3
    <3> QED BY <1>0, <1>6, <3>1, <3>2
  <2> QED
      BY <1>0, <1>2, <1>4, <1>10, <2>1, <2>2, <2>3 DEF Messages
<1>12. Request(m)'
    BY <1>0, <1>1, <1>10 DEF Exchange, Request
<1>13. Phases(m)'
    BY <1>0, <1>1, <1>5, <1>6, <1>9 DEF Exchange, Phases
<1>14. Data(m, T)'
    BY <1>0, <1>1, <1>9 DEF Exchange, Data
<1>15. Exchange(m, T)'
    BY <1>11, <1>12, <1>13, <1>14 DEF Exchange
<1> QED
    BY <1>0, <1>7, <1>8, <1>15 DEF Coherent

LEMMA LaunchCoherent ==
    ASSUME NEW m, Lone(m), IInv(m), Launch
    PROVE  Coherent(m)'
<1>0. /\ StateOK /\ now \in Nat /\ offset \in Int /\ now + offset > 0
      /\ txq # <<>> /\ txq' = Tail(txq) /\ Head(txq) \in Link
      /\ UNCHANGED <<now, offset, exchange, owed, toClient, rxq, pc, ptp_data>>
      /\ Ordered /\ DueSoon(toClient) /\ DueSoon(toMaster)
      /\ toMaster \in Seq(Link)
      /\ ptp_data \in Slave
    BY Facts, HeadAndTail DEF Launch, masterVars
<1>1. PICK T \in Nat : Exchange(m, T)
    BY DEF IInv, Coherent
<1>2. /\ Tail(txq) = <<>> /\ Head(txq).seq = exchange[m] - 1
      /\ pc = "await" /\ txstamp = NoTime /\ toMaster = <<>>
      /\ Requested /\ Open /\ \A x \in Inbox : Plain(x)
    BY <1>0, <1>1 DEF Exchange, Request, Phases, Requested, Open
<1>3. txstamp' = now + offset /\ txq' = <<>> /\ pc' = "await"
    BY <1>0, <1>2 DEF Launch, ClientClock
<1>4. StampOf(now)'
  <2>1. ptp_data.tstamp2 - offset <= now
      BY <1>1, <1>2 DEF Exchange, Data
  <2> QED BY <1>0, <1>3, <2>1 DEF StampOf
<1>5. \/ toMaster' = <<>>
      \/ \E e \in Link : /\ toMaster' = Append(<<>>, e) /\ e.seq = exchange[m] - 1
                         /\ Travels(now, e.due)
  <2>1. Asked(Head(txq))
      BY <1>0, TransmitAsks DEF Launch
  <2> QED BY <1>0, <1>2, <2>1 DEF Asked, SameMessage
<1>6. toMaster' # <<>> => /\ Tail(toMaster') = <<>> /\ Head(toMaster').seq = exchange[m] - 1
                          /\ Travels(now, Head(toMaster').due)
                          /\ Range(toMaster') = {Head(toMaster')}
  <2>1. ASSUME NEW e \in Link, toMaster' = Append(<<>>, e)
        PROVE  Tail(toMaster') = <<>> /\ Head(toMaster') = e /\ Range(toMaster') = {e}
    <3>1. toMaster' = <<e>>
        BY <2>1
    <3> QED BY <3>1 DEF Range
  <2> QED BY <1>5, <2>1
<1>7. Ordered' /\ DueSoon(toClient)' /\ DueSoon(toMaster)'
  <2>1. DueSoon(toMaster)'
    <3>1. CASE toMaster' = <<>>
        BY <3>1, EmptyRange DEF DueSoon
    <3>2. CASE toMaster' # <<>>
        BY <1>0, <1>6, <3>2 DEF DueSoon, Travels
    <3> QED BY <3>1, <3>2
  <2> QED BY <1>0, <2>1 DEF Ordered, Across, DueSoon
<1>8. Inbox' = Inbox /\ Open' /\ (Early(m)' <=> Early(m))
    BY <1>0, <1>3 DEF Inbox, Open, Early
<1>9. Messages(m, T)'
  <2>1. \A x \in Inbox : ~Reply(x)
      BY <1>2 DEF Plain, Reply
  <2> QED BY <1>0, <1>1, <1>8, <2>1 DEF Exchange, Messages
<1>10. Request(m)'
    BY <1>0, <1>3, <1>4, <1>6 DEF Request
<1>11. Phases(m)'
    BY <1>0, <1>1, <1>2, <1>8 DEF Exchange, Phases
<1>12. Data(m, T)'
    BY <1>0, <1>1, <1>2, <1>8 DEF Exchange, Data
<1>13. Exchange(m, T)'
    BY <1>9, <1>10, <1>11, <1>12 DEF Exchange
<1> QED
    BY <1>0, <1>7, <1>13 DEF Coherent

LEMMA TickCoherent ==
    ASSUME NEW m, Lone(m), IInv(m), Tick
    PROVE  Coherent(m)'
<1>0. /\ StateOK /\ now \in Nat /\ offset \in Int /\ now + offset > 0 /\ now' = now + 1
      /\ UNCHANGED <<offset, exchange, owed, toClient, toMaster, rxq, txq, txstamp, pc, ptp_data>>
      /\ Ordered /\ DueSoon(toClient) /\ DueSoon(toMaster)
      /\ ptp_data \in Slave
      /\ \A x \in Inbox : x \in Link
      /\ toMaster \in Seq(Link)
    BY Facts DEF Tick, masterVars, cardVars
<1>1. PICK T \in Nat : Exchange(m, T)
    BY DEF IInv, Coherent
<1>2. Inbox' = Inbox /\ (Open' <=> Open) /\ (Early(m)' <=> Early(m)) /\ (Requested' <=> Requested)
    BY <1>0 DEF Inbox, Open, Early, Requested
<1>3. \A L : StampOf(L)' <=> StampOf(L)
    BY <1>0 DEF StampOf
<1>4. DueSoon(toClient)' /\ DueSoon(toMaster)'
  <2>1. \A s \in Seq(Link) : \A x \in Range(s) : x.due \in Int
    <3>1. \A s \in Seq(Link) : \A x \in Range(s) : x \in Link
        BY DEF Range
    <3>2. \A x \in Link : x.due \in Int
        BY DEF Link
    <3> QED BY <3>1, <3>2
  <2>2. \A d \in Delays : d \in Nat
      BY PtpAssumption
  <2>3. ASSUME NEW s \in Seq(Link), DueSoon(s) PROVE \A x \in Range(s) : \E d \in Delays : x.due <= now' + d
      BY <1>0, <2>1, <2>2, <2>3 DEF DueSoon
  <2> QED BY <1>0, <2>3 DEF DueSoon, StateOK
<1>5. Messages(m, T)'
  <2>1. \A x \in Inbox : x.time \in Int /\ x.due \in Int
      BY <1>0 DEF Link
  <2>2. \A x \in Inbox : Reply(x) => x.time <= now'
      BY <1>0, <1>1, <2>1 DEF Exchange, Messages
  <2>3. \A x \in Range(rxq) : Sync(x) => x.due - offset <= now' /\ Travels(T, x.due - offset)
      BY <1>0, <1>1, <2>1 DEF Exchange, Messages, Inbox
  <2> QED BY <1>0, <1>1, <1>2, <1>3, <2>2, <2>3 DEF Exchange, Messages
<1>6. Request(m)'
    BY <1>0, <1>1, <1>3 DEF Exchange, Request
<1>7. Phases(m)'
    BY <1>0, <1>1, <1>2 DEF Exchange, Phases
<1>8. Data(m, T)'
  <2>1. ptp_data.tstamp2 - offset \in Int
      BY <1>0 DEF Slave
  <2> QED BY <1>0, <1>1, <1>2, <2>1 DEF Exchange, Data
<1>9. Exchange(m, T)'
    BY <1>5, <1>6, <1>7, <1>8 DEF Exchange
<1>10. Ordered' /\ now' + offset' > 0
    BY <1>0 DEF Ordered, Across
<1> QED
    BY <1>4, <1>9, <1>10 DEF Coherent

-----------------------------------------------------------------------------
(* The steps of the client.                                                *)

\* While a SYNC or a follow-up waits at the head, no answer is under way.
LEMMA HeadCloses ==
    ASSUME NEW m, Lone(m), IInv(m), rxq # <<>>, pc = "poll", Sync(Head(rxq)) \/ Fup(Head(rxq))
    PROVE  ~Open
<1> DEFINE h == Head(rxq)
<1>1. PICK T \in Nat : Exchange(m, T)
    BY DEF IInv, Coherent
<1>2. /\ h \in Inbox /\ Range(rxq) = {h} \cup Range(Tail(rxq))
      /\ \A y \in Range(Tail(rxq)) : Follows(h, y)
      /\ Across
    BY Facts, HeadAndTail, SortedTail DEF Inbox, Ordered
<1>3. ~Plain(h) /\ ~Reply(h)
    BY DEF Sync, Fup, Plain, Reply
<1> HIDE DEF h
<1>4. ~Requested
    BY <1>1, <1>2, <1>3 DEF Exchange, Phases
<1>5. \A y \in Inbox : ~Reply(y)
    BY <1>2, <1>3 DEF Inbox, Across, Follows
<1> QED BY <1>4, <1>5 DEF Open

\* A message that changes nothing but the queue is polled.
LEMMA SkipCoherent ==
    ASSUME NEW m, Lone(m), IInv(m), rxq # <<>>, rxq' = Tail(rxq),
           UNCHANGED <<now, offset, masterVars, toClient, toMaster, txq, txstamp, pc, ptp_data>>
    PROVE  Coherent(m)'
<1>0. /\ now \in Nat /\ offset \in Int /\ now + offset > 0
      /\ UNCHANGED <<now, offset, exchange, owed, toClient, toMaster, txq, txstamp, pc, ptp_data>>
      /\ DueSoon(toClient) /\ DueSoon(toMaster)
    BY Facts DEF masterVars
<1>1. PICK T \in Nat : Exchange(m, T)
    BY DEF IInv, Coherent
<1>2. Ordered' /\ Inbox' \subseteq Inbox /\ Range(rxq') \subseteq Range(rxq)
    BY <1>0, Facts, PolledOrdered
<1>3. (Open' => Open) /\ (Early(m)' => Early(m)) /\ (Requested' <=> Requested)
    BY <1>0, <1>2 DEF Open, Early, Requested
<1>4. \A L : StampOf(L)' <=> StampOf(L)
    BY <1>0 DEF StampOf
<1>5. Messages(m, T)'
    BY <1>0, <1>1, <1>2, <1>4 DEF Exchange, Messages
<1>6. Request(m)'
    BY <1>0, <1>1, <1>4 DEF Exchange, Request
<1>7. Phases(m)'
    BY <1>0, <1>1, <1>2, <1>3 DEF Exchange, Phases
<1>8. Data(m, T)'
    BY <1>0, <1>1, <1>3 DEF Exchange, Data
<1>9. Exchange(m, T)'
    BY <1>5, <1>6, <1>7, <1>8 DEF Exchange
<1> QED
    BY <1>0, <1>2, <1>9 DEF Coherent, DueSoon

LEMMA SyncCoherent ==
    ASSUME NEW m, Lone(m), IInv(m), parse_sync
    PROVE  Coherent(m)'
<1> DEFINE h == Head(rxq)
<1>0. /\ now \in Nat /\ offset \in Int /\ now + offset > 0 /\ exchange[m] \in Nat
      /\ UNCHANGED <<now, offset, exchange, owed, toClient, toMaster, txq, txstamp, pc>>
      /\ DueSoon(toClient) /\ DueSoon(toMaster)
      /\ ptp_data \in Slave
      /\ rxq # <<>> /\ rxq' = Tail(rxq) /\ pc = "poll" /\ Sync(h)
      /\ ptp_data' = WithSync(h)
    BY Facts DEF parse_sync, Polls, masterVars, Sync
<1>1. PICK T \in Nat : Exchange(m, T)
    BY DEF IInv, Coherent
<1>2. /\ Ordered' /\ Inbox' \subseteq Inbox /\ Range(rxq') \subseteq Range(rxq)
      /\ h \in Link /\ h \in Inbox /\ h.src = m /\ h \in Range(rxq)
    BY <1>0, Facts, PolledOrdered, HeadAndTail
<1>3. ~Open
    BY <1>0, HeadCloses
<1>4. h.seq = exchange[m] - 1 /\ h.due - offset <= now /\ Travels(T, h.due - offset)
    BY <1>0, <1>1, <1>2 DEF Exchange, Messages
<1> HIDE DEF h
<1>5. /\ ptp_data'.seqID_SYNC = exchange[m] - 1
      /\ ptp_data'.tstamp2 = h.due
    BY <1>0, <1>4 DEF WithSync, Slave
<1>6. ~Open' /\ (Early(m)' => Early(m)) /\ ~Requested
    BY <1>0, <1>2, <1>3 DEF Open, Early, Requested
<1>7. \A x \in Inbox : ~Reply(x)
    BY <1>3 DEF Open
<1>8. Messages(m, T)'
    BY <1>0, <1>1, <1>2, <1>7 DEF Exchange, Messages
<1>9. Request(m)'
    BY <1>0, <1>6 DEF Request, Requested
<1>10. Phases(m)'
    BY <1>0, <1>1, <1>2, <1>6 DEF Exchange, Phases, Requested
<1>11. Data(m, T)'
    BY <1>0, <1>1, <1>4, <1>5, <1>6 DEF Exchange, Data
<1>12. Exchange(m, T)'
    BY <1>8, <1>9, <1>10, <1>11 DEF Exchange
<1> QED
    BY <1>0, <1>2, <1>12 DEF Coherent, DueSoon

LEMMA FollowUpAloneCoherent ==
    ASSUME NEW m, Lone(m), IInv(m), FollowUpAlone
    PROVE  Coherent(m)'
<1>0. /\ now \in Nat /\ offset \in Int /\ now + offset > 0
      /\ UNCHANGED <<now, offset, exchange, owed, toClient, toMaster, txq, txstamp, pc>>
      /\ DueSoon(toClient) /\ DueSoon(toMaster)
      /\ ptp_data \in Slave
      /\ rxq # <<>> /\ rxq' = Tail(rxq) /\ pc = "poll" /\ Fup(Head(rxq))
      /\ ptp_data' = WithFollowUp
    BY Facts DEF FollowUpAlone, FollowUp, Polls, masterVars, Fup
<1>1. PICK T \in Nat : Exchange(m, T)
    BY DEF IInv, Coherent
<1>2. Ordered' /\ Inbox' \subseteq Inbox /\ Range(rxq') \subseteq Range(rxq)
    BY <1>0, Facts, PolledOrdered
<1>3. ~Open
    BY <1>0, HeadCloses
<1>4. /\ ptp_data'.seqID_SYNC = ptp_data.seqID_SYNC
      /\ ptp_data'.master_clock_id = ptp_data.master_clock_id
      /\ ptp_data'.tstamp2 = ptp_data.tstamp2
    BY <1>0 DEF WithFollowUp, Slave
<1>5. ~Open' /\ (Early(m)' => Early(m)) /\ ~Requested
    BY <1>0, <1>2, <1>3 DEF Open, Early, Requested
<1>6. \A x \in Inbox : ~Reply(x)
    BY <1>3 DEF Open
<1>7. Messages(m, T)'
    BY <1>0, <1>1, <1>2, <1>6 DEF Exchange, Messages
<1>8. Request(m)'
    BY <1>0, <1>5 DEF Request, Requested
<1>9. Phases(m)'
    BY <1>0, <1>1, <1>2, <1>5 DEF Exchange, Phases, Requested
<1>10. Data(m, T)'
    BY <1>0, <1>1, <1>4, <1>5 DEF Exchange, Data
<1>11. Exchange(m, T)'
    BY <1>7, <1>8, <1>9, <1>10 DEF Exchange
<1> QED
    BY <1>0, <1>2, <1>11 DEF Coherent, DueSoon

LEMMA SendRequestCoherent ==
    ASSUME NEW m, Lone(m), IInv(m), SendRequest
    PROVE  Coherent(m)'
<1> DEFINE h == Head(rxq)
<1>0. /\ now \in Nat /\ offset \in Int /\ now + offset > 0 /\ exchange[m] \in Nat
      /\ UNCHANGED <<now, offset, exchange, owed, toClient, toMaster>>
      /\ DueSoon(toClient) /\ DueSoon(toMaster)
      /\ ptp_data \in Slave
      /\ rxq # <<>> /\ rxq' = Tail(rxq) /\ pc = "poll" /\ Fup(h)
      /\ h.src = ptp_data.master_clock_id /\ h.seq = ptp_data.seqID_SYNC
      /\ ptp_data' = WithRequest /\ txstamp' = NoTime /\ pc' = "await"
    BY Facts DEF SendRequest, FollowUp, Polls, Matches, masterVars, Fup
<1>1. PICK T \in Nat : Exchange(m, T)
    BY DEF IInv, Coherent
<1>2. /\ Ordered' /\ Inbox' \subseteq Inbox /\ Range(rxq') \subseteq Range(rxq)
      /\ h \in Link /\ h \in Inbox /\ h.src = m
      /\ \A y \in Inbox' : Follows(h, y)
    BY <1>0, Facts, PolledOrdered
<1>3. ~Requested
    BY <1>0, HeadCloses DEF Open
<1>4. h.seq = exchange[m] - 1 /\ h.time = T /\ owed[m] = NoTime /\ Early(m)
    BY <1>0, <1>1, <1>2 DEF Exchange, Messages, Phases, Early
<1>5. \A x \in Inbox' : Plain(x) /\ ~Sync(x) /\ ~Fup(x) /\ ~Reply(x)
    BY <1>0, <1>2 DEF Follows, Plain, Sync, Fup, Reply
<1>6. /\ ptp_data'.master_clock_id = m
      /\ ptp_data'.seqID_SYNC = exchange[m] - 1
      /\ ptp_data'.seqID_FOLLOWUP = exchange[m] - 1
      /\ ptp_data'.tstamp1 = T
      /\ ptp_data'.tstamp2 = ptp_data.tstamp2
    BY <1>0, <1>2, <1>4 DEF WithRequest, WithFollowUp, Slave
<1>7. ptp_data.tstamp2 - offset <= now /\ Travels(T, ptp_data.tstamp2 - offset)
    BY <1>0, <1>1, <1>2, <1>4 DEF Exchange, Data
<1>8. txq' # <<>> => Tail(txq') = <<>> /\ Head(txq').seq = exchange[m] - 1
  <2> DEFINE request == Message("DELAY_REQ", h.src, ptp_data.seqID_SYNC, NoTime, TRUE)
  <2>1. request.seq = exchange[m] - 1
      BY <1>0, <1>4 DEF Message
  <2>2. txq = <<>> /\ (txq' = Append(<<>>, request) \/ txq' = txq)
      BY <1>3 DEF SendRequest, Requested
  <2> HIDE DEF request
  <2>3. CASE txq' = Append(<<>>, request)
      BY <2>1, <2>3, Single
  <2> QED BY <2>2, <2>3
<1> HIDE DEF h
<1>9. Messages(m, T)'
    BY <1>0, <1>1, <1>2, <1>5 DEF Exchange, Messages, Inbox
<1>10. Request(m)'
    BY <1>0, <1>3, <1>8 DEF Request, Requested
<1>11. Phases(m)'
    BY <1>0, <1>4, <1>5 DEF Phases
<1>12. Data(m, T)'
    BY <1>0, <1>4, <1>6, <1>7 DEF Data
<1>13. Exchange(m, T)'
    BY <1>9, <1>10, <1>11, <1>12 DEF Exchange
<1> QED
    BY <1>0, <1>2, <1>13 DEF Coherent, DueSoon

LEMMA StampReadCoherent ==
    ASSUME NEW m, Lone(m), IInv(m), StampRead
    PROVE  Coherent(m)'
<1>0. /\ now \in Nat /\ offset \in Int /\ now + offset > 0
      /\ UNCHANGED <<now, offset, exchange, owed, toClient, toMaster, rxq, txq>>
      /\ Ordered /\ DueSoon(toClient) /\ DueSoon(toMaster)
      /\ ptp_data \in Slave
      /\ pc = "await" /\ pc' = "poll" /\ txstamp # NoTime
      /\ ptp_data' = [ptp_data EXCEPT !.tstamp3 = txstamp]
    BY Facts DEF StampRead, masterVars
<1>1. PICK T \in Nat : Exchange(m, T)
    BY DEF IInv, Coherent
<1>2. /\ ptp_data'.master_clock_id = ptp_data.master_clock_id
      /\ ptp_data'.seqID_SYNC = ptp_data.seqID_SYNC
      /\ ptp_data'.seqID_FOLLOWUP = ptp_data.seqID_FOLLOWUP
      /\ ptp_data'.tstamp1 = ptp_data.tstamp1
      /\ ptp_data'.tstamp2 = ptp_data.tstamp2
      /\ ptp_data'.tstamp3 = txstamp
    BY <1>0 DEF Slave
<1>3. \A L : StampOf(L) => StampOf(L)'
    BY <1>0, <1>2 DEF StampOf
<1>4. Inbox' = Inbox /\ Open /\ txq = <<>> /\ (Requested' <=> Requested)
      /\ (Early(m)' <=> Early(m))
    BY <1>0, <1>1 DEF Inbox, Open, Exchange, Request, Requested, Early
<1>5. Messages(m, T)'
    BY <1>0, <1>1, <1>3, <1>4 DEF Exchange, Messages
<1>6. Request(m)'
    BY <1>0, <1>1, <1>3, <1>4 DEF Exchange, Request
<1>7. Phases(m)'
    BY <1>0, <1>1, <1>4 DEF Exchange, Phases
<1>8. Data(m, T)'
    BY <1>0, <1>1, <1>2, <1>4 DEF Exchange, Data
<1>9. Exchange(m, T)'
    BY <1>5, <1>6, <1>7, <1>8 DEF Exchange
<1>10. Ordered' /\ DueSoon(toClient)' /\ DueSoon(toMaster)'
    BY <1>0 DEF Ordered, Across, DueSoon
<1> QED
    BY <1>0, <1>9, <1>10 DEF Coherent

\* The request never left: no answer comes.
LEMMA StampMissingCoherent ==
    ASSUME NEW m, Lone(m), IInv(m), StampMissing
    PROVE  Coherent(m)'
<1>0. /\ now \in Nat /\ offset \in Int /\ now + offset > 0
      /\ UNCHANGED <<now, offset, exchange, owed, toClient, toMaster, rxq, txq, txstamp, ptp_data>>
      /\ Ordered /\ DueSoon(toClient) /\ DueSoon(toMaster)
      /\ pc = "await" /\ pc' = "poll" /\ txstamp = 0 /\ txq = <<>>
    BY Facts DEF StampMissing, masterVars, cardVars, Lone, NoTime
<1>1. PICK T \in Nat : Exchange(m, T)
    BY DEF IInv, Coherent
<1>2. \A L \in Int : ~StampOf(L)
    BY <1>0 DEF StampOf
<1>3. toMaster = <<>> /\ \A x \in Inbox : ~Reply(x)
    BY <1>1, <1>2 DEF Exchange, Messages, Request
<1>4. Inbox' = Inbox /\ Open /\ ~Open' /\ ~Requested' /\ (Early(m)' <=> Early(m))
    BY <1>0, <1>3 DEF Inbox, Open, Requested, Early
<1>5. Messages(m, T)'
    BY <1>0, <1>1, <1>3, <1>4 DEF Exchange, Messages
<1>6. Request(m)'
    BY <1>0, <1>3 DEF Request
<1>7. Phases(m)'
    BY <1>0, <1>1, <1>4 DEF Exchange, Phases
<1>8. Data(m, T)'
    BY <1>0, <1>1, <1>4 DEF Exchange, Data
<1>9. Exchange(m, T)'
    BY <1>5, <1>6, <1>7, <1>8 DEF Exchange
<1>10. Ordered' /\ DueSoon(toClient)' /\ DueSoon(toMaster)'
    BY <1>0 DEF Ordered, Across, DueSoon
<1> QED
    BY <1>0, <1>9, <1>10 DEF Coherent

-----------------------------------------------------------------------------
(* The correction.                                                         *)

\* A SYNC was under way for a, a request for b, and the client's clock was ahead by o:
\* the correction leaves half the difference of a and b, rounded.
LEMMA Residue ==
    ASSUME NEW a \in Nat \ {0}, NEW b \in Nat \ {0}, NEW o \in Int,
           NEW t1 \in Int, NEW t2 \in Int, NEW t3 \in Int, NEW t4 \in Int,
           t2 - o = t1 + a, t4 = t3 - o + b
    PROVE  LET rest == o + delta_eval(t1, t2, t3, t4)
               gap  == IF a >= b THEN a - b ELSE b - a
           IN  rest \in Within((gap + 1) \div 2) /\ rest \in Int /\ rest + a + b > 0
<1> DEFINE d == 2 * o + a - b
           gap == IF a >= b THEN a - b ELSE b - a
           rest == o + delta_eval(t1, t2, t3, t4)
<1>1. (t2 - t1) - (t4 - t3) = d /\ d \in Int /\ gap \in Nat
    OBVIOUS
<1>2. delta_eval(t1, t2, t3, t4) = IF d >= 0 THEN -(d \div 2) ELSE (-d) \div 2
    BY <1>1 DEF delta_eval
<1> HIDE DEF rest
<1>3. rest = IF d >= 0 THEN o - (d \div 2) ELSE o + ((-d) \div 2)
    BY <1>1, <1>2 DEF rest
<1>4. PICK r \in {-1, 0, 1} : 2 * rest = b - a + r
  <2>1. CASE d >= 0
    <3>1. d \div 2 \in Int /\ (d = 2 * (d \div 2) \/ d = 2 * (d \div 2) + 1)
        BY <1>1, <2>1
    <3> QED BY <1>3, <2>1, <3>1
  <2>2. CASE d < 0
    <3>1. /\ (-d) \div 2 \in Int
          /\ (-d = 2 * ((-d) \div 2) \/ -d = 2 * ((-d) \div 2) + 1)
        BY <1>1, <2>2
    <3> QED BY <1>1, <1>3, <2>2, <3>1
  <2> QED BY <1>1, <2>1, <2>2
<1>5. rest \in Int
    BY <1>1, <1>3
<1>6. /\ (gap + 1) \div 2 \in Int
      /\ gap + 1 <= 2 * ((gap + 1) \div 2) + 1
    BY <1>1
<1>7. rest <= (gap + 1) \div 2 /\ -((gap + 1) \div 2) <= rest
    BY <1>4, <1>5, <1>6
<1>8. rest + a + b > 0
    BY <1>4, <1>5
<1> QED
    BY <1>5, <1>6, <1>7, <1>8 DEF Within, rest

\* The stamps are those of the exchange: the SYNC left at T, the request at L.
LEMMA AdjustCorrects ==
    ASSUME NEW m, Lone(m), IInv(m), Adjust
    PROVE  Synchronized' /\ offset' \in Int /\ now' + offset' > 0
<1> DEFINE h == Head(rxq)
<1>0. /\ now \in Nat /\ offset \in Int /\ now' = now
      /\ ptp_data \in Slave
      /\ rxq # <<>> /\ pc = "poll" /\ Reply(h)
      /\ h \in Link /\ h \in Inbox
      /\ offset' = offset + delta_eval(ptp_data.tstamp1, ptp_data.tstamp2,
                                       ptp_data.tstamp3, h.time)
    BY Facts, HeadAndTail DEF Adjust, Response, Polls, Expected, Reply, Inbox
<1>1. PICK T \in Nat : Exchange(m, T)
    BY DEF IInv, Coherent
<1>2. PICK L \in Int : StampOf(L) /\ Travels(L, h.time)
    BY <1>0, <1>1 DEF Exchange, Messages
<1>3. Open /\ h.time <= now /\ h.time \in Int
    BY <1>0, <1>1 DEF Open, Exchange, Messages, Link
<1> HIDE DEF h
<1>4. /\ ptp_data.tstamp1 = T /\ Travels(T, ptp_data.tstamp2 - offset)
      /\ ptp_data.tstamp3 = L + offset /\ ptp_data.tstamp2 - offset <= L
      /\ ptp_data.tstamp2 \in Int
    BY <1>0, <1>1, <1>2, <1>3 DEF Exchange, Data, StampOf, Slave
<1>5. PICK lo1, hi1 \in Delays : /\ T + lo1 <= ptp_data.tstamp2 - offset
                                 /\ ptp_data.tstamp2 - offset <= T + hi1
    BY <1>4 DEF Travels
<1>6. PICK lo2, hi2 \in Delays : L + lo2 <= h.time /\ h.time <= L + hi2
    BY <1>2 DEF Travels
<1>7. \A x \in Delays : x \in Nat \ {0}
    BY PtpAssumption
<1> DEFINE a == ptp_data.tstamp2 - offset - T
           b == h.time - L
           gap == IF a >= b THEN a - b ELSE b - a
<1>8. /\ a \in Nat \ {0} /\ lo1 <= a /\ a <= hi1
      /\ b \in Nat \ {0} /\ lo2 <= b /\ b <= hi2
      /\ a + b <= now
  <2>1. /\ lo1 \in Nat \ {0} /\ hi1 \in Nat \ {0}
        /\ lo2 \in Nat \ {0} /\ hi2 \in Nat \ {0}
      BY <1>7
  <2>2. a \in Int /\ b \in Int
      BY <1>0, <1>3, <1>4
  <2>3. lo1 <= a /\ a <= hi1
      BY <1>0, <1>4, <1>5, <2>1
  <2>4. lo2 <= b /\ b <= hi2
      BY <1>3, <1>6, <2>1
  <2>5. a + b <= now
      BY <1>0, <1>3, <1>4
  <2> HIDE DEF a, b
  <2> QED BY <2>1, <2>2, <2>3, <2>4, <2>5
<1>9. ptp_data.tstamp2 - offset = T + a /\ h.time = ptp_data.tstamp3 - offset + b
    BY <1>0, <1>3, <1>4
<1> HIDE DEF a, b
<1>10. /\ offset' \in Within((gap + 1) \div 2) /\ offset' \in Int
       /\ offset' + a + b > 0
  <2>1. ptp_data.tstamp1 \in Int /\ ptp_data.tstamp3 \in Int
      BY <1>0 DEF Slave
  <2> QED BY <1>0, <1>3, <1>4, <1>8, <1>9, <2>1, Residue
<1>11. now' + offset' > 0
    BY <1>0, <1>8, <1>10
<1>12. PICK slow, fast \in Delays : gap <= slow - fast
    BY <1>7, <1>8
<1>13. offset' \in Within((slow - fast + 1) \div 2)
  <2>1. /\ gap \in Nat /\ slow - fast \in Nat
        /\ (gap + 1) \div 2 \in Int /\ (slow - fast + 1) \div 2 \in Int
        /\ (gap + 1) \div 2 <= (slow - fast + 1) \div 2
      BY <1>7, <1>8, <1>12
  <2> HIDE DEF gap
  <2> QED BY <1>10, <2>1 DEF Within
<1> QED BY <1>10, <1>11, <1>13 DEF Synchronized

LEMMA AdjustCoherent ==
    ASSUME NEW m, Lone(m), IInv(m), Adjust
    PROVE  Coherent(m)'
<1> DEFINE h == Head(rxq)
<1>0. /\ now' + offset' > 0 /\ ptp_data \in Slave
      /\ UNCHANGED <<now, exchange, owed, toClient, toMaster, txq, txstamp, pc>>
      /\ DueSoon(toClient) /\ DueSoon(toMaster)
      /\ rxq # <<>> /\ rxq' = Tail(rxq) /\ pc = "poll" /\ Reply(h)
    BY Facts, AdjustCorrects DEF Adjust, Response, Polls, Expected, masterVars, Reply
<1>1. PICK T \in Nat : Exchange(m, T)
    BY DEF IInv, Coherent
<1>2. /\ Ordered' /\ Inbox' \subseteq Inbox
      /\ h \in Inbox /\ \A y \in Inbox' : Follows(h, y)
    BY <1>0, Facts, PolledOrdered
<1>3. \A x \in Inbox' : Plain(x) /\ ~Sync(x) /\ ~Fup(x) /\ ~Reply(x)
    BY <1>0, <1>2 DEF Follows, Plain, Sync, Fup, Reply
<1>4. Open /\ ~Plain(h)
    BY <1>0, <1>2 DEF Open, Plain, Reply
<1>5. ~Requested /\ owed[m] = NoTime
    BY <1>1, <1>2, <1>4 DEF Exchange, Phases
<1> HIDE DEF h
<1>6. ~Open' /\ ~Requested' /\ ~Early(m)'
    BY <1>0, <1>3, <1>5 DEF Open, Early, Requested
<1>7. /\ ptp_data'.seqID_SYNC = ptp_data.seqID_SYNC
      /\ ptp_data'.master_clock_id = ptp_data.master_clock_id
    BY DEF Adjust, IInv, StateOK, Slave
<1>8. Messages(m, T)'
    BY <1>3 DEF Messages, Inbox
<1>9. Request(m)'
    BY <1>6 DEF Request, Requested
<1>10. Phases(m)'
    BY <1>0, <1>5, <1>6 DEF Phases
<1>11. Data(m, T)'
    BY <1>0, <1>1, <1>5, <1>6, <1>7 DEF Exchange, Data
<1>12. Exchange(m, T)'
    BY <1>8, <1>9, <1>10, <1>11 DEF Exchange
<1> QED
    BY <1>0, <1>2, <1>12 DEF Coherent, DueSoon

-----------------------------------------------------------------------------
(* The theorem.                                                            *)

LEMMA InitCoherent ==
    ASSUME NEW m, Lone(m), Init
    PROVE  Coherent(m)
<1>1. /\ now + offset > 0
      /\ toClient = <<>> /\ toMaster = <<>> /\ rxq = <<>> /\ txq = <<>> /\ pc = "poll"
      /\ ptp_data.master_clock_id = NoMaster /\ NoMaster # m
      /\ owed[m] = NoTime
    BY PtpAssumption DEF Init, Lone
<1>2. Range(toClient) = {} /\ Range(toMaster) = {} /\ Range(rxq) = {} /\ Inbox = {}
    BY <1>1, EmptyRange DEF Inbox
<1>3. ~Open /\ ~Requested
    BY <1>1, <1>2 DEF Open, Requested
<1>4. Sorted(toClient) /\ Sorted(rxq)
    BY <1>1 DEF Sorted
<1>5. Ordered /\ DueSoon(toClient) /\ DueSoon(toMaster)
    BY <1>2, <1>4 DEF Ordered, Across, DueSoon
<1>6. Messages(m, 0) /\ Request(m) /\ Phases(m)
    BY <1>1, <1>2, <1>3 DEF Messages, Request, Phases
<1>7. Data(m, 0)
    BY <1>1, <1>3 DEF Data
<1>8. 0 \in Nat /\ Exchange(m, 0)
    BY <1>6, <1>7 DEF Exchange
<1> QED
    BY <1>1, <1>5, <1>8 DEF Coherent

LEMMA StepCoherent ==
    ASSUME NEW m, Lone(m), IInv(m), [Next]_vars
    PROVE  IInv(m)'
<1>0. StateOK'
    BY StepTyped DEF IInv
<1>1. Coherent(m)'
  <2>1. CASE UNCHANGED vars
    <3>1. UNCHANGED <<now, offset, exchange, owed, toClient, toMaster, rxq, txq, txstamp, pc,
                      ptp_data>>
        BY <2>1 DEF vars, masterVars, cardVars
    <3>2. \A L : StampOf(L)' <=> StampOf(L)
        BY <3>1 DEF StampOf
    <3>3. Inbox' = Inbox /\ (Open' <=> Open) /\ (Early(m)' <=> Early(m))
        BY <3>1 DEF Inbox, Open, Requested, Early
    <3>4. PICK T \in Nat : Exchange(m, T)
        BY DEF IInv, Coherent
    <3>5. Messages(m, T)' /\ Request(m)'
        BY <3>1, <3>2, <3>3, <3>4 DEF Exchange, Messages, Request
    <3>6. Phases(m)' /\ Data(m, T)'
        BY <3>1, <3>3, <3>4 DEF Exchange, Phases, Data, Requested
    <3>7. Ordered' /\ DueSoon(toClient)' /\ DueSoon(toMaster)' /\ now' + offset' > 0
        BY <3>1 DEF IInv, Coherent, Ordered, Across, DueSoon
    <3> QED BY <3>5, <3>6, <3>7 DEF Coherent, Exchange
  <2>2. CASE Network
      BY <2>2, SendSyncCoherent, SendFollowUpCoherent, AnswerCoherent, ReceiveCoherent,
         LaunchCoherent DEF Network, Lone
  <2>3. CASE Client
    <3>1. ASSUME FollowUpForeign \/ ResponseIgnored PROVE Coherent(m)'
        BY <3>1, SkipCoherent DEF FollowUpForeign, ResponseIgnored, Response, Polls, masterVars
    <3> QED
        BY <2>3, <3>1, SyncCoherent, FollowUpAloneCoherent, SendRequestCoherent,
           StampReadCoherent, StampMissingCoherent, AdjustCoherent DEF Client
  <2>4. CASE \E n \in Masters : AnswerOther(n)
      BY <2>4, AnswerOtherCoherent DEF Lone
  <2>5. CASE Tick
      BY <2>5, TickCoherent
  <2>6. CASE AtLimit
      BY <2>1, <2>6 DEF AtLimit
  <2> QED BY <2>1, <2>2, <2>3, <2>4, <2>5, <2>6 DEF Next
<1> QED BY <1>0, <1>1 DEF IInv

\* With one master that ends each exchange before it begins the next, and a card that
\* sends a request while the client waits for its stamp, every correction of the clock
\* leaves it within half the spread of the delays of the masters' time, whatever the
\* delays, the losses, the refusals and the responses to others.
THEOREM CorrectionOneMaster ==
    ASSUME NEW m, Lone(m)
    PROVE  Spec => CorrectionSynchronizes
<1>1. Init => IInv(m)
    BY InitTyped, InitCoherent DEF IInv
<1>2. IInv(m) /\ [Next]_vars => IInv(m)'
    BY StepCoherent
<1>3. IInv(m) /\ [Next]_vars => [offset' # offset => Synchronized']_vars
  <2> SUFFICES ASSUME IInv(m), [Next]_vars, offset' # offset
               PROVE  Synchronized'
      OBVIOUS
  <2>1. Adjust
      BY DEF vars, Next, Network, Client, SendSync, SendFollowUp, Answer, AnswerOther, Receive,
             Launch, parse_sync, FollowUp, FollowUpForeign, FollowUpAlone, SendRequest,
             StampRead, StampMissing, ResponseIgnored, Tick, AtLimit
  <2> QED BY <2>1, AdjustCorrects
<1> QED
    BY <1>1, <1>2, <1>3, PTL DEF Spec, CorrectionSynchronizes
=============================================================================
