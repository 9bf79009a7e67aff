--------------------------- MODULE ListenerProofs ---------------------------
(***************************************************************************)
(* Theorems about Listener, for every pool, ring and traffic.              *)
(***************************************************************************)
EXTENDS Listener, TLAPS, FiniteSetTheorems, SequenceTheorems

\* Every buffer that left the pool is in the ring, main()'s, or was received.
Buffers ==
    /\ pc \in {"parse", "setup", "exited"} =>
          received = <<>> /\ pool = NUM_MBUF_ELEMENTS
    /\ pc = "allocate" => received = <<>> /\ pool = NUM_MBUF_ELEMENTS - NUM_RX_DESC
    /\ Looping => pool + Len(received) = NUM_MBUF_ELEMENTS - NUM_RX_DESC - 1
    /\ pc \in {"stamp", "poll"} => received # <<>>

IInv == TypeOK /\ Buffers

-----------------------------------------------------------------------------

\* Taking the oldest frame of the ring.
LEMMA TakeType ==
    ASSUME TypeOK, Take
    PROVE  /\ received' \in Seq(Nat) /\ Len(received') = Len(received) + 1
           /\ ring' \in Seq(Nat)
<1>1. received \in Seq(Nat) /\ ring \in Seq(Nat) /\ ring # <<>>
    BY DEF TypeOK, Take
<1>2. Head(ring) \in Nat /\ Tail(ring) \in Seq(Nat)
    BY <1>1
<1>3. received' = Append(received, Head(ring)) /\ ring' = Tail(ring)
    BY DEF Take
<1> QED BY <1>1, <1>2, <1>3

LEMMA InitIInv == Init => IInv
BY ListenerAssumption DEF Init, IInv, TypeOK, Buffers, Looping, NoFrame

LEMMA IInvInductive == IInv /\ [Next]_vars => IInv'
<1> SUFFICES ASSUME TypeOK, Buffers, [Next]_vars PROVE TypeOK' /\ Buffers'
    BY DEF IInv
<1> USE ListenerAssumption
<1>1. CASE Parse
    BY <1>1 DEF Parse, TypeOK, Buffers, Looping, cardVars
<1>2. CASE StartPort
    BY <1>2 DEF StartPort, TypeOK, Buffers, Looping, cardVars
<1>3. CASE Allocate
    BY <1>3 DEF Allocate, TypeOK, Buffers, Looping, cardVars
<1>4. CASE Receive
  <2>1. Take /\ TakeBuffer(1) /\ pc = "recv" /\ pc' \in {"recv", "stamp"}
      BY <1>4 DEF Receive
  <2>2. UNCHANGED <<pit_hw, stamps, arrived, dropped, stamp, spaced>>
      BY <1>4 DEF Receive
  <2>3. pool' \in Nat /\ pool' = pool - 1
      BY <2>1 DEF TakeBuffer, TypeOK
  <2>4. TypeOK'
    <3>1. received' \in Seq(Nat) /\ ring' \in Seq(Nat)
        BY <2>1, TakeType
    <3>2. /\ pit_hw' \in BOOLEAN /\ stamps' \subseteq Nat \X Nat /\ arrived' \in Nat
          /\ dropped' \subseteq Nat /\ stamp' \in Nat /\ spaced' \in BOOLEAN
        BY <2>2 DEF TypeOK
    <3> QED BY <2>1, <2>3, <3>1, <3>2 DEF TypeOK
  <2>5. Len(received) \in Nat /\ Len(received') = Len(received) + 1
      BY <2>1, TakeType DEF TypeOK
  <2>6. Buffers'
    <3>1. pool \in Nat /\ pool + Len(received) = NUM_MBUF_ELEMENTS - NUM_RX_DESC - 1
        BY <2>1 DEF Buffers, Looping, TypeOK
    <3>2. pool' + Len(received') = NUM_MBUF_ELEMENTS - NUM_RX_DESC - 1
        BY <2>3, <2>5, <3>1
    <3>3. received' # <<>>
        BY <2>5
    <3> QED BY <2>1, <3>2, <3>3 DEF Buffers, Looping
  <2> QED BY <2>4, <2>6
<1>5. CASE ReceiveNothing \/ Exited \/ UNCHANGED vars
    BY <1>5 DEF ReceiveNothing, Exited, vars, programVars, cardVars, TypeOK, Buffers, Looping
<1>6. CASE ReadStamp
  <2>1. stamps' \subseteq Nat \X Nat
    <3>1. received # <<>> /\ received \in Seq(Nat)
        BY <1>6 DEF ReadStamp, Buffers, TypeOK
    <3>2. received[Len(received)] \in Nat
        BY <3>1
    <3>3. stamps' = stamps \cup {<<received[Len(received)], stamp>>}
        BY <1>6 DEF ReadStamp
    <3> QED
        BY <3>2, <3>3 DEF TypeOK
  <2>2. TypeOK'
      BY <1>6, <2>1 DEF ReadStamp, TypeOK, NoFrame
  <2>3. Buffers'
      BY <1>6 DEF ReadStamp, Buffers, Looping
  <2> QED BY <2>2, <2>3
<1>7. CASE PollStamp
    BY <1>7 DEF PollStamp, TypeOK, Buffers, Looping, cardVars
<1>8. CASE StampTimeout
    BY <1>8 DEF StampTimeout, TypeOK, Buffers, Looping, NoFrame
<1>9. CASE Arrive
  <2>1. /\ arrived' \in Nat /\ stamp' \in Nat
        /\ UNCHANGED <<programVars, spaced>>
      BY <1>9 DEF Arrive, TypeOK, NoFrame
  <2>2. ring' \in Seq(Nat) /\ dropped' \subseteq Nat
    <3>1. CASE Len(ring) < NUM_RX_DESC
      <4>1. ring' = Append(ring, arrived') /\ dropped' = dropped
          BY <1>9, <3>1 DEF Arrive
      <4> QED BY <2>1, <4>1 DEF TypeOK
    <3>2. CASE ~(Len(ring) < NUM_RX_DESC)
      <4>1. dropped' = dropped \cup {arrived'} /\ ring' = ring
          BY <1>9, <3>2 DEF Arrive
      <4> QED BY <2>1, <4>1 DEF TypeOK
    <3> QED BY <3>1, <3>2
  <2> QED
      BY <2>1, <2>2 DEF programVars, TypeOK, Buffers, Looping
<1> QED
    BY <1>1, <1>2, <1>3, <1>4, <1>5, <1>6, <1>7, <1>8, <1>9 DEF Next, Program

\* Every variable keeps its type; the pool is never asked for a buffer it lacks.
THEOREM TypeCorrect == Spec => []TypeOK
<1>1. IInv => TypeOK
    BY DEF IInv
<1> QED BY <1>1, InitIInv, IInvInductive, PTL DEF Spec

-----------------------------------------------------------------------------
(* No frame is received twice, out of order or lost unaccounted for.       *)

Taken == received \o ring

\* EachFrameOnce, and no frame is known that has not arrived.
Accounted ==
    /\ \A i \in 1 .. Len(Taken) : Taken[i] \in 1 .. arrived
    /\ \A i, j \in 1 .. Len(Taken) : i < j => Taken[i] < Taken[j]
    /\ dropped \subseteq 1 .. arrived
    /\ \A i \in 1 .. Len(Taken) : Taken[i] \notin dropped
    /\ IsFiniteSet(dropped)
    /\ Len(Taken) + Cardinality(dropped) = arrived

LEMMA TakenType == TypeOK => Taken \in Seq(Nat)
BY DEF TypeOK, Taken

\* Handing a frame over leaves the row of frames as it is.
LEMMA TakeKeepsRow ==
    ASSUME TypeOK, Take
    PROVE  Taken' = Taken
<1>1. received \in Seq(Nat) /\ ring \in Seq(Nat) /\ ring # <<>>
    BY DEF TypeOK, Take
<1>2. received' = Append(received, Head(ring)) /\ ring' = Tail(ring)
    BY DEF Take
<1>3. \A r, s \in Seq(Nat) : s # <<>> => Append(r, Head(s)) \o Tail(s) = r \o s
  <2>1. SUFFICES ASSUME NEW r \in Seq(Nat), NEW s \in Seq(Nat), s # <<>>
                 PROVE  Append(r, Head(s)) \o Tail(s) = r \o s
      OBVIOUS
  <2> DEFINE before == r \o s
             after  == Append(r, Head(s)) \o Tail(s)
  <2>2. Head(s) \in Nat /\ Tail(s) \in Seq(Nat) /\ Append(r, Head(s)) \in Seq(Nat)
      BY <2>1
  <2>3. before \in Seq(Nat) /\ after \in Seq(Nat) /\ Len(after) = Len(before)
      BY <2>1, <2>2
  <2>4. ASSUME NEW i \in 1 .. Len(after)
        PROVE  after[i] = before[i]
    <3>1. CASE i <= Len(r)
        BY <2>1, <2>2, <3>1
    <3>2. CASE i = Len(r) + 1
        BY <2>1, <2>2, <3>2
    <3>3. CASE i > Len(r) + 1
        BY <2>1, <2>2, <3>3
    <3> QED BY <2>1, <3>1, <3>2, <3>3
  <2> HIDE DEF before, after
  <2>5. after = before
      BY <2>3, <2>4, SeqEqual
  <2> QED BY <2>5 DEF before, after
<1> QED BY <1>1, <1>2, <1>3 DEF Taken

\* A frame that arrives and finds a descriptor is put at the end of the row.
LEMMA ArriveExtendsRow ==
    ASSUME TypeOK, NEW n \in Nat, ring' = Append(ring, n), received' = received
    PROVE  Taken' = Append(Taken, n)
<1>1. \A r, s \in Seq(Nat) : r \o Append(s, n) = Append(r \o s, n)
  <2>1. SUFFICES ASSUME NEW r \in Seq(Nat), NEW s \in Seq(Nat)
                 PROVE  r \o Append(s, n) = Append(r \o s, n)
      OBVIOUS
  <2> DEFINE left  == r \o Append(s, n)
             right == Append(r \o s, n)
  <2>2. left \in Seq(Nat) /\ right \in Seq(Nat) /\ Len(left) = Len(right)
      BY <2>1
  <2>3. ASSUME NEW i \in 1 .. Len(left)
        PROVE  left[i] = right[i]
    <3>1. CASE i <= Len(r)
        BY <2>1, <3>1
    <3>2. CASE i > Len(r) /\ i <= Len(r) + Len(s)
        BY <2>1, <3>2
    <3>3. CASE i = Len(r) + Len(s) + 1
        BY <2>1, <3>3
    <3> QED BY <2>1, <3>1, <3>2, <3>3
  <2> HIDE DEF left, right
  <2>4. left = right
      BY <2>2, <2>3, SeqEqual
  <2> QED BY <2>4 DEF left, right
<1> QED BY <1>1 DEF TypeOK, Taken

LEMMA AccountedInit == Init => Accounted
<1>1. Init => dropped = {} /\ Len(Taken) = 0 /\ arrived = 0
    BY DEF Init, Taken
<1>2. Cardinality({}) = 0 /\ IsFiniteSet({})
    BY FS_EmptySet
<1>3. \A i \in 1 .. 0 : FALSE
    OBVIOUS
<1>4. SUFFICES ASSUME dropped = {}, Len(Taken) = 0, arrived = 0 PROVE Accounted
    BY <1>1
<1>5. dropped \subseteq 1 .. arrived /\ IsFiniteSet(dropped)
    BY <1>2, <1>4
<1>6. Len(Taken) + Cardinality(dropped) = arrived
    BY <1>2, <1>4
<1>7. /\ \A i \in 1 .. Len(Taken) : FALSE
      /\ \A i, j \in 1 .. Len(Taken) : FALSE
    BY <1>3, <1>4
<1> QED BY <1>5, <1>6, <1>7 DEF Accounted

LEMMA AccountedStep == TypeOK /\ Accounted /\ [Next]_vars => Accounted'
<1> SUFFICES ASSUME TypeOK, Accounted, [Next]_vars PROVE Accounted'
    OBVIOUS
<1>1. CASE Taken' = Taken /\ UNCHANGED <<arrived, dropped>>
    BY <1>1 DEF Accounted
<1>2. CASE Receive
  <2>1. Take /\ UNCHANGED <<arrived, dropped>>
      BY <1>2 DEF Receive
  <2> QED BY <2>1, TakeKeepsRow, <1>1
<1>3. CASE Arrive
  <2>1. arrived \in Nat /\ arrived' = arrived + 1 /\ received' = received
      BY <1>3 DEF Arrive, TypeOK, programVars
  <2>2. Taken \in Seq(Nat) /\ Len(Taken) \in Nat
      BY TakenType
  <2>3. CASE Len(ring) < NUM_RX_DESC
    <3>1. ring' = Append(ring, arrived') /\ dropped' = dropped
        BY <1>3, <2>3 DEF Arrive
    <3>2. Taken' = Append(Taken, arrived')
        BY <2>1, <3>1, ArriveExtendsRow
    <3>3. Len(Taken') = Len(Taken) + 1
        BY <2>2, <3>2
    <3>4. \A i \in 1 .. Len(Taken) : Taken'[i] = Taken[i]
        BY <2>2, <3>2
    <3>5. Taken'[Len(Taken) + 1] = arrived + 1
        BY <2>1, <2>2, <3>2
    <3>6. \A i \in 1 .. Len(Taken') : i \in 1 .. Len(Taken) \/ i = Len(Taken) + 1
        BY <2>2, <3>3
    <3>7. \A i \in 1 .. Len(Taken') : Taken'[i] \in 1 .. arrived' /\ Taken'[i] \notin dropped'
        BY <2>1, <3>1, <3>4, <3>5, <3>6 DEF Accounted
    <3>8. \A i, j \in 1 .. Len(Taken') : i < j => Taken'[i] < Taken'[j]
      <4>1. SUFFICES ASSUME NEW i \in 1 .. Len(Taken'), NEW j \in 1 .. Len(Taken'), i < j
                     PROVE  Taken'[i] < Taken'[j]
          OBVIOUS
      <4>2. i \in 1 .. Len(Taken) /\ Taken'[i] = Taken[i]
          BY <2>2, <3>3, <3>4, <4>1
      <4>3. CASE j \in 1 .. Len(Taken)
          BY <3>4, <4>1, <4>2, <4>3 DEF Accounted
      <4>4. CASE j = Len(Taken) + 1
        <5>1. Taken[i] \in 1 .. arrived
            BY <4>2 DEF Accounted
        <5> QED BY <2>1, <3>5, <4>2, <4>4, <5>1
      <4> QED BY <3>6, <4>3, <4>4
    <3>9. /\ dropped' \subseteq 1 .. arrived' /\ IsFiniteSet(dropped')
          /\ Len(Taken') + Cardinality(dropped') = arrived'
      <4>1. Cardinality(dropped) \in Nat
          BY FS_CardinalityType DEF Accounted
      <4>2. dropped' \subseteq 1 .. arrived' /\ IsFiniteSet(dropped')
          BY <2>1, <3>1 DEF Accounted
      <4>3. Len(Taken) + Cardinality(dropped) = arrived
          BY DEF Accounted
      <4>4. Len(Taken') + Cardinality(dropped') = arrived'
          BY <2>1, <2>2, <3>1, <3>3, <4>1, <4>3
      <4> QED BY <4>2, <4>4
    <3> QED BY <3>7, <3>8, <3>9 DEF Accounted
  <2>4. CASE ~(Len(ring) < NUM_RX_DESC)
    <3>1. dropped' = dropped \cup {arrived + 1} /\ ring' = ring
        BY <1>3, <2>1, <2>4 DEF Arrive
    <3>2. Taken' = Taken
        BY <2>1, <3>1 DEF Taken
    <3>3. arrived + 1 \notin dropped /\ \A i \in 1 .. Len(Taken) : Taken[i] # arrived + 1
        BY <2>1 DEF Accounted
    <3>4. IsFiniteSet(dropped') /\ Cardinality(dropped') = Cardinality(dropped) + 1
        BY <3>1, <3>3, FS_AddElement DEF Accounted
    <3>5. Cardinality(dropped) \in Nat
        BY FS_CardinalityType DEF Accounted
    <3>6. Len(Taken') + Cardinality(dropped') = arrived'
        BY <2>1, <2>2, <3>2, <3>4, <3>5 DEF Accounted
    <3>7. /\ \A i \in 1 .. Len(Taken') : Taken'[i] \in 1 .. arrived' /\ Taken'[i] \notin dropped'
          /\ dropped' \subseteq 1 .. arrived'
        BY <2>1, <3>1, <3>2, <3>3 DEF Accounted
    <3>8. \A i, j \in 1 .. Len(Taken') : i < j => Taken'[i] < Taken'[j]
        BY <3>2 DEF Accounted
    <3> QED BY <3>4, <3>6, <3>7, <3>8 DEF Accounted
  <2> QED BY <2>3, <2>4
<1>4. CASE ~Receive /\ ~Arrive
  <2>1. UNCHANGED <<received, ring, arrived, dropped>>
      BY <1>4 DEF Next, Program, Parse, StartPort, Allocate, ReceiveNothing, ReadStamp,
         PollStamp, StampTimeout, Exited, vars, programVars, cardVars
  <2> QED BY <2>1, <1>1 DEF Taken
<1> QED BY <1>2, <1>3, <1>4

\* Each frame that arrived was received, is waiting or was dropped, once and in order.
THEOREM FramesInOrder == Spec => []EachFrameOnce
<1>1. IInv => TypeOK
    BY DEF IInv
<1>2. IInv /\ Accounted => EachFrameOnce
  <2> SUFFICES ASSUME TypeOK, Accounted PROVE EachFrameOnce
      BY <1>1
  <2>1. DOMAIN Taken = 1 .. Len(Taken)
      BY TakenType
  <2> QED BY <2>1 DEF EachFrameOnce, Accounted, Taken
<1> QED BY <1>1, <1>2, InitIInv, IInvInductive, AccountedInit, AccountedStep, PTL DEF Spec

-----------------------------------------------------------------------------
(* Spaced frames carry their own stamps.                                   *)

\* Before the program listens, no frame has come.  After that, with a network that
\* leaves it time, the register is empty or holds the only frame on hand: the one in
\* the ring, or the one just received.
Owned ==
    /\ StampIsOwn
    /\ ~Looping \/ ~pit_hw => stamps = {}
    /\ ~pit_hw => pc \notin {"stamp", "poll"}
    /\ spaced /\ ~Looping => ring = <<>> /\ stamp = NoFrame
    /\ spaced /\ pc = "recv" /\ pit_hw /\ ring = <<>> => stamp = NoFrame
    /\ spaced /\ pc = "recv" /\ pit_hw /\ ring # <<>> => stamp \in {NoFrame, ring[1]}
    /\ spaced /\ pc \in {"stamp", "poll"} =>
          ring = <<>> /\ stamp \in {NoFrame, received[Len(received)]}
    /\ spaced => Len(ring) <= 1

\* Handing over the only frame of the ring.
LEMMA TakeLast ==
    ASSUME TypeOK, Take, Len(ring) <= 1
    PROVE  ring' = <<>> /\ received'[Len(received')] = ring[1]
<1>1. received \in Seq(Nat) /\ ring \in Seq(Nat) /\ ring # <<>>
    BY DEF TypeOK, Take
<1>2. received' = Append(received, Head(ring)) /\ ring' = Tail(ring)
    BY DEF Take
<1>3. Len(ring) = 1 /\ Head(ring) = ring[1] /\ Head(ring) \in Nat
  <2>1. Len(ring) \in Nat /\ Len(ring) # 0
      BY <1>1, EmptySeq
  <2> QED BY <1>1, <2>1
<1>4. Tail(ring) \in Seq(Nat) /\ Len(Tail(ring)) = 0
    BY <1>1, <1>3
<1>5. Len(received') = Len(received) + 1 /\ received'[Len(received) + 1] = Head(ring)
    BY <1>1, <1>2, <1>3
<1> QED BY <1>2, <1>3, <1>4, <1>5

LEMMA OwnedInit == Init => Owned
BY DEF Init, Owned, StampIsOwn, Looping, NoFrame

LEMMA OwnedStep == TypeOK /\ Owned /\ [Next]_vars => Owned'
<1> SUFFICES ASSUME TypeOK, Owned, [Next]_vars PROVE Owned'
    OBVIOUS
<1>1. CASE Parse \/ StartPort \/ Allocate
  <2>1. /\ pc \in {"parse", "setup", "allocate"}
        /\ pc' \in {"setup", "exited", "allocate", "recv"}
        /\ UNCHANGED <<stamps, stamp, ring, spaced>>
      BY <1>1 DEF Parse, StartPort, Allocate, cardVars
  <2>2. (stamps = {} /\ Len(ring) <= 1) \/ ~spaced
      BY <2>1 DEF Owned, Looping
  <2>3. stamps' = {}
      BY <2>1 DEF Owned, Looping
  <2>4. spaced => ring = <<>> /\ stamp = NoFrame
      BY <2>1 DEF Owned, Looping
  <2> QED BY <2>1, <2>2, <2>3, <2>4 DEF Owned, StampIsOwn
<1>2. CASE Receive
  <2>1. Take /\ pc = "recv" /\ UNCHANGED <<pit_hw, stamps, stamp, spaced>>
      BY <1>2 DEF Receive
  <2>2. pc' = (IF pit_hw THEN "stamp" ELSE "recv")
      BY <1>2 DEF Receive, WantsStamp
  <2>3. CASE spaced
    <3>1. ring' = <<>> /\ Len(ring') = 0 /\ received'[Len(received')] = ring[1]
        BY <2>1, <2>3, TakeLast DEF Owned
    <3>2. pit_hw => stamp \in {NoFrame, ring[1]}
        BY <2>1, <2>3 DEF Owned, Take
    <3> QED BY <2>1, <2>2, <2>3, <3>1, <3>2 DEF Owned, StampIsOwn, Looping
  <2>4. CASE ~spaced
      BY <2>1, <2>2, <2>4 DEF Owned, StampIsOwn, Looping
  <2> QED BY <2>3, <2>4
<1>3. CASE ReceiveNothing \/ Exited \/ UNCHANGED vars
  <2>1. UNCHANGED <<pc, pit_hw, stamps, stamp, spaced, ring, received>>
      BY <1>3 DEF ReceiveNothing, Exited, vars, programVars, cardVars
  <2> QED BY <2>1 DEF Owned, StampIsOwn, Looping
<1>4. CASE ReadStamp
    BY <1>4 DEF ReadStamp, Owned, StampIsOwn, Looping
<1>5. CASE PollStamp
    BY <1>5 DEF PollStamp, Owned, StampIsOwn, Looping, cardVars
<1>6. CASE StampTimeout
    BY <1>6 DEF StampTimeout, Owned, StampIsOwn, Looping
<1>7. CASE Arrive
  <2>1. UNCHANGED <<pc, pit_hw, stamps, spaced, received>>
      BY <1>7 DEF Arrive, programVars
  <2>2. CASE spaced
    <3>1. ring = <<>> /\ pc = "recv" /\ Len(ring) < NUM_RX_DESC
        BY <1>7, <2>2, ListenerAssumption DEF Arrive
    <3>2. ring' = Append(ring, arrived')
        BY <1>7, <3>1 DEF Arrive
    <3>3. arrived' \in Nat
        BY <1>7 DEF Arrive, TypeOK
    <3>4. Len(ring') = 1 /\ ring'[1] = arrived' /\ ring' # <<>>
        BY <3>1, <3>2, <3>3
    <3>5. pit_hw => stamp' \in {NoFrame, arrived'}
        BY <1>7, <2>2, <3>1 DEF Arrive, Owned
    <3> QED BY <2>1, <2>2, <3>1, <3>4, <3>5 DEF Owned, StampIsOwn, Looping
  <2>3. CASE ~spaced
      BY <2>1, <2>3 DEF Owned, StampIsOwn, Looping
  <2> QED BY <2>2, <2>3
<1> QED
    BY <1>1, <1>2, <1>3, <1>4, <1>5, <1>6, <1>7 DEF Next, Program

\* A stamp is printed with its own frame when the network leaves the listener time.
THEOREM SpacedStampsAreOwn == Spec => []StampIsOwn
<1>1. IInv => TypeOK
    BY DEF IInv
<1>2. Owned => StampIsOwn
    BY DEF Owned
<1> QED BY <1>1, <1>2, InitIInv, IInvInductive, OwnedInit, OwnedStep, PTL DEF Spec
=============================================================================
