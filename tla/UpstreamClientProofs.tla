------------------------- MODULE UpstreamClientProofs ------------------------
(***************************************************************************)
(* Proofs about the upstream client, for every buffer size and any number  *)
(* of messages, heartbeats and failures of the network.                    *)
(*                                                                         *)
(* The order of the packets rests on one fact: the buffer is at all times  *)
(* the run of the last messages accepted, because messages enter at one    *)
(* end and leave, sent or pushed out, at the other.  So there is a first   *)
(* message that is still buffered; nothing after it has arrived, and it    *)
(* can only have arrived over an earlier connection when a send begins.    *)
(*                                                                         *)
(* What is lost rests on an account: every message pushed out by an append *)
(* pays for one lost message.  When a message is pushed out while it is    *)
(* being sent, _flush_buffer removes another one in its place, unsent; but *)
(* then the one that was pushed out has arrived at the network, and what   *)
(* it pays for is free.  Spare is that credit.                             *)
(*                                                                         *)
(* The heartbeats rest on the same argument for the stats: what has        *)
(* arrived either ends before the last reset or starts at it, and in that  *)
(* case over an earlier connection when the next heartbeat is sent.        *)
(***************************************************************************)
EXTENDS UpstreamClient, FiniteSetTheorems, TLAPS

-----------------------------------------------------------------------------
(* The order of the packets.                                               *)

\* The first message that is in the buffer, or the next one to be accepted.
First == accepted - Len(buffer) + 1

Arrivals == [msg : Nat, conn : Nat]

OrderTypes == /\ accepted \in Nat
              /\ conn \in Nat
              /\ buffer \in Seq(Nat)
              /\ Len(buffer) <= BufferSize
              /\ cloud \in Seq(Arrivals)

BufferIsRun == \A i \in 1..Len(buffer) : buffer[i] = accepted - Len(buffer) + i

ArrivedBefore ==
    \A i \in 1..Len(cloud) : cloud[i].msg <= First /\ cloud[i].conn <= conn

\* The message being sent is, or was, at the head of the buffer.
HeadBeingSent ==
    main \in {"sending", "draining"} =>
        /\ sending \in Nat
        /\ sending <= First
        /\ Len(buffer) > 0
        /\ \A i \in 1..Len(cloud) : cloud[i].msg <= sending

\* What is about to be sent has not arrived over this connection.
NotYetOnConnection ==
    /\ main \in {"registering", "running"} =>
         \A i \in 1..Len(cloud) : cloud[i].msg = First => cloud[i].conn < conn
    /\ main = "sending" =>
         \A i \in 1..Len(cloud) : cloud[i].msg = sending => cloud[i].conn < conn

OrderInv == /\ OrderTypes /\ BufferIsRun /\ ArrivedBefore
            /\ HeadBeingSent /\ NotYetOnConnection
            /\ InOrderOncePerConnection

\* The fields of what has arrived are numbers.
LEMMA ArrivalFields ==
    ASSUME NEW s \in Seq(Arrivals)
    PROVE  \A i \in 1..Len(s) : s[i].msg \in Nat /\ s[i].conn \in Nat
<1> TAKE i \in 1..Len(s)
<1>1. s[i] \in Arrivals
  OBVIOUS
<1> QED
  BY <1>1 DEF Arrivals

\* What Append returns, element by element.
LEMMA AppendElements ==
    ASSUME NEW S, NEW s \in Seq(S), NEW e \in S
    PROVE  /\ Append(s, e) \in Seq(S)
           /\ Len(Append(s, e)) = Len(s) + 1
           /\ Append(s, e)[Len(s) + 1] = e
           /\ \A i \in 1..Len(s) : Append(s, e)[i] = s[i]
OBVIOUS

\* Appending to a run of consecutive messages gives such a run again, never
\* longer than the buffer and never empty.
LEMMA AppendKeepsRun ==
    ASSUME NEW q \in Seq(Nat), NEW n \in Nat,
           Len(q) <= BufferSize,
           \A i \in 1..Len(q) : q[i] = n - Len(q) + i
    PROVE  LET r == AppendBounded(q, n + 1)
           IN /\ r \in Seq(Nat)
              /\ Len(r) = IF Len(q) = BufferSize THEN Len(q) ELSE Len(q) + 1
              /\ \A i \in 1..Len(r) : r[i] = (n + 1) - Len(r) + i
<1> BufferSize \in Nat \ {0}
  BY UpstreamAssumption
<1>1. CASE Len(q) = BufferSize
  <2> DEFINE t == Tail(q)
  <2>1. t \in Seq(Nat) /\ Len(t) = Len(q) - 1
        /\ \A i \in 1..Len(t) : t[i] = q[i + 1]
    BY <1>1
  <2> HIDE DEF t
  <2>2. AppendBounded(q, n + 1) = Append(t, n + 1)
    BY <1>1 DEF AppendBounded, t
  <2>3. /\ Len(Append(t, n + 1)) = Len(q) /\ Append(t, n + 1) \in Seq(Nat)
        /\ Append(t, n + 1)[Len(q)] = n + 1
        /\ \A i \in 1..(Len(q) - 1) : Append(t, n + 1)[i] = q[i + 1]
    BY <2>1, AppendElements
  <2>4. \A i \in 1..Len(q) : Append(t, n + 1)[i] = (n + 1) - Len(q) + i
    <3> TAKE i \in 1..Len(q)
    <3>1. CASE i = Len(q)
      BY <2>3, <3>1
    <3>2. CASE i \in 1..(Len(q) - 1)
      <4>1. i + 1 \in 1..Len(q) /\ q[i + 1] = n - Len(q) + (i + 1)
        BY <3>2
      <4> QED
        BY <2>3, <3>2, <4>1
    <3>3. i = Len(q) \/ i \in 1..(Len(q) - 1)
      OBVIOUS
    <3> QED
      BY <3>1, <3>2, <3>3, Zenon
  <2> QED
    BY <1>1, <2>2, <2>3, <2>4
<1>2. CASE Len(q) # BufferSize
  <2> DEFINE r == Append(q, n + 1)
  <2>1. /\ r \in Seq(Nat) /\ Len(r) = Len(q) + 1 /\ r[Len(q) + 1] = n + 1
        /\ \A i \in 1..Len(q) : r[i] = q[i]
    BY AppendElements
  <2>2. AppendBounded(q, n + 1) = r
    BY <1>2 DEF AppendBounded
  <2> HIDE DEF r
  <2>3. \A i \in 1..Len(r) : r[i] = (n + 1) - Len(r) + i
    <3> TAKE i \in 1..Len(r)
    <3>1. CASE i = Len(r)
      BY <2>1, <3>1
    <3>2. CASE i \in 1..Len(q)
      BY <2>1, <3>2
    <3> QED
      BY <2>1, <3>1, <3>2
  <2> QED
    BY <1>2, <2>1, <2>2, <2>3
<1> QED
  BY <1>1, <1>2

\* The initial state satisfies the invariant.
LEMMA OrderInitial == Init => OrderInv
BY UpstreamAssumption
   DEF Init, OrderInv, OrderTypes, BufferIsRun, ArrivedBefore, HeadBeingSent,
       NotYetOnConnection, InOrderOncePerConnection, First

\* Accepting a packet keeps the invariant, whether or not it pushes one out.
LEMMA SendPacketKeepsOrder == OrderInv /\ SendPacket => OrderInv'
<1> SUFFICES ASSUME OrderInv, SendPacket PROVE OrderInv'
  OBVIOUS
<1>1. /\ accepted' = accepted + 1
      /\ buffer' = AppendBounded(buffer, accepted + 1)
      /\ UNCHANGED <<sending, cloud, main, conn>>
  BY DEF SendPacket, taskVars, networkVars
<1>2. /\ buffer' \in Seq(Nat)
      /\ Len(buffer') = IF Len(buffer) = BufferSize THEN Len(buffer) ELSE Len(buffer) + 1
      /\ BufferIsRun'
  BY <1>1, AppendKeepsRun DEF OrderInv, OrderTypes, BufferIsRun
<1>3. OrderTypes'
  BY <1>1, <1>2, UpstreamAssumption DEF OrderInv, OrderTypes
<1>4. First \in Int /\ First' \in Int /\ First <= First' /\ Len(buffer') > 0
  BY <1>1, <1>2, UpstreamAssumption DEF First, OrderInv, OrderTypes
<1>5. \A i \in 1..Len(cloud) : cloud[i].msg \in Nat /\ cloud[i].conn \in Nat
  BY ArrivalFields DEF OrderInv, OrderTypes
<1>6. ArrivedBefore'
  BY <1>1, <1>4, <1>5 DEF OrderInv, ArrivedBefore
<1>7. HeadBeingSent'
  BY <1>1, <1>4, <1>5 DEF OrderInv, HeadBeingSent
<1>8. NotYetOnConnection'
  BY <1>1, <1>4, <1>5 DEF OrderInv, NotYetOnConnection, ArrivedBefore
<1>9. InOrderOncePerConnection'
  BY <1>1 DEF OrderInv, InOrderOncePerConnection
<1> QED
  BY <1>2, <1>3, <1>6, <1>7, <1>8, <1>9 DEF OrderInv

\* Writing the message being sent keeps the invariant.
LEMMA WriteKeepsOrder == OrderInv /\ Write => OrderInv'
<1> SUFFICES ASSUME OrderInv, Write PROVE OrderInv'
  OBVIOUS
<1>1. /\ main = "sending" /\ main' = "draining"
      /\ UNCHANGED <<buffer, sending, accepted, conn>>
  BY DEF Write, networkVars
<1>2. /\ sending \in Nat /\ sending <= First /\ Len(buffer) > 0 /\ First' = First
      /\ \A i \in 1..Len(cloud) : cloud[i] \in Arrivals /\ cloud[i].msg <= sending
      /\ \A i \in 1..Len(cloud) : cloud[i].conn <= conn
      /\ \A i \in 1..Len(cloud) : cloud[i].msg = sending => cloud[i].conn < conn
      /\ cloud \in Seq(Arrivals) /\ conn \in Nat
  BY <1>1 DEF OrderInv, OrderTypes, HeadBeingSent, NotYetOnConnection,
              ArrivedBefore, First
<1> DEFINE arrival == [msg |-> sending, conn |-> conn]
<1>3. CASE ws = "open"
  <2>1. cloud' = Append(cloud, arrival)
    BY <1>3 DEF Write
  <2>2. arrival \in Arrivals /\ arrival.msg = sending /\ arrival.conn = conn
    BY <1>2 DEF Arrivals
  <2> HIDE DEF arrival
  <2>3. /\ cloud' \in Seq(Arrivals) /\ Len(cloud') = Len(cloud) + 1
        /\ cloud'[Len(cloud) + 1] = arrival
        /\ \A i \in 1..Len(cloud) : cloud'[i] = cloud[i]
    BY <1>2, <2>1, <2>2
  <2>4. \A i \in 1..Len(cloud') :
            cloud'[i].msg <= sending /\ cloud'[i].conn <= conn
    <3> TAKE i \in 1..Len(cloud')
    <3>1. CASE i \in 1..Len(cloud)
      BY <1>2, <2>3, <3>1
    <3>2. CASE i = Len(cloud) + 1
      BY <1>2, <2>2, <2>3, <3>2
    <3> QED
      BY <1>2, <2>3, <3>1, <3>2
  <2>5. InOrderOncePerConnection'
    <3> SUFFICES ASSUME NEW i \in 1..Len(cloud'), NEW j \in 1..Len(cloud'), i < j
                 PROVE  \/ cloud'[i].msg < cloud'[j].msg
                        \/ cloud'[i].msg = cloud'[j].msg
                           /\ cloud'[i].conn < cloud'[j].conn
      BY DEF InOrderOncePerConnection
    <3>1. i \in 1..Len(cloud) /\ cloud'[i] = cloud[i]
      BY <1>2, <2>3
    <3>2. CASE j \in 1..Len(cloud)
      BY <2>3, <3>1, <3>2 DEF OrderInv, InOrderOncePerConnection
    <3>3. CASE j = Len(cloud) + 1
      <4>1. cloud'[j].msg = sending /\ cloud'[j].conn = conn
        BY <2>2, <2>3, <3>3
      <4> QED
        BY <1>2, <3>1, <4>1 DEF Arrivals
    <3> QED
      BY <1>2, <2>3, <3>2, <3>3
  <2>6. OrderTypes' /\ BufferIsRun'
    BY <1>1, <2>3 DEF OrderInv, OrderTypes, BufferIsRun
  <2>7. ArrivedBefore'
    <3> SUFFICES ASSUME NEW i \in 1..Len(cloud')
                 PROVE  cloud'[i].msg <= First' /\ cloud'[i].conn <= conn'
      BY DEF ArrivedBefore
    <3>1. First \in Int /\ cloud'[i].msg \in Nat
      BY <2>3, ArrivalFields DEF First, OrderInv, OrderTypes
    <3> QED
      BY <1>1, <1>2, <2>4, <3>1
  <2>8. HeadBeingSent' /\ NotYetOnConnection'
    BY <1>1, <1>2, <2>4 DEF HeadBeingSent, NotYetOnConnection
  <2> QED
    BY <2>5, <2>6, <2>7, <2>8 DEF OrderInv
<1>4. CASE ws # "open"
  <2>1. cloud' = cloud
    BY <1>4 DEF Write
  <2> QED
    BY <1>1, <1>2, <2>1
       DEF OrderInv, OrderTypes, BufferIsRun, ArrivedBefore, HeadBeingSent,
           NotYetOnConnection, InOrderOncePerConnection
<1> QED
  BY <1>3, <1>4

\* Removing the head of the buffer after a send keeps the invariant.
LEMMA SentKeepsOrder == OrderInv /\ Sent => OrderInv'
<1> SUFFICES ASSUME OrderInv, Sent PROVE OrderInv'
  OBVIOUS
<1>1. /\ main = "draining" /\ main' = "running" /\ buffer' = Tail(buffer)
      /\ UNCHANGED <<accepted, cloud, conn>>
  BY DEF Sent, networkVars
<1>2. /\ Len(buffer) > 0 /\ sending \in Nat /\ sending <= First
      /\ \A i \in 1..Len(cloud) : cloud[i].msg <= sending
  BY <1>1 DEF OrderInv, HeadBeingSent
<1>3. /\ buffer' \in Seq(Nat) /\ Len(buffer') = Len(buffer) - 1
      /\ \A i \in 1..Len(buffer') : buffer'[i] = buffer[i + 1]
  BY <1>1, <1>2 DEF OrderInv, OrderTypes
<1>4. OrderTypes'
  BY <1>1, <1>3, UpstreamAssumption DEF OrderInv, OrderTypes
<1>5. BufferIsRun'
  BY <1>1, <1>2, <1>3 DEF OrderInv, OrderTypes, BufferIsRun
<1>6. First \in Int /\ First' = First + 1
  BY <1>1, <1>3 DEF First, OrderInv, OrderTypes
<1>7. \A i \in 1..Len(cloud) : cloud[i].msg \in Nat /\ cloud[i].msg < First'
  BY <1>2, <1>6, ArrivalFields DEF OrderInv, OrderTypes
<1>8. ArrivedBefore' /\ NotYetOnConnection'
  BY <1>1, <1>6, <1>7 DEF OrderInv, ArrivedBefore, NotYetOnConnection
<1>9. HeadBeingSent' /\ InOrderOncePerConnection'
  BY <1>1 DEF OrderInv, HeadBeingSent, InOrderOncePerConnection
<1> QED
  BY <1>4, <1>5, <1>8, <1>9 DEF OrderInv

\* Beginning a send keeps the invariant.
LEMMA BeginSendKeepsOrder == OrderInv /\ BeginSend => OrderInv'
<1> SUFFICES ASSUME OrderInv, BeginSend PROVE OrderInv'
  OBVIOUS
<1>1. /\ main = "running" /\ main' = "sending" /\ buffer # <<>>
      /\ sending' = Head(buffer)
      /\ UNCHANGED <<buffer, accepted, cloud, conn>>
  BY DEF BeginSend, networkVars
<1>2. Len(buffer) > 0 /\ Head(buffer) = First /\ First \in Nat
  BY <1>1 DEF First, OrderInv, OrderTypes, BufferIsRun
<1>3. First' = First
  BY <1>1 DEF First
<1>4. HeadBeingSent' /\ NotYetOnConnection'
  BY <1>1, <1>2, <1>3
     DEF OrderInv, ArrivedBefore, HeadBeingSent, NotYetOnConnection
<1> QED
  BY <1>1, <1>3, <1>4
     DEF OrderInv, OrderTypes, BufferIsRun, ArrivedBefore, InOrderOncePerConnection

\* A new connection: everything that has arrived came over an earlier one.
LEMMA ConnectKeepsOrder == OrderInv /\ Connect => OrderInv'
<1> SUFFICES ASSUME OrderInv, Connect PROVE OrderInv'
  OBVIOUS
<1>1. /\ main' = "registering" /\ conn' = conn + 1
      /\ UNCHANGED <<buffer, sending, accepted, cloud>>
  BY DEF Connect, bufferVars
<1>2. /\ First' = First /\ conn \in Nat
      /\ \A i \in 1..Len(cloud) : cloud[i].conn \in Nat /\ cloud[i].conn <= conn
  BY <1>1, ArrivalFields DEF First, OrderInv, OrderTypes, ArrivedBefore
<1> QED
  BY <1>1, <1>2
     DEF OrderInv, OrderTypes, BufferIsRun, ArrivedBefore, HeadBeingSent,
         NotYetOnConnection, InOrderOncePerConnection

\* The connection task moves to a place where nothing is being sent: leaving
\* the loop, or entering it from the registration.
LEMMA MoveKeepsOrder ==
    ASSUME OrderInv,
           UNCHANGED <<buffer, accepted, cloud, conn>>,
           \/ main' \in {"connecting", "backoff", "ended"}
           \/ main = "registering" /\ main' = "running"
    PROVE  OrderInv'
<1>1. First' = First
  BY DEF First
<1>2. HeadBeingSent' /\ NotYetOnConnection'
  BY <1>1 DEF OrderInv, HeadBeingSent, NotYetOnConnection
<1> QED
  BY <1>1, <1>2
     DEF OrderInv, OrderTypes, BufferIsRun, ArrivedBefore, InOrderOncePerConnection

\* A step that leaves the connection task, the buffer and the arrivals alone.
LEMMA OtherKeepsOrder ==
    ASSUME OrderInv, UNCHANGED <<main, buffer, sending, accepted, cloud, conn>>
    PROVE  OrderInv'
BY DEF OrderInv, OrderTypes, BufferIsRun, ArrivedBefore, HeadBeingSent,
       NotYetOnConnection, InOrderOncePerConnection, First

\* Every step of the program and every stuttering step keeps the invariant.
LEMMA OrderStep == OrderInv /\ [Next]_vars => OrderInv'
<1> SUFFICES ASSUME OrderInv, [Next]_vars PROVE OrderInv'
  OBVIOUS
<1>1. CASE SendPacket
  BY <1>1, SendPacketKeepsOrder
<1>2. CASE Connect \/ BeginSend \/ Write \/ Sent
  BY <1>2, ConnectKeepsOrder, BeginSendKeepsOrder, WriteKeepsOrder, SentKeepsOrder
<1>3. CASE Start \/ ConnectFails
  <2>1. main' \in {"connecting", "backoff"}
        /\ UNCHANGED <<buffer, accepted, cloud, conn>>
    BY <1>3 DEF Start, ConnectFails, bufferVars, networkVars
  <2> QED
    BY <2>1, MoveKeepsOrder
<1>4. CASE Registered
  <2>1. main = "registering" /\ main' = "running"
        /\ UNCHANGED <<buffer, accepted, cloud, conn>>
    BY <1>4 DEF Registered, bufferVars, networkVars
  <2> QED
    BY <2>1, MoveKeepsOrder
<1>5. CASE CloseRaises \/ StopCancels
  <2>1. main' \in {"backoff", "ended"}
        /\ UNCHANGED <<buffer, accepted, cloud, conn>>
    BY <1>5 DEF CloseRaises, StopCancels, networkVars
  <2> QED
    BY <2>1, MoveKeepsOrder
<1>6. CASE LoopEnds \/ BackoffEnds
  <2>1. main' \in {"connecting", "ended"}
        /\ UNCHANGED <<buffer, accepted, cloud, conn>>
    BY <1>6 DEF LoopEnds, BackoffEnds, bufferVars, networkVars
  <2> QED
    BY <2>1, MoveKeepsOrder
<1>7. CASE RecordPacket \/ HeartTask
  <2>1. UNCHANGED <<main, buffer, sending, accepted, cloud, conn>>
    BY <1>7 DEF RecordPacket, HeartTask, BuildHeartbeat, WriteHeartbeat,
                HeartbeatSent, HeartbeatFails, taskVars, bufferVars, networkVars
  <2> QED
    BY <2>1, OtherKeepsOrder
<1>8. CASE Stop \/ Closes \/ LinkDies \/ PingTimesOut
  <2>1. UNCHANGED <<main, buffer, sending, accepted, cloud, conn>>
    BY <1>8 DEF Stop, Closes, LinkDies, PingTimesOut, taskVars, bufferVars
  <2> QED
    BY <2>1, OtherKeepsOrder
<1>9. CASE UNCHANGED vars
  BY <1>9, OtherKeepsOrder DEF vars
<1> QED
  BY <1>1, <1>2, <1>3, <1>4, <1>5, <1>6, <1>7, <1>8, <1>9
     DEF Next, Pipeline, MainTask, Network

\* However appends, sends, failures and reconnections interleave, the cloud
\* receives the packets in the order they were queued, and one of them twice
\* only over two connections.
THEOREM PacketsInOrder == Spec => []InOrderOncePerConnection
<1>1. OrderInv => InOrderOncePerConnection
  BY DEF OrderInv
<1> QED
  BY <1>1, OrderInitial, OrderStep, PTL DEF Spec

-----------------------------------------------------------------------------
(* What the buffer loses.                                                  *)

\* The messages that left the buffer and were never written.
Lost == (1..(First - 1)) \ written

\* The message being sent was pushed out by an append and yet written: the one
\* that is removed in its place, when the send returns, is lost unaccounted
\* for.
Spare == main \in {"sending", "draining"} /\ sending < First /\ sending \in written

LossInv ==
    /\ Len(buffer) <= accepted
    /\ evicted \subseteq 1..(First - 1)
    /\ main \in {"sending", "draining"} => sending >= 1
    /\ main = "draining" => sending \in written
    /\ Cardinality(Lost) + (IF Spare THEN 1 ELSE 0) <= Cardinality(evicted)

\* What OrderInv says of the numbers that the account speaks of.
LEMMA LossTypes ==
    ASSUME OrderInv, LossInv
    PROVE  /\ accepted \in Nat /\ Len(buffer) \in Nat /\ First \in Nat \ {0}
           /\ First = accepted - Len(buffer) + 1
           /\ IsFiniteSet(Lost) /\ Cardinality(Lost) \in Nat
           /\ IsFiniteSet(evicted) /\ Cardinality(evicted) \in Nat
<1>1. /\ accepted \in Nat /\ Len(buffer) \in Nat /\ First \in Nat \ {0}
      /\ First = accepted - Len(buffer) + 1
  BY DEF OrderInv, OrderTypes, LossInv, First
<1>2. IsFiniteSet(1..(First - 1))
  BY <1>1, FS_Interval
<1>3. evicted \in SUBSET (1..(First - 1)) /\ Lost \in SUBSET (1..(First - 1))
  BY DEF LossInv, Lost
<1>4. IsFiniteSet(Lost) /\ IsFiniteSet(evicted)
  BY <1>2, <1>3, FS_Subset
<1> QED
  BY <1>1, <1>4, FS_CardinalityType

\* The next message leaves the buffer: it is lost unless it was written.
LEMMA LeavesBuffer ==
    ASSUME NEW n \in Nat \ {0}, NEW W, IsFiniteSet((1..(n - 1)) \ W)
    PROVE  Cardinality((1..n) \ W) =
             IF n \in W THEN Cardinality((1..(n - 1)) \ W)
                        ELSE Cardinality((1..(n - 1)) \ W) + 1
<1> DEFINE A == (1..(n - 1)) \ W
<1>1. CASE n \in W
  <2>1. (1..n) \ W = A
    BY <1>1
  <2> QED
    BY <1>1, <2>1
<1>2. CASE n \notin W
  <2>1. (1..n) \ W = A \cup {n} /\ n \notin A
    BY <1>2
  <2> HIDE DEF A
  <2>2. Cardinality(A \cup {n}) = Cardinality(A) + 1
    BY <2>1, FS_AddElement DEF A
  <2> QED
    BY <1>2, <2>1, <2>2 DEF A
<1> QED
  BY <1>1, <1>2

\* Accepting a packet keeps the account: the message it pushes out is evicted,
\* and lost unless it was written.
LEMMA SendPacketKeepsLoss == OrderInv /\ LossInv /\ SendPacket => LossInv'
<1> SUFFICES ASSUME OrderInv, LossInv, SendPacket PROVE LossInv'
  OBVIOUS
<1>1. /\ accepted' = accepted + 1
      /\ buffer' = AppendBounded(buffer, accepted + 1)
      /\ evicted' = IF Len(buffer) = BufferSize
                    THEN evicted \cup {Head(buffer)} ELSE evicted
      /\ UNCHANGED <<sending, written, main>>
  BY DEF SendPacket, taskVars
<1>2. Len(buffer') = IF Len(buffer) = BufferSize THEN Len(buffer) ELSE Len(buffer) + 1
  BY <1>1, AppendKeepsRun DEF OrderInv, OrderTypes, BufferIsRun
<1>3. /\ accepted \in Nat /\ Len(buffer) \in Nat /\ First \in Nat \ {0}
      /\ IsFiniteSet(Lost) /\ Cardinality(Lost) \in Nat
      /\ IsFiniteSet(evicted) /\ Cardinality(evicted) \in Nat
      /\ First = accepted - Len(buffer) + 1
  BY LossTypes
<1>4. main \in {"sending", "draining"} => sending \in Nat /\ sending <= First
  BY DEF OrderInv, HeadBeingSent
<1>5. CASE Len(buffer) = BufferSize
  <2>1. First' = First + 1 /\ Head(buffer) = First
    <3>1. First' = accepted' - Len(buffer') + 1
      BY DEF First
    <3>2. First' = First + 1
      BY <1>1, <1>2, <1>3, <1>5, <3>1
    <3>3. 1 \in 1..Len(buffer) /\ buffer \in Seq(Nat)
      BY <1>5, UpstreamAssumption DEF OrderInv, OrderTypes
    <3>4. Head(buffer) = buffer[1] /\ buffer[1] = accepted - Len(buffer) + 1
      BY <3>3 DEF OrderInv, BufferIsRun
    <3> QED
      BY <1>3, <3>2, <3>4
  <2>2. evicted' = evicted \cup {First} /\ First \notin evicted
    BY <1>1, <1>3, <1>5, <2>1 DEF LossInv
  <2>3. Cardinality(evicted') = Cardinality(evicted) + 1
    BY <1>3, <2>2, FS_AddElement
  <2>4. Lost' = (1..First) \ written
    BY <1>1, <1>3, <2>1 DEF Lost
  <2>5. Cardinality(Lost') = IF First \in written THEN Cardinality(Lost)
                             ELSE Cardinality(Lost) + 1
    BY <1>3, <2>4, LeavesBuffer DEF Lost
  <2>6. Spare' => Spare \/ First \in written
    BY <1>1, <1>3, <1>4, <2>1 DEF Spare
  <2>7. Cardinality(Lost') + (IF Spare' THEN 1 ELSE 0) <= Cardinality(evicted')
    BY <1>3, <2>3, <2>5, <2>6 DEF LossInv
  <2>8. evicted' \subseteq 1..(First' - 1) /\ Len(buffer') <= accepted'
    <3>1. First' - 1 = First /\ First \in 1..First
      BY <1>3, <2>1
    <3>2. evicted' \subseteq 1..(First' - 1)
      <4> SUFFICES ASSUME NEW m \in evicted' PROVE m \in 1..First
        BY <3>1
      <4>1. CASE m \in evicted
        BY <1>3, <4>1 DEF LossInv
      <4> QED
        BY <2>2, <3>1, <4>1
    <3>3. Len(buffer') <= accepted'
      BY <1>1, <1>2, <1>3, <1>5 DEF LossInv
    <3> QED
      BY <3>2, <3>3
  <2> QED
    BY <1>1, <2>7, <2>8 DEF LossInv
<1>6. CASE Len(buffer) # BufferSize
  <2>1. First' = First /\ Len(buffer') <= accepted' /\ evicted' = evicted
    BY <1>1, <1>2, <1>3, <1>6 DEF First, LossInv
  <2>2. Lost' = Lost /\ Spare' = Spare
    BY <1>1, <2>1 DEF Lost, Spare
  <2> QED
    BY <1>1, <2>1, <2>2 DEF LossInv
<1> QED
  BY <1>5, <1>6

\* Writing the message being sent keeps the account: if it has been pushed out
\* and was lost, it is lost no more.
LEMMA WriteKeepsLoss == OrderInv /\ LossInv /\ Write => LossInv'
<1> SUFFICES ASSUME OrderInv, LossInv, Write PROVE LossInv'
  OBVIOUS
<1>1. /\ main = "sending" /\ main' = "draining" /\ written' = written \cup {sending}
      /\ UNCHANGED <<buffer, sending, accepted, evicted>>
  BY DEF Write
<1>2. /\ First \in Nat \ {0} /\ First' = First
      /\ IsFiniteSet(Lost) /\ Cardinality(Lost) \in Nat
      /\ sending \in Nat /\ sending >= 1 /\ sending <= First
  BY <1>1, LossTypes DEF First, OrderInv, HeadBeingSent, LossInv
<1>3. Lost' = Lost \ {sending}
  BY <1>1, <1>2 DEF Lost
<1>4. Cardinality(Lost') = IF sending \in Lost THEN Cardinality(Lost) - 1
                           ELSE Cardinality(Lost)
  BY <1>2, <1>3, FS_RemoveElement
<1>5. Spare' <=> sending < First
  BY <1>1, <1>2 DEF Spare
<1>6. sending < First => sending \in Lost \/ Spare
  BY <1>1, <1>2 DEF Lost, Spare
<1>7. Cardinality(evicted) \in Nat
  BY LossTypes
<1>8. Cardinality(Lost') + (IF Spare' THEN 1 ELSE 0) <= Cardinality(evicted')
  BY <1>1, <1>2, <1>4, <1>5, <1>6, <1>7 DEF LossInv
<1> QED
  BY <1>1, <1>2, <1>8 DEF LossInv

\* Removing the head of the buffer keeps the account: it is the message that
\* was written, or the one that was pushed out stands for it.
LEMMA SentKeepsLoss == OrderInv /\ LossInv /\ Sent => LossInv'
<1> SUFFICES ASSUME OrderInv, LossInv, Sent PROVE LossInv'
  OBVIOUS
<1>1. /\ main = "draining" /\ main' = "running" /\ buffer' = Tail(buffer)
      /\ UNCHANGED <<accepted, evicted, written>>
  BY DEF Sent
<1>2. Len(buffer') = Len(buffer) - 1 /\ sending \in Nat /\ sending <= First
  BY <1>1 DEF OrderInv, OrderTypes, HeadBeingSent
<1>3. /\ accepted \in Nat /\ Len(buffer) \in Nat /\ First \in Nat \ {0}
      /\ IsFiniteSet(Lost) /\ Cardinality(Lost) \in Nat
      /\ Cardinality(evicted) \in Nat
      /\ First = accepted - Len(buffer) + 1
  BY LossTypes
<1>4. First' = First + 1
  <2>1. First' = accepted' - Len(buffer') + 1
    BY DEF First
  <2> QED
    BY <1>1, <1>2, <1>3, <2>1
<1>5. Lost' = (1..First) \ written
  BY <1>1, <1>3, <1>4 DEF Lost
<1>6. Cardinality(Lost') = IF First \in written THEN Cardinality(Lost)
                           ELSE Cardinality(Lost) + 1
  BY <1>3, <1>5, LeavesBuffer DEF Lost
<1>7. First \in written \/ Spare
  BY <1>1, <1>2, <1>3 DEF LossInv, Spare
<1>8. ~Spare'
  BY <1>1 DEF Spare
<1>9. Cardinality(Lost') + (IF Spare' THEN 1 ELSE 0) <= Cardinality(evicted')
  BY <1>1, <1>3, <1>6, <1>7, <1>8 DEF LossInv
<1> QED
  BY <1>1, <1>2, <1>3, <1>4, <1>9 DEF LossInv

\* Beginning a send keeps the account.
LEMMA BeginSendKeepsLoss == OrderInv /\ LossInv /\ BeginSend => LossInv'
<1> SUFFICES ASSUME OrderInv, LossInv, BeginSend PROVE LossInv'
  OBVIOUS
<1>1. /\ main = "running" /\ main' = "sending" /\ buffer # <<>>
      /\ sending' = Head(buffer)
      /\ UNCHANGED <<buffer, accepted, evicted, written>>
  BY DEF BeginSend
<1>2. First \in Nat \ {0} /\ First' = First
  BY <1>1, LossTypes DEF First
<1>3. sending' = First
  BY <1>1 DEF First, OrderInv, OrderTypes, BufferIsRun
<1>4. ~Spare /\ ~Spare' /\ Lost' = Lost
  BY <1>1, <1>2, <1>3 DEF Spare, Lost
<1> QED
  BY <1>1, <1>2, <1>3, <1>4 DEF LossInv

\* The connection task leaves a place where it sends, or does not enter one.
LEMMA MoveKeepsLoss ==
    ASSUME OrderInv, LossInv,
           UNCHANGED <<buffer, accepted, evicted, written>>,
           main' \notin {"sending", "draining"}
    PROVE  LossInv'
<1>1. First' = First /\ Lost' = Lost /\ ~Spare'
  BY DEF First, Lost, Spare
<1>2. Cardinality(Lost) \in Nat /\ Cardinality(evicted) \in Nat
  BY LossTypes
<1>3. Cardinality(Lost) <= Cardinality(evicted)
  BY <1>2 DEF LossInv
<1> QED
  BY <1>1, <1>2, <1>3 DEF LossInv

\* A step that leaves the buffer, what is sent and the connection task alone.
LEMMA OtherKeepsLoss ==
    ASSUME LossInv, UNCHANGED <<main, buffer, sending, accepted, written, evicted>>
    PROVE  LossInv'
BY DEF LossInv, Lost, Spare, First

\* Every step of the program and every stuttering step keeps the account.
LEMMA LossStep == OrderInv /\ LossInv /\ [Next]_vars => LossInv'
<1> SUFFICES ASSUME OrderInv, LossInv, [Next]_vars PROVE LossInv'
  OBVIOUS
<1>1. CASE SendPacket
  BY <1>1, SendPacketKeepsLoss
<1>2. CASE BeginSend \/ Write \/ Sent
  BY <1>2, BeginSendKeepsLoss, WriteKeepsLoss, SentKeepsLoss
<1>3. CASE Start \/ Connect \/ ConnectFails \/ Registered \/ BackoffEnds
  <2>1. main' \notin {"sending", "draining"}
        /\ UNCHANGED <<buffer, accepted, evicted, written>>
    BY <1>3 DEF Start, Connect, ConnectFails, Registered, BackoffEnds, bufferVars
  <2> QED
    BY <2>1, MoveKeepsLoss
<1>4. CASE CloseRaises \/ StopCancels \/ LoopEnds
  <2>1. main' \notin {"sending", "draining"}
        /\ UNCHANGED <<buffer, accepted, evicted, written>>
    BY <1>4 DEF CloseRaises, StopCancels, LoopEnds, bufferVars
  <2> QED
    BY <2>1, MoveKeepsLoss
<1>5. CASE RecordPacket \/ HeartTask
  <2>1. UNCHANGED <<main, buffer, sending, accepted, written, evicted>>
    BY <1>5 DEF RecordPacket, HeartTask, BuildHeartbeat, WriteHeartbeat,
                HeartbeatSent, HeartbeatFails, taskVars, bufferVars
  <2> QED
    BY <2>1, OtherKeepsLoss
<1>6. CASE Stop \/ Closes \/ LinkDies \/ PingTimesOut
  <2>1. UNCHANGED <<main, buffer, sending, accepted, written, evicted>>
    BY <1>6 DEF Stop, Closes, LinkDies, PingTimesOut, taskVars, bufferVars
  <2> QED
    BY <2>1, OtherKeepsLoss
<1>7. CASE UNCHANGED vars
  BY <1>7, OtherKeepsLoss DEF vars
<1> QED
  BY <1>1, <1>2, <1>3, <1>4, <1>5, <1>6, <1>7
     DEF Next, Pipeline, MainTask, Network

\* OrderInv and the account hold in every state the client reaches.
LEMMA LossInvariance == Spec => [](OrderInv /\ LossInv)
<1>1. Init => LossInv
  <2>1. Init => First = 1 /\ Lost = {} /\ ~Spare
    BY DEF Init, First, Lost, Spare
  <2> QED
    BY <2>1, FS_EmptySet DEF Init, LossInv
<1> QED
  BY <1>1, OrderInitial, OrderStep, LossStep, PTL DEF Spec

\* However appends, sends and reconnections interleave, no more packets are
\* lost than overflowed the buffer: the one that is removed in the place of a
\* message that was pushed out while it was sent is made up for by that one,
\* which arrived.
THEOREM LossBounded == Spec => []LossIsOverflow
<1>1. OrderInv /\ LossInv => LossIsOverflow
  <2> SUFFICES ASSUME OrderInv, LossInv PROVE LossIsOverflow
    OBVIOUS
  <2>1. /\ accepted \in Nat /\ Len(buffer) \in Nat /\ First \in Nat \ {0}
        /\ First = accepted - Len(buffer) + 1
        /\ Cardinality(Lost) \in Nat /\ Cardinality(evicted) \in Nat
    BY LossTypes
  <2>2. \A m \in Accepted : m \in Buffered <=> m >= First
    <3> SUFFICES ASSUME NEW m \in 1..accepted PROVE m \in Buffered <=> m >= First
      BY DEF Accepted
    <3>1. ASSUME m >= First PROVE m \in Buffered
      <4>1. m - First + 1 \in 1..Len(buffer)
        BY <2>1, <3>1
      <4>2. buffer[m - First + 1] = m
        BY <2>1, <4>1 DEF OrderInv, BufferIsRun
      <4> QED
        BY <4>1, <4>2 DEF Buffered, ElementsOf
    <3>2. ASSUME NEW i \in 1..Len(buffer), buffer[i] = m PROVE m >= First
      BY <2>1, <3>2 DEF OrderInv, BufferIsRun
    <3> QED
      BY <3>1, <3>2 DEF Buffered, ElementsOf
  <2>3. Accepted \ (Buffered \cup written) = Lost
    BY <2>1, <2>2 DEF Accepted, Lost
  <2>4. Cardinality(Lost) <= Cardinality(evicted)
    BY <2>1 DEF LossInv
  <2> QED
    BY <2>3, <2>4 DEF LossIsOverflow
<1> QED
  BY <1>1, LossInvariance, PTL

-----------------------------------------------------------------------------
(* The tasks.                                                              *)

InLoop == main \in {"running", "sending", "draining"}

\* The heartbeat task lives no longer than the loop of the connection that
\* started it, and in that loop the client is connected.
TaskInv == /\ heart # "none" => InLoop
           /\ InLoop \/ main = "registering" => connected

\* Every step of the program and every stuttering step keeps the invariant.
LEMMA TaskStep == TaskInv /\ [Next]_vars => TaskInv'
<1> SUFFICES ASSUME TaskInv, [Next]_vars PROVE TaskInv'
  OBVIOUS
<1>1. CASE Start \/ Connect \/ ConnectFails \/ BackoffEnds
  BY <1>1 DEF Start, Connect, ConnectFails, BackoffEnds, heartVars, TaskInv, InLoop
<1>2. CASE Registered \/ BeginSend \/ Write \/ Sent
  BY <1>2 DEF Registered, BeginSend, Write, Sent, heartVars, TaskInv, InLoop
<1>3. CASE CloseRaises \/ LoopEnds \/ StopCancels
  BY <1>3 DEF CloseRaises, LoopEnds, StopCancels, TaskInv, InLoop
<1>4. CASE HeartTask
  BY <1>4 DEF HeartTask, BuildHeartbeat, WriteHeartbeat, HeartbeatSent,
              HeartbeatFails, taskVars, TaskInv, InLoop
<1>5. CASE Pipeline \/ Stop \/ Closes \/ LinkDies \/ PingTimesOut
  BY <1>5 DEF Pipeline, SendPacket, RecordPacket, Stop, Closes, LinkDies,
              PingTimesOut, taskVars, heartVars, TaskInv, InLoop
<1>6. CASE UNCHANGED vars
  BY <1>6 DEF vars, TaskInv, InLoop
<1> QED
  BY <1>1, <1>2, <1>3, <1>4, <1>5, <1>6 DEF Next, MainTask, Network

\* TaskInv holds in every state the client reaches.
LEMMA TaskInvariance == Spec => []TaskInv
<1>1. Init => TaskInv
  BY DEF Init, TaskInv, InLoop
<1> QED
  BY <1>1, TaskStep, PTL DEF Spec

\* No task is ever about to send when the client is not connected, so the
\* silent return of _send drops no message and resets no stats.
THEOREM NoSilentDrop == Spec => []NeverSentUnconnected
<1>1. TaskInv => NeverSentUnconnected
  BY DEF TaskInv, InLoop, NeverSentUnconnected
<1> QED
  BY <1>1, TaskInvariance, PTL

-----------------------------------------------------------------------------
(* The heartbeats.                                                         *)

Beats == [from : Nat, to : Nat, conn : Nat]

HeartTypes == /\ base \in Nat
              /\ recorded \in Nat
              /\ base <= recorded
              /\ conn \in Nat
              /\ reports \in Seq(Beats)

\* What has arrived ends before the last reset, or starts at it.
BeatsBefore ==
    \A i \in 1..Len(reports) :
        /\ reports[i].to <= recorded
        /\ reports[i].conn <= conn
        /\ reports[i].to <= base \/ reports[i].from = base

\* In the second case it came over an earlier connection, when the task is
\* about to build or to send a heartbeat.
BeatNotYetOnConnection ==
    (main = "registering" \/ heart \in {"sleeping", "sending"}) =>
        \A i \in 1..Len(reports) :
            reports[i].to <= base \/ reports[i].conn < conn

\* The heartbeat being sent covers the packets since the last reset.
BeatBeingSent ==
    heart \in {"sending", "draining"} =>
        /\ report.from = base
        /\ report.to \in Nat
        /\ report.to <= recorded

HeartInv == /\ HeartTypes /\ BeatsBefore /\ BeatNotYetOnConnection
            /\ BeatBeingSent /\ HeartbeatsDisjointOrRepeated

\* The fields of the heartbeats that have arrived are numbers.
LEMMA BeatFields ==
    ASSUME NEW s \in Seq(Beats)
    PROVE  \A i \in 1..Len(s) :
               s[i].from \in Nat /\ s[i].to \in Nat /\ s[i].conn \in Nat
<1> TAKE i \in 1..Len(s)
<1>1. s[i] \in Beats
  OBVIOUS
<1> QED
  BY <1>1 DEF Beats

\* The initial state satisfies the invariant.
LEMMA HeartInitial == Init => HeartInv
BY DEF Init, HeartInv, HeartTypes, BeatsBefore, BeatNotYetOnConnection,
       BeatBeingSent, HeartbeatsDisjointOrRepeated

\* A packet more in the stats keeps the invariant.
LEMMA RecordKeepsHeart == HeartInv /\ RecordPacket => HeartInv'
<1> SUFFICES ASSUME HeartInv, RecordPacket PROVE HeartInv'
  OBVIOUS
<1>1. recorded' = recorded + 1
      /\ UNCHANGED <<base, main, heart, report, reports, conn>>
  BY DEF RecordPacket, taskVars, heartVars, networkVars
<1>2. \A i \in 1..Len(reports) : reports[i].to \in Nat
  BY BeatFields DEF HeartInv, HeartTypes
<1> QED
  BY <1>1, <1>2 DEF HeartInv, HeartTypes, BeatsBefore, BeatNotYetOnConnection,
                    BeatBeingSent, HeartbeatsDisjointOrRepeated

\* A new connection keeps the invariant.
LEMMA ConnectKeepsHeart == HeartInv /\ Connect => HeartInv'
<1> SUFFICES ASSUME HeartInv, Connect PROVE HeartInv'
  OBVIOUS
<1>1. conn' = conn + 1 /\ UNCHANGED <<base, recorded, heart, report, reports>>
  BY DEF Connect, heartVars, statsVars
<1>2. \A i \in 1..Len(reports) :
          reports[i].conn \in Nat /\ reports[i].conn <= conn
  BY BeatFields DEF HeartInv, HeartTypes, BeatsBefore
<1> QED
  BY <1>1, <1>2 DEF HeartInv, HeartTypes, BeatsBefore, BeatNotYetOnConnection,
                    BeatBeingSent, HeartbeatsDisjointOrRepeated

\* Building the heartbeat keeps the invariant.
LEMMA BuildKeepsHeart == HeartInv /\ BuildHeartbeat => HeartInv'
<1> SUFFICES ASSUME HeartInv, BuildHeartbeat PROVE HeartInv'
  OBVIOUS
<1>1. /\ heart = "sleeping" /\ heart' = "sending"
      /\ report' = [from |-> base, to |-> recorded]
      /\ UNCHANGED <<base, recorded, main, conn, reports>>
  BY DEF BuildHeartbeat, taskVars, statsVars, networkVars
<1>2. BeatBeingSent'
  BY <1>1 DEF HeartInv, HeartTypes, BeatBeingSent
<1> QED
  BY <1>1, <1>2 DEF HeartInv, HeartTypes, BeatsBefore, BeatNotYetOnConnection,
                    HeartbeatsDisjointOrRepeated

\* Writing the heartbeat keeps the invariant.
LEMMA WriteKeepsHeart == HeartInv /\ TaskInv /\ WriteHeartbeat => HeartInv'
<1> SUFFICES ASSUME HeartInv, TaskInv, WriteHeartbeat PROVE HeartInv'
  OBVIOUS
<1>1. /\ heart = "sending" /\ heart' = "draining"
      /\ UNCHANGED <<base, recorded, main, conn, report>>
  BY DEF WriteHeartbeat, taskVars, statsVars, networkVars
<1>2. /\ base \in Nat /\ recorded \in Nat /\ conn \in Nat /\ reports \in Seq(Beats)
      /\ report.from = base /\ report.to \in Nat /\ report.to <= recorded
  BY <1>1 DEF HeartInv, HeartTypes, BeatBeingSent
<1>3. \A i \in 1..Len(reports) :
          /\ reports[i].from \in Nat /\ reports[i].to \in Nat
          /\ reports[i].conn \in Nat
          /\ \/ reports[i].to <= base
             \/ reports[i].from = base /\ reports[i].conn < conn
  BY <1>1, <1>2, BeatFields DEF HeartInv, BeatsBefore, BeatNotYetOnConnection
<1>4. CASE ws # "open"
  <2>1. reports' = reports
    BY <1>4 DEF WriteHeartbeat
  <2>2. BeatNotYetOnConnection' /\ BeatBeingSent'
    BY <1>1, <1>2, <1>3, <2>1 DEF BeatNotYetOnConnection, BeatBeingSent
  <2> QED
    BY <1>1, <2>1, <2>2
       DEF HeartInv, HeartTypes, BeatsBefore, HeartbeatsDisjointOrRepeated
<1>5. CASE ws = "open"
  <2> DEFINE beat == [from |-> report.from, to |-> report.to, conn |-> conn]
  <2>1. reports' = Append(reports, beat)
    BY <1>5 DEF WriteHeartbeat
  <2>2. /\ beat \in Beats /\ beat.from = base /\ beat.to = report.to
        /\ beat.conn = conn
    BY <1>2 DEF Beats
  <2> HIDE DEF beat
  <2>3. /\ reports' \in Seq(Beats) /\ Len(reports') = Len(reports) + 1
        /\ reports'[Len(reports) + 1] = beat
        /\ \A i \in 1..Len(reports) : reports'[i] = reports[i]
    BY <1>2, <2>1, <2>2, AppendElements
  <2>4. BeatsBefore'
    <3> SUFFICES ASSUME NEW i \in 1..Len(reports')
                 PROVE  /\ reports'[i].to <= recorded
                        /\ reports'[i].conn <= conn
                        /\ reports'[i].to <= base \/ reports'[i].from = base
      BY <1>1 DEF BeatsBefore
    <3>1. CASE i \in 1..Len(reports)
      BY <2>3, <3>1 DEF HeartInv, BeatsBefore
    <3>2. CASE i = Len(reports) + 1
      BY <1>2, <2>2, <2>3, <3>2
    <3> QED
      BY <1>2, <2>3, <3>1, <3>2
  <2>5. HeartbeatsDisjointOrRepeated'
    <3> SUFFICES ASSUME NEW i \in 1..Len(reports'), NEW j \in 1..Len(reports'), i < j
                 PROVE  \/ reports'[j].from >= reports'[i].to
                        \/ reports'[j].from = reports'[i].from
                           /\ reports'[i].conn < reports'[j].conn
      BY DEF HeartbeatsDisjointOrRepeated
    <3>1. i \in 1..Len(reports) /\ reports'[i] = reports[i]
      BY <1>2, <2>3
    <3>2. CASE j \in 1..Len(reports)
      BY <2>3, <3>1, <3>2 DEF HeartInv, HeartbeatsDisjointOrRepeated
    <3>3. CASE j = Len(reports) + 1
      <4>1. reports'[j].from = base /\ reports'[j].conn = conn
        BY <2>2, <2>3, <3>3
      <4> QED
        BY <1>2, <1>3, <3>1, <4>1
    <3> QED
      BY <1>2, <2>3, <3>2, <3>3
  <2>6. HeartTypes' /\ BeatNotYetOnConnection' /\ BeatBeingSent'
    <3>1. BeatNotYetOnConnection'
      BY <1>1 DEF TaskInv, InLoop, BeatNotYetOnConnection
    <3> QED
      BY <1>1, <1>2, <2>3, <3>1 DEF HeartInv, HeartTypes, BeatBeingSent
  <2> QED
    BY <2>4, <2>5, <2>6 DEF HeartInv
<1> QED
  BY <1>4, <1>5

\* The reset after a heartbeat keeps the invariant: all that has arrived ends
\* before it.
LEMMA SentKeepsHeart == HeartInv /\ HeartbeatSent => HeartInv'
<1> SUFFICES ASSUME HeartInv, HeartbeatSent PROVE HeartInv'
  OBVIOUS
<1>1. /\ base' = recorded /\ heart' \in {"sleeping", "ended"}
      /\ UNCHANGED <<recorded, main, conn, reports>>
  BY DEF HeartbeatSent, taskVars, networkVars
<1>2. HeartTypes' /\ BeatsBefore' /\ HeartbeatsDisjointOrRepeated'
  BY <1>1 DEF HeartInv, HeartTypes, BeatsBefore, HeartbeatsDisjointOrRepeated
<1>3. BeatNotYetOnConnection'
  BY <1>1 DEF HeartInv, BeatsBefore, BeatNotYetOnConnection
<1>4. BeatBeingSent'
  BY <1>1 DEF BeatBeingSent
<1> QED
  BY <1>2, <1>3, <1>4 DEF HeartInv

\* A step of the other tasks and of the network: the heartbeat task is left
\* alone, is cancelled, or starts when the registration is over.
LEMMA OtherKeepsHeart ==
    ASSUME HeartInv,
           UNCHANGED <<base, recorded, conn, report, reports>>,
           \/ UNCHANGED heart /\ (main' = "registering" => main = "registering")
           \/ heart' \in {"none", "ended"} /\ (main' = "registering" => main = "registering")
           \/ main = "registering" /\ heart' = "sleeping"
    PROVE  HeartInv'
<1>1. BeatNotYetOnConnection' /\ BeatBeingSent'
  BY DEF HeartInv, BeatNotYetOnConnection, BeatBeingSent
<1> QED
  BY <1>1 DEF HeartInv, HeartTypes, BeatsBefore, HeartbeatsDisjointOrRepeated

\* Every step of the program and every stuttering step keeps the invariant.
LEMMA HeartStep == HeartInv /\ TaskInv /\ [Next]_vars => HeartInv'
<1> SUFFICES ASSUME HeartInv, TaskInv, [Next]_vars PROVE HeartInv'
  OBVIOUS
<1>1. CASE RecordPacket \/ Connect
  BY <1>1, RecordKeepsHeart, ConnectKeepsHeart
<1>2. CASE BuildHeartbeat \/ WriteHeartbeat \/ HeartbeatSent
  BY <1>2, BuildKeepsHeart, WriteKeepsHeart, SentKeepsHeart
<1>3. CASE HeartbeatFails
  <2>1. /\ heart' = "ended"
        /\ UNCHANGED <<base, recorded, conn, report, reports, main>>
    BY <1>3 DEF HeartbeatFails, taskVars, statsVars, networkVars
  <2> QED
    BY <2>1, OtherKeepsHeart
<1>4. CASE SendPacket \/ Stop \/ Closes \/ LinkDies \/ PingTimesOut
  <2>1. UNCHANGED <<base, recorded, conn, report, reports, heart, main>>
    BY <1>4 DEF SendPacket, Stop, Closes, LinkDies, PingTimesOut, taskVars,
                heartVars, statsVars, networkVars
  <2> QED
    BY <2>1, OtherKeepsHeart
<1>5. CASE Start \/ ConnectFails \/ BeginSend \/ Write \/ Sent \/ BackoffEnds
  <2>1. /\ main' # "registering"
        /\ UNCHANGED <<base, recorded, conn, report, reports, heart>>
    BY <1>5 DEF Start, ConnectFails, BeginSend, Write, Sent, BackoffEnds,
                heartVars, statsVars, networkVars
  <2> QED
    BY <2>1, OtherKeepsHeart
<1>6. CASE Registered
  <2>1. /\ main = "registering" /\ heart' = "sleeping"
        /\ UNCHANGED <<base, recorded, conn, report, reports>>
    BY <1>6 DEF Registered, statsVars, networkVars
  <2> QED
    BY <2>1, OtherKeepsHeart
<1>7. CASE CloseRaises \/ LoopEnds \/ StopCancels
  <2>1. /\ main' # "registering" /\ heart' = "none"
        /\ UNCHANGED <<base, recorded, conn, report, reports>>
    BY <1>7 DEF CloseRaises, LoopEnds, StopCancels, statsVars, networkVars
  <2> QED
    BY <2>1, OtherKeepsHeart
<1>8. CASE UNCHANGED vars
  BY <1>8, OtherKeepsHeart DEF vars
<1> QED
  BY <1>1, <1>2, <1>3, <1>4, <1>5, <1>6, <1>7, <1>8
     DEF Next, Pipeline, MainTask, HeartTask, Network

\* Two heartbeats that reached the cloud count no packet twice, unless the
\* second repeats the first over a new connection.
THEOREM HeartbeatsNotCountedTwice == Spec => []HeartbeatsDisjointOrRepeated
<1>1. HeartInv => HeartbeatsDisjointOrRepeated
  BY DEF HeartInv
<1> QED
  BY <1>1, HeartInitial, HeartStep, TaskInvariance, PTL DEF Spec

-----------------------------------------------------------------------------
(* The types.                                                              *)

Places == /\ running \in BOOLEAN /\ connected \in BOOLEAN
          /\ main \in MainPlaces /\ heart \in HeartPlaces
          /\ ws \in {"none", "open", "dead", "closed"}
          /\ backoff \in 0..MaxBackoff

SendingType == sending \in Accepted \cup {NoMessage}

ReportType == report.from \in 0..base /\ report.to \in report.from..recorded

\* Each task stays among its places.
LEMMA PlacesStep == Places /\ [Next]_vars => Places'
<1> SUFFICES ASSUME Places, [Next]_vars PROVE Places'
  OBVIOUS
<1> USE DEF Places, MainPlaces, HeartPlaces
<1>0. MaxBackoff \in Nat
  BY UpstreamAssumption
<1>1. CASE Start \/ Connect \/ ConnectFails
  BY <1>1 DEF Start, Connect, ConnectFails, heartVars, networkVars
<1>2. CASE Registered \/ BeginSend \/ Write \/ Sent
  BY <1>2 DEF Registered, BeginSend, Write, Sent, heartVars, networkVars
<1>3. CASE CloseRaises \/ LoopEnds \/ StopCancels
  <2>1. main' \in {"backoff", "ended"} /\ heart' = "none" /\ connected' \in BOOLEAN
        /\ UNCHANGED <<running, ws>>
    BY <1>3 DEF CloseRaises, LoopEnds, StopCancels, networkVars
  <2>2. backoff' \in {0, backoff}
    BY <1>3 DEF CloseRaises, LoopEnds, StopCancels
  <2> QED
    BY <1>0, <2>1, <2>2
<1>4. CASE HeartTask
  BY <1>4 DEF HeartTask, BuildHeartbeat, WriteHeartbeat, HeartbeatSent,
              HeartbeatFails, taskVars, networkVars
<1>5. CASE Pipeline
  BY <1>5 DEF Pipeline, SendPacket, RecordPacket, taskVars, heartVars, networkVars
<1>6. CASE Stop \/ Closes \/ LinkDies \/ PingTimesOut
  BY <1>6 DEF Stop, Closes, LinkDies, PingTimesOut, taskVars, heartVars
<1>7. CASE UNCHANGED vars
  BY <1>7 DEF vars
<1>8. CASE BackoffEnds
  <2>1. main' \in {"connecting", "ended"} /\ UNCHANGED <<running, connected, heart, ws>>
    BY <1>8 DEF BackoffEnds, heartVars, networkVars
  <2>2. backoff' \in 0..MaxBackoff
    BY <1>0, <1>8 DEF BackoffEnds
  <2> QED
    BY <2>1, <2>2
<1> QED
  BY <1>1, <1>2, <1>3, <1>4, <1>5, <1>6, <1>7, <1>8 DEF Next, MainTask, Network

\* What is being sent has been accepted.
LEMMA SendingStep == OrderInv /\ LossInv /\ SendingType /\ [Next]_vars => SendingType'
<1> SUFFICES ASSUME OrderInv, LossInv, SendingType, [Next]_vars PROVE SendingType'
  OBVIOUS
<1>1. accepted \in Nat /\ accepted' \in {accepted, accepted + 1}
  BY DEF Next, Pipeline, SendPacket, RecordPacket, Start, MainTask, Connect,
         Registered, BeginSend, Write, Sent, CloseRaises, LoopEnds, BackoffEnds,
         HeartTask, BuildHeartbeat, WriteHeartbeat, HeartbeatSent, HeartbeatFails,
         Stop, StopCancels, Network, ConnectFails, Closes, LinkDies, PingTimesOut,
         bufferVars, vars, OrderInv, OrderTypes
<1>2. CASE BeginSend
  <2>1. sending' = Head(buffer) /\ Len(buffer) > 0
    BY <1>2 DEF BeginSend, OrderInv, OrderTypes
  <2>2. sending' = First /\ First \in 1..accepted
    BY <2>1, LossTypes DEF OrderInv, OrderTypes, BufferIsRun
  <2> QED
    BY <1>1, <2>2 DEF SendingType, Accepted
<1>3. CASE ~BeginSend
  <2>1. sending' = sending \/ sending' = NoMessage
    BY <1>3 DEF Next, Pipeline, SendPacket, RecordPacket, Start, MainTask, Connect,
         Registered, Write, Sent, CloseRaises, LoopEnds, BackoffEnds,
         HeartTask, BuildHeartbeat, WriteHeartbeat, HeartbeatSent, HeartbeatFails,
         Stop, StopCancels, Network, ConnectFails, Closes, LinkDies, PingTimesOut,
         bufferVars, vars
  <2> QED
    BY <1>1, <2>1 DEF SendingType, Accepted
<1> QED
  BY <1>2, <1>3

\* The heartbeat being sent speaks of packets that were recorded, and of none
\* since the last reset but one.
LEMMA ReportStep == HeartInv /\ ReportType /\ [Next]_vars => ReportType'
<1> SUFFICES ASSUME HeartInv, ReportType, [Next]_vars PROVE ReportType'
  OBVIOUS
<1>1. base \in Nat /\ recorded \in Nat /\ base <= recorded
  BY DEF HeartInv, HeartTypes
<1>2. CASE BuildHeartbeat
  <2>1. report'.from = base /\ report'.to = recorded /\ UNCHANGED <<base, recorded>>
    BY <1>2 DEF BuildHeartbeat, statsVars
  <2> QED
    BY <1>1, <2>1 DEF ReportType
<1>3. CASE ~BuildHeartbeat
  <2>1. /\ report' = report
        /\ base' \in {base, recorded} /\ recorded' \in {recorded, recorded + 1}
        /\ base' = recorded => recorded' = recorded \/ base' = base
    BY <1>3 DEF Next, Pipeline, SendPacket, RecordPacket, Start, MainTask, Connect,
         Registered, BeginSend, Write, Sent, CloseRaises, LoopEnds, BackoffEnds,
         HeartTask, WriteHeartbeat, HeartbeatSent, HeartbeatFails,
         Stop, StopCancels, Network, ConnectFails, Closes, LinkDies, PingTimesOut,
         heartVars, statsVars, vars
  <2> QED
    BY <1>1, <2>1 DEF ReportType
<1> QED
  BY <1>2, <1>3

\* Every variable stays in its range: the buffer never grows beyond its maximal
\* length and holds accepted packets, and a heartbeat counts recorded ones.
THEOREM UpstreamTypes == Spec => []UpstreamTypeOK
<1> DEFINE TypeInv == Places /\ SendingType /\ ReportType
<1>1. Init => TypeInv
  <2>1. MaxBackoff \in Nat
    BY UpstreamAssumption
  <2>2. Init => running \in BOOLEAN /\ connected \in BOOLEAN
    BY DEF Init
  <2>3. Init => Places
    BY <2>1, <2>2 DEF Init, Places, MainPlaces, HeartPlaces
  <2>4. Init => SendingType /\ ReportType
    BY DEF Init, SendingType, ReportType, NoReport
  <2> QED
    BY <2>3, <2>4
<1>2. /\ OrderInv /\ LossInv /\ HeartInv
      /\ TypeInv /\ [Next]_vars
      => TypeInv'
  BY PlacesStep, SendingStep, ReportStep
<1>3. OrderInv /\ LossInv /\ HeartInv /\ TypeInv => UpstreamTypeOK
  <2> SUFFICES ASSUME OrderInv, LossInv, HeartInv, TypeInv PROVE UpstreamTypeOK
    OBVIOUS
  <2>1. buffer \in Seq(Accepted)
    <3>1. \A i \in 1..Len(buffer) : buffer[i] \in 1..accepted
      BY DEF OrderInv, OrderTypes, BufferIsRun, LossInv
    <3> QED
      BY <3>1 DEF OrderInv, OrderTypes, Accepted
  <2>2. Len(buffer) <= BufferSize /\ base \in 0..recorded
    BY DEF OrderInv, OrderTypes, HeartInv, HeartTypes
  <2> QED
    BY <2>1, <2>2 DEF Places, SendingType, ReportType, UpstreamTypeOK
<1>4. Spec => []HeartInv
  BY HeartInitial, HeartStep, TaskInvariance, PTL DEF Spec
<1> QED
  BY <1>1, <1>2, <1>3, <1>4, LossInvariance, PTL DEF Spec
=============================================================================
