---------------------------- MODULE UpstreamClient ---------------------------
(***************************************************************************)
(* src/api/upstream_client.py: the WebSocket client that ships packets and *)
(* heartbeats to the cloud, with the counters of                           *)
(* src/analytics/stats_reporter.py that a heartbeat carries.               *)
(*                                                                         *)
(* Everything runs on one event loop, so a step is what happens between    *)
(* two awaits.  Four parties interleave: the pipeline, which records and   *)
(* queues packets; the connection task; the heartbeat task it starts; and  *)
(* the network.  A message is its place in the order of the accepted       *)
(* send_packet calls.  What the upstream rate limiter refuses is counted   *)
(* and forgotten by the code, and is no step here.                         *)
(***************************************************************************)
EXTENDS Integers, Sequences, FiniteSets

CONSTANTS BufferSize,    \* config.buffer_max_size
          MaxBackoff,    \* increases after which the wait is at its 60 s cap
          MaxMessages,   \* accepted packets, a bound of the model
          MaxRecords,    \* recorded packets, a bound of the model
          MaxBeats,      \* heartbeats built, a bound of the model
          MaxFaults,     \* failures of the network, a bound of the model
          NoMessage      \* no message is being sent

ASSUME UpstreamAssumption ==
    /\ BufferSize \in Nat \ {0}
    /\ {MaxBackoff, MaxMessages, MaxRecords, MaxBeats, MaxFaults} \subseteq Nat
    /\ NoMessage \notin Nat

VARIABLES running,     \* _running
          connected,   \* _connected
          main,        \* where the connection task is
          ws,          \* the connection: "none", "open", "dead" when the
                       \* peer is gone and no ping has timed out yet, "closed"
          buffer,      \* _buffer
          sending,     \* the message _flush_buffer awaits _send for
          backoff,     \* how many times the wait has grown
          heart,       \* where the heartbeat task is
          base,        \* packets recorded before the last reset of the stats
          report,      \* the heartbeat being sent: stats of from+1 .. to
          recorded,    \* packets recorded so far: the stats hold base+1 .. recorded
          accepted,    \* packets appended to the buffer so far
          faults,      \* failures of the network so far
          beats,       \* heartbeats built so far
          conn,        \* history: connections opened so far
          written,     \* history: messages written to some connection
          evicted,     \* history: messages pushed out by an append
          cloud,       \* history: [msg, conn] in the order they arrived
          reports      \* history: [from, to, conn] of the heartbeats arrived

taskVars    == <<running, connected, main, backoff>>
bufferVars  == <<buffer, sending, accepted, written, evicted, cloud>>
heartVars   == <<heart, report, beats, reports>>
statsVars   == <<base, recorded>>
networkVars == <<ws, faults, conn>>
vars == <<running, connected, main, ws, buffer, sending, backoff, heart, base,
          report, recorded, accepted, faults, beats, conn, written, evicted,
          cloud, reports>>

MainPlaces  == {"new", "connecting", "registering", "running", "sending",
                "draining", "backoff", "ended"}
HeartPlaces == {"none", "sleeping", "sending", "draining", "ended"}

NoReport == [from |-> 0, to |-> 0]

Init == /\ running = FALSE /\ connected = FALSE /\ main = "new"
        /\ ws = "none" /\ faults = 0 /\ conn = 0
        /\ buffer = <<>> /\ sending = NoMessage /\ accepted = 0
        /\ backoff = 0
        /\ heart = "none" /\ report = NoReport /\ beats = 0
        /\ base = 0 /\ recorded = 0
        /\ written = {} /\ evicted = {} /\ cloud = <<>> /\ reports = <<>>

Up == ws \in {"open", "dead"}

-----------------------------------------------------------------------------
(* The pipeline.                                                           *)

\* Mutant: the buffer has no maximal length.
AppendUnbounded(queue, m) == Append(queue, m)

\* append() on a deque with a maximal length pushes the oldest entry out.
AppendBounded(queue, m) ==
    IF Len(queue) = BufferSize THEN Append(Tail(queue), m) ELSE Append(queue, m)

SendPacket ==
    /\ accepted < MaxMessages
    /\ accepted' = accepted + 1
    /\ buffer' = AppendBounded(buffer, accepted + 1)
    /\ evicted' = IF Len(buffer) = BufferSize
                  THEN evicted \cup {Head(buffer)} ELSE evicted
    /\ UNCHANGED <<sending, written, cloud>>
    /\ UNCHANGED <<taskVars, heartVars, statsVars, networkVars>>

RecordPacket ==
    /\ recorded < MaxRecords
    /\ recorded' = recorded + 1
    /\ UNCHANGED base
    /\ UNCHANGED <<taskVars, bufferVars, heartVars, networkVars>>

-----------------------------------------------------------------------------
(* The connection task.                                                    *)

Start ==
    /\ main = "new"
    /\ running' = TRUE
    /\ main' = "connecting"
    /\ UNCHANGED <<connected, backoff>>
    /\ UNCHANGED <<bufferVars, heartVars, statsVars, networkVars>>

Connect ==
    /\ main = "connecting" /\ running
    /\ ws' = "open"
    /\ conn' = conn + 1
    /\ connected' = TRUE
    /\ main' = "registering"
    /\ UNCHANGED <<running, backoff, faults>>
    /\ UNCHANGED <<bufferVars, heartVars, statsVars>>

ConnectFails ==
    /\ main = "connecting" /\ running
    /\ faults < MaxFaults
    /\ faults' = faults + 1
    /\ connected' = FALSE
    /\ main' = "backoff"
    /\ UNCHANGED <<running, backoff, ws, conn>>
    /\ UNCHANGED <<bufferVars, heartVars, statsVars>>

\* The registration is sent; the heartbeat and listener tasks are created.
Registered ==
    /\ main = "registering" /\ Up
    /\ main' = "running"
    /\ heart' = "sleeping"
    /\ UNCHANGED <<running, connected, backoff, report, beats, reports>>
    /\ UNCHANGED <<bufferVars, statsVars, networkVars>>

\* Mutant: the newest message is sent first.
BeginSendNewest ==
    /\ main = "running" /\ connected /\ buffer # <<>>
    /\ sending' = buffer[Len(buffer)]
    /\ main' = "sending"
    /\ UNCHANGED <<running, connected, backoff>>
    /\ UNCHANGED <<buffer, accepted, written, evicted, cloud>>
    /\ UNCHANGED <<heartVars, statsVars, networkVars>>

\* _flush_buffer reads the head and awaits _send.
BeginSend ==
    /\ main = "running" /\ connected /\ buffer # <<>>
    /\ sending' = Head(buffer)
    /\ main' = "sending"
    /\ UNCHANGED <<running, connected, backoff>>
    /\ UNCHANGED <<buffer, accepted, written, evicted, cloud>>
    /\ UNCHANGED <<heartVars, statsVars, networkVars>>

\* The frame is written, once the heartbeat has released _send_lock; what is
\* written to a dead connection arrives nowhere.
Write ==
    /\ main = "sending" /\ Up
    /\ heart # "draining"
    /\ main' = "draining"
    /\ written' = written \cup {sending}
    /\ cloud' = IF ws = "open"
                THEN Append(cloud, [msg |-> sending, conn |-> conn]) ELSE cloud
    /\ UNCHANGED <<running, connected, backoff>>
    /\ UNCHANGED <<buffer, sending, accepted, evicted>>
    /\ UNCHANGED <<heartVars, statsVars, networkVars>>

\* _send returns and the head of the buffer, whatever it is by now, is removed.
\* There is one: an append to a full buffer leaves it full.
Sent ==
    /\ main = "draining" /\ Up
    /\ buffer' = Tail(buffer)
    /\ sending' = NoMessage
    /\ main' = "running"
    /\ UNCHANGED <<running, connected, backoff>>
    /\ UNCHANGED <<accepted, written, evicted, cloud>>
    /\ UNCHANGED <<heartVars, statsVars, networkVars>>

\* Mutants: the message is removed before it is known to be sent; the exception
\* is swallowed in _flush_buffer; the heartbeat task is left running.
CloseRaisesAfterPop ==
    /\ main \in {"registering", "sending", "draining"} /\ ws = "closed"
    /\ connected' = FALSE
    /\ buffer' = IF sending # NoMessage THEN Tail(buffer) ELSE buffer
    /\ sending' = NoMessage
    /\ heart' = "none"
    /\ main' = IF running THEN "backoff" ELSE "ended"
    /\ UNCHANGED <<running, backoff, accepted, written, evicted, cloud>>
    /\ UNCHANGED <<report, beats, reports, statsVars, networkVars>>
CloseIsSwallowed ==
    /\ main \in {"registering", "sending", "draining"} /\ ws = "closed"
    /\ connected' = FALSE
    /\ sending' = NoMessage
    /\ main' = "running"
    /\ UNCHANGED <<running, backoff, buffer, accepted, written, evicted, cloud>>
    /\ UNCHANGED <<heartVars, statsVars, networkVars>>
CloseLeavesHeart ==
    /\ main \in {"registering", "sending", "draining"} /\ ws = "closed"
    /\ connected' = FALSE
    /\ sending' = NoMessage
    /\ main' = IF running THEN "backoff" ELSE "ended"
    /\ UNCHANGED <<running, backoff, buffer, accepted, written, evicted, cloud>>
    /\ UNCHANGED <<heartVars, statsVars, networkVars>>

\* A send on a closed connection raises ConnectionClosed: the tasks are
\* cancelled, the message stays in the buffer and the loop backs off.
CloseRaises ==
    /\ main \in {"registering", "sending", "draining"} /\ ws = "closed"
    /\ connected' = FALSE
    /\ sending' = NoMessage
    /\ heart' = "none"
    /\ main' = IF running THEN "backoff" ELSE "ended"
    /\ UNCHANGED <<running, backoff, buffer, accepted, written, evicted, cloud>>
    /\ UNCHANGED <<report, beats, reports, statsVars, networkVars>>

\* The loop finds the client stopped and returns; the loop around it resets the
\* backoff, here only, and ends.
LoopEnds ==
    /\ main = "running" /\ ~running
    /\ connected' = FALSE
    /\ backoff' = 0
    /\ heart' = "none"
    /\ main' = "ended"
    /\ UNCHANGED <<running, report, beats, reports>>
    /\ UNCHANGED <<bufferVars, statsVars, networkVars>>

\* The wait ends.  It grows by half up to the cap, and a connection that
\* worked for a while before it was closed does not make it small again.
BackoffEnds ==
    /\ main = "backoff"
    /\ main' = IF running THEN "connecting" ELSE "ended"
    /\ backoff' = IF backoff < MaxBackoff THEN backoff + 1 ELSE backoff
    /\ UNCHANGED <<running, connected>>
    /\ UNCHANGED <<bufferVars, heartVars, statsVars, networkVars>>

-----------------------------------------------------------------------------
(* The heartbeat task.                                                     *)

\* The sleep is over: the heartbeat is built from the stats of this moment.
BuildHeartbeat ==
    /\ heart = "sleeping" /\ beats < MaxBeats
    /\ beats' = beats + 1
    /\ report' = [from |-> base, to |-> recorded]
    /\ heart' = "sending"
    /\ UNCHANGED reports
    /\ UNCHANGED <<taskVars, bufferVars, statsVars, networkVars>>

\* The frame is written, once _flush_buffer has released _send_lock.
WriteHeartbeat ==
    /\ heart = "sending" /\ Up
    /\ main # "draining"
    /\ heart' = "draining"
    /\ reports' = IF ws = "open"
                  THEN Append(reports, [from |-> report.from, to |-> report.to,
                                        conn |-> conn])
                  ELSE reports
    /\ UNCHANGED <<report, beats>>
    /\ UNCHANGED <<taskVars, bufferVars, statsVars, networkVars>>

\* Mutant: the stats are not reset after the heartbeat.
HeartbeatSentNoReset ==
    /\ heart = "draining" /\ Up
    /\ heart' = IF running THEN "sleeping" ELSE "ended"
    /\ UNCHANGED <<report, beats, reports, statsVars>>
    /\ UNCHANGED <<taskVars, bufferVars, networkVars>>

\* The send is over: reset() clears the stats of this, later, moment.
HeartbeatSent ==
    /\ heart = "draining" /\ Up
    /\ base' = recorded
    /\ heart' = IF running THEN "sleeping" ELSE "ended"
    /\ UNCHANGED <<report, beats, reports, recorded>>
    /\ UNCHANGED <<taskVars, bufferVars, networkVars>>

HeartbeatFails ==
    /\ heart \in {"sending", "draining"} /\ ws = "closed"
    /\ heart' = "ended"
    /\ UNCHANGED <<report, beats, reports>>
    /\ UNCHANGED <<taskVars, bufferVars, statsVars, networkVars>>

-----------------------------------------------------------------------------
(* stop().                                                                 *)

\* The flag is lowered and the connection closed.
Stop ==
    /\ running
    /\ running' = FALSE
    /\ ws' = IF Up THEN "closed" ELSE ws
    /\ UNCHANGED <<connected, main, backoff, faults, conn>>
    /\ UNCHANGED <<bufferVars, heartVars, statsVars>>

\* The connection task is cancelled wherever it waits, and with it its tasks.
StopCancels ==
    /\ ~running /\ main \notin {"new", "ended"}
    /\ main' = "ended"
    /\ sending' = NoMessage
    /\ heart' = "none"
    /\ UNCHANGED <<running, connected, backoff, buffer, accepted, written,
                   evicted, cloud>>
    /\ UNCHANGED <<report, beats, reports, statsVars, networkVars>>

-----------------------------------------------------------------------------
(* The network.                                                            *)

\* The peer or a proxy closes the connection, or it is reset.
Closes ==
    /\ ws = "open" /\ faults < MaxFaults
    /\ ws' = "closed"
    /\ faults' = faults + 1
    /\ UNCHANGED conn
    /\ UNCHANGED <<taskVars, bufferVars, heartVars, statsVars>>

\* The link is cut, and neither end has noticed.
LinkDies ==
    /\ ws = "open" /\ faults < MaxFaults
    /\ ws' = "dead"
    /\ faults' = faults + 1
    /\ UNCHANGED conn
    /\ UNCHANGED <<taskVars, bufferVars, heartVars, statsVars>>

\* ping_interval and ping_timeout: no pong came.
PingTimesOut ==
    /\ ws = "dead"
    /\ ws' = "closed"
    /\ UNCHANGED <<faults, conn>>
    /\ UNCHANGED <<taskVars, bufferVars, heartVars, statsVars>>

Pipeline  == SendPacket \/ RecordPacket
MainTask  == Connect \/ Registered \/ BeginSend \/ Write \/ Sent \/ CloseRaises
             \/ LoopEnds \/ BackoffEnds
HeartTask == BuildHeartbeat \/ WriteHeartbeat \/ HeartbeatSent \/ HeartbeatFails
Network   == ConnectFails \/ Closes \/ LinkDies

Next == Pipeline \/ Start \/ MainTask \/ HeartTask \/ Stop \/ StopCancels
        \/ Network \/ PingTimesOut

Spec == Init /\ [][Next]_vars

\* The event loop runs every task that is ready and every timer ends; a ping
\* that is not answered times out.  Packets need not come, the network need not
\* fail, and a connection attempt that does not fail succeeds.
FairSpec == /\ Spec
            /\ WF_vars(MainTask)
            /\ WF_vars(HeartTask)
            /\ WF_vars(PingTimesOut)
            /\ WF_vars(Start)
            /\ WF_vars(StopCancels)

-----------------------------------------------------------------------------
ElementsOf(s) == {s[i] : i \in 1..Len(s)}
Accepted == 1..accepted
Buffered == ElementsOf(buffer)

UpstreamTypeOK ==
    /\ {running, connected} \subseteq BOOLEAN
    /\ main \in MainPlaces
    /\ heart \in HeartPlaces
    /\ ws \in {"none", "open", "dead", "closed"}
    /\ buffer \in Seq(Accepted) /\ Len(buffer) <= BufferSize
    /\ sending \in Accepted \cup {NoMessage}
    /\ backoff \in 0..MaxBackoff
    /\ base \in 0..recorded
    /\ report.from \in 0..base /\ report.to \in report.from..recorded

\* _send drops a message in silence when the client is not connected.  No task
\* is ever about to send in that state, so nothing is lost that way.
NeverSentUnconnected ==
    (main \in {"registering", "sending"} \/ heart = "sending") => connected

\* The cloud receives the packets in the order they were queued.  It receives
\* one twice only over two connections, when the first was cut while the
\* message was being sent.
InOrderOncePerConnection ==
    \A i, j \in 1..Len(cloud) : i < j =>
        \/ cloud[i].msg < cloud[j].msg
        \/ cloud[i].msg = cloud[j].msg /\ cloud[i].conn < cloud[j].conn

\* However appends, sends and reconnections interleave, the packets that are
\* neither in the buffer nor were ever written to a connection are no more than
\* those that overflowed the buffer.  What was written to a link that is half
\* open counts as written, whether or not it arrives.
LossIsOverflow ==
    Cardinality(Accepted \ (Buffered \cup written)) <= Cardinality(evicted)

\* Two heartbeats that reached the cloud either cover disjoint runs of packets
\* or start at the same packet and came over two connections, the first having
\* failed: in between no reset lost what the second one repeats.  That what
\* was counted during the write is reported at all is not said: the reset wipes
\* it.
HeartbeatsDisjointOrRepeated ==
    \A i, j \in 1..Len(reports) : i < j =>
        \/ reports[j].from >= reports[i].to
        \/ reports[j].from = reports[i].from /\ reports[i].conn < reports[j].conn

\* A queued packet leaves the buffer, unless the client is stopped: no
\* interleaving of failures, pings and appends leaves the task stuck with it.
BufferDrains ==
    \A m \in 1..MaxMessages : (m \in Buffered) ~> (m \notin Buffered \/ ~running)

-----------------------------------------------------------------------------
(* What the documentation says and the code does not do.                   *)

\* "Your Pi keeps trying to reconnect indefinitely": a connection that was
\* closed is followed by an attempt at a new one.
Reconnects == (running /\ ws = "closed") ~> (~running \/ main = "connecting")
=============================================================================
