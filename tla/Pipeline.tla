-------------------------------- MODULE Pipeline --------------------------------
(***************************************************************************)
(* The way of a packet through the service: the capture tasks and their    *)
(* shared queue (src/capture), the pipeline and cleanup tasks of           *)
(* src/coordinator.py, the tables of src/storage and the MQTT publisher.   *)
(*                                                                         *)
(* Everything runs on one event loop: an action goes from one await to the *)
(* next.  Every repository shares one connection to SQLite, so a commit    *)
(* commits whatever any task has written by then.  db is what the          *)
(* connection sees, disk what survives the process.                        *)
(***************************************************************************)
EXTENDS MqttPublisher

CONSTANTS
    Captures,       \* the names of the frames that may be captured
    MaxQueue,       \* length of the capture queue (1000)
    MaxRetained,    \* storage.max_packets_retained
    MaxCaptured,    \* bound: frames captured
    MaxTroubles     \* bound: failures of SQLite and restarts together

VARIABLES
    up,             \* the service runs
    queue,          \* the capture queue
    stage,          \* where the pipeline task is
    cur,            \* the packet it has in hand
    db, disk,
    cleaner,        \* the cleanup task
    keys,           \* the channels the crypto service has keys for
    used            \* what has been used up of the bounds

vars == <<up, queue, stage, cur, db, disk, cleaner, keys, used,
          mqttVars>>

ASSUME PipelineAssumption ==
    /\ Captures \subseteq DOMAIN Frame
    /\ MaxQueue \in Nat \ {0} /\ MaxRetained \in Nat
    /\ {MaxCaptured, MaxTroubles} \subseteq Nat

\* "ended" is where an exception that leaves _process_capture puts the task;
\* nothing modelled here raises one.
Stages == {"idle", "insert", "insert_commit", "node", "node_commit",
           "telemetry", "telemetry_commit", "relay", "finish", "ended"}

\* The tables.  packets is in the order of their timestamps, count is the
\* packet_count of a row of nodes, or -1.  ever is history: the packets of a
\* node that were ever stored.
EmptyTables == [packets |-> <<>>, count |-> [n \in Nodes |-> -1],
                located |-> {}, telemetry |-> 0, ever |-> [n \in Nodes |-> 0]]

\* What the running cleanup has seen and what has happened since.
Asleep == [at |-> "asleep", excess |-> 0, grown |-> 0]

Spend(what) == used' = [used EXCEPT ![what] = @ + 1]

Init ==
    /\ MqttInit
    /\ up = TRUE
    /\ queue = <<>> /\ stage = "idle" /\ cur = NoPacket
    /\ db = EmptyTables /\ disk = EmptyTables
    /\ cleaner = Asleep
    /\ keys = Configured
    /\ used = [captured |-> 0, troubles |-> 0]

-----------------------------------------------------------------------------
(* The capture tasks.                                                      *)

\* A full queue drops the frame that has just been heard.  A source that
\* raises ends its task and captures nothing more, which the model allows at
\* any time; the others go on.
QueuedAlways(q, f) == Append(q, f)
Queued(q, f) == IF Len(q) < MaxQueue THEN Append(q, f) ELSE q

Capture(f) ==
    /\ up /\ used.captured < MaxCaptured /\ Spend("captured")
    /\ Wrapped(Frame[f])
    /\ queue' = Queued(queue, f)
    /\ UNCHANGED <<up, stage, cur, db, disk, cleaner, keys,
                   mqttVars>>

-----------------------------------------------------------------------------
(* The pipeline task.                                                      *)

\* What is not a packet of either protocol ends here.
Begin ==
    /\ up /\ stage = "idle" /\ queue # <<>>
    /\ LET p == Decode(Frame[Head(queue)], keys)
       IN  /\ cur' = p
           /\ stage' = IF p = NoPacket THEN "idle" ELSE "insert"
    /\ queue' = Tail(queue)
    /\ sent' = {}
    /\ UNCHANGED <<up, db, disk, cleaner, keys, used, conn,
                   hash, known, allow, mode, named>>

Inserted(t, p) ==
    [t EXCEPT !.packets = IF p.early THEN <<p.src>> \o @ ELSE Append(@, p.src),
              !.ever[p.src] = @ + 1]

\* upsert starts a row at 0, whatever was stored before it; an increment of a
\* row that is not there does nothing.
NodeWritten(t, p) ==
    IF NodeUpdate(p) = "none"
    THEN [t EXCEPT !.count[p.src] = IF @ = -1 THEN @ ELSE @ + 1]
    ELSE [t EXCEPT !.count[p.src] = @ + 1,
                   !.located = IF NodeUpdate(p) = "located" THEN @ \cup {p.src}
                               ELSE @]

TelemetryWritten(t, p) == [t EXCEPT !.telemetry = @ + 1]

\* The statements of _store_packet, in order, each with its commit.
StatementSwapped == [insert |-> NodeWritten(db, cur),
                     node |-> Inserted(db, cur),
                     telemetry |-> TelemetryWritten(db, cur)]
Statement == [insert |-> Inserted(db, cur), node |-> NodeWritten(db, cur),
              telemetry |-> TelemetryWritten(db, cur)]
CommitOf == [insert |-> "insert_commit", node |-> "node_commit",
             telemetry |-> "telemetry_commit"]
AfterCommit == [insert_commit |-> "node",
                node_commit |-> IF HasTelemetry(cur) THEN "telemetry" ELSE "relay",
                telemetry_commit |-> "relay"]

Execute ==
    /\ up /\ stage \in DOMAIN Statement
    /\ db' = Statement[stage]
    /\ stage' = CommitOf[stage]
    /\ cleaner' = IF stage = "insert" /\ cleaner.at = "counted"
                  THEN [cleaner EXCEPT !.grown = @ + 1] ELSE cleaner
    /\ UNCHANGED <<up, queue, cur, disk, keys, used, mqttVars>>

Commit ==
    /\ up /\ stage \in DOMAIN AfterCommit
    /\ disk' = db
    /\ stage' = AfterCommit[stage]
    /\ UNCHANGED <<up, queue, cur, db, cleaner, keys, used,
                   mqttVars>>

\* A statement or a commit raises: what was written stays written, open until
\* the next commit of any task; the packet goes on to the publishers.
AfterFailureEnded == "ended"
AfterFailure == "relay"
StoreFails ==
    /\ up /\ stage \in DOMAIN Statement \cup DOMAIN AfterCommit
    /\ used.troubles < MaxTroubles /\ Spend("troubles")
    /\ stage' = AfterFailure
    /\ UNCHANGED <<up, queue, cur, db, disk, cleaner, keys,
                   mqttVars>>

\* _publish_tak, _publish_tak_self and the relay are awaited in this order,
\* and none lets an exception out: they last, and leave the tables alone.
Await ==
    /\ up /\ stage = "relay"
    /\ stage' = "finish"
    /\ UNCHANGED <<up, queue, cur, db, disk, cleaner, keys,
                   used, mqttVars>>

\* _publish_mqtt, _record_stats and _notify_callbacks, without an await.
Finish ==
    /\ up /\ stage = "finish"
    /\ Publish(cur)
    /\ stage' = "idle" /\ cur' = NoPacket
    /\ UNCHANGED <<up, queue, db, disk, cleaner, keys, used>>

PipelineTask == Begin \/ Execute \/ Commit \/ StoreFails \/ Await \/ Finish

-----------------------------------------------------------------------------
(* The cleanup task: it counts, deletes as many as there were too many, the *)
(* oldest first, and commits.  A failure ends it until the next start.     *)
ExcessOneMore == Len(db.packets) - MaxRetained + 1
Excess == Len(db.packets) - MaxRetained
WithoutOldest(t, n) ==
    [t EXCEPT !.packets = SubSeq(@, n + 1, Len(@))]

CleanupCount ==
    /\ up /\ cleaner.at = "asleep" /\ Excess > 0
    /\ cleaner' = [Asleep EXCEPT !.at = "counted", !.excess = Excess]
    /\ UNCHANGED <<up, queue, stage, cur, db, disk, keys, used,
                   mqttVars>>

CleanupDelete ==
    /\ up /\ cleaner.at = "counted"
    /\ db' = WithoutOldest(db, cleaner.excess)
    /\ cleaner' = [cleaner EXCEPT !.at = "deleted"]
    /\ UNCHANGED <<up, queue, stage, cur, disk, keys, used,
                   mqttVars>>

CleanupCommit ==
    /\ up /\ cleaner.at = "deleted"
    /\ disk' = db
    /\ cleaner' = Asleep
    /\ UNCHANGED <<up, queue, stage, cur, db, keys, used,
                   mqttVars>>

CleanupFails ==
    /\ up /\ cleaner.at \in {"counted", "deleted"}
    /\ used.troubles < MaxTroubles /\ Spend("troubles")
    /\ cleaner' = [Asleep EXCEPT !.at = "ended"]
    /\ UNCHANGED <<up, queue, stage, cur, db, disk, keys,
                   mqttVars>>

-----------------------------------------------------------------------------
\* PUT /api/config/channels: the crypto service learns the key at once, the
\* publisher's resolver its name at the next start.
AddChannel ==
    /\ up /\ keys = Configured
    /\ keys' = Append(keys, "Late")
    /\ UNCHANGED <<up, queue, stage, cur, db, disk, cleaner, used, mqttVars>>

Network == /\ up
           /\ OnConnect \/ OnDisconnect
           /\ UNCHANGED <<up, queue, stage, cur, db, disk, cleaner,
                          keys, used>>

-----------------------------------------------------------------------------
\* stop() cancels the tasks at their awaits and closes the connection with
\* whatever is not committed; a crash does the same.
Ends ==
    /\ up
    /\ up' = FALSE
    /\ queue' = <<>>
    /\ stage' = "idle" /\ cur' = NoPacket
    /\ db' = disk
    /\ cleaner' = Asleep
    /\ conn' = "off" /\ sent' = {}
    /\ UNCHANGED <<disk, keys, used, hash, known, allow, mode,
                   named>>

Boots ==
    /\ ~up /\ used.troubles < MaxTroubles /\ Spend("troubles")
    /\ up' = TRUE
    /\ Starts(keys)
    /\ UNCHANGED <<queue, stage, cur, db, disk, cleaner, keys, hash, allow,
                   mode>>

Next ==
    \/ \E f \in Captures : Capture(f)
    \/ PipelineTask
    \/ CleanupCount \/ CleanupDelete \/ CleanupCommit \/ CleanupFails
    \/ AddChannel \/ Network
    \/ Ends \/ Boots

\* The event loop runs a task that is ready, and each await of the pipeline
\* has a time limit of its own (SQLite 5 s, TAK 5 s) or runs in a thread that
\* comes back.
Spec == Init /\ [][Next]_vars /\ WF_vars(PipelineTask)

-----------------------------------------------------------------------------
PipelineTypeOK ==
    /\ up \in BOOLEAN
    /\ queue \in Seq(Captures) /\ Len(queue) <= MaxQueue
    /\ stage \in Stages
    /\ stage = "idle" <=> cur = NoPacket
    /\ db.count \in [Nodes -> Int] /\ disk.count \in [Nodes -> Int]
    /\ cleaner.at \in {"asleep", "counted", "deleted", "ended"}
    /\ MqttTypeOK

\* On disk, a node never counts a packet that was not stored, whichever
\* statement of _store_packet or of the cleanup fails, whoever
\* commits it and wherever the process ends: the insertion is written first
\* and one commit never overtakes it.
CountsBacked ==
    \A n \in Nodes : disk.count[n] >= 0 => disk.count[n] < disk.ever[n]

\* The cleanup counts before an await and deletes after it.  What it leaves is
\* max_packets_retained and what came in between, neither more nor less
\* (storage/packet_repository.py:92).
CleanupKeepsMax ==
    [][cleaner.at = "counted" /\ cleaner'.at = "deleted" =>
         Len(db'.packets) = MaxRetained + cleaner.grown]_vars

\* No failure of a statement, a commit or the cleanup, no restart and none of
\* the stages that are awaited keeps the packets in the queue for good
\* (_store_packet, _process_capture).
QueueDrains == queue # <<>> ~> queue = <<>>
=============================================================================
