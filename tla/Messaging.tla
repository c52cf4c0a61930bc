------------------------------- MODULE Messaging -------------------------------
(***************************************************************************)
(* Text messages, sent and heard, on their way into the table of messages: *)
(* the send route of src/api/routes/messages.py over the transmit service, *)
(* the interception of text packets in src/api/server.py and               *)
(* src/storage/message_repository.py.                                      *)
(*                                                                         *)
(* A sender is a request of the send route, with one direct message, or    *)
(* the NodeInfo broadcaster, which stores nothing.  Every text packet the  *)
(* pipeline decodes starts a task of its own, which nobody awaits; several *)
(* copies of a packet are heard when neighbours repeat it, and so is our   *)
(* own message.  All of it writes through the one connection to SQLite.    *)
(***************************************************************************)
EXTENDS TxService

CONSTANTS Chats,        \* the senders that are requests; also their packets
          Foreign,      \* packets of other nodes
          MaxHeard      \* bound: text packets heard, copies included

ASSUME MessagingAssumption ==
    Chats \subseteq Senders /\ Foreign \cap Chats = {} /\ MaxHeard \in Nat

VARIABLES
    table, disk,  \* the rows the connection sees, and those committed
    lastId,       \* of the AUTOINCREMENT
    route,        \* of each request: "idle", "sending", "lookup", "insert",
                  \* "commit", "done"
    task,         \* of each copy of a packet: [at, row, count]
    answered,     \* the requests answered with success
    aired,        \* own messages that went on the air
    overlapped,   \* history: packets with two handlers at a time
    deleted       \* history: conversations deleted since they were written to

messageVars == <<table, disk, lastId, route, task, answered, aired,
                 overlapped, deleted>>
allVars == <<vars, messageVars>>

Packets == Chats \cup Foreign
Copies == Packets \X (1..MaxHeard)

Unheard == [at |-> "unheard", row |-> 0, count |-> 0]
Finished == [at |-> "done", row |-> 0, count |-> 0]

AllHeard == {c \in Copies : task[c] # Unheard}

RowsOf(t, p) == {r \in t : r.packet = p}
First(rows) == CHOOSE r \in rows : \A q \in rows : r.id <= q.id

\* A handler of packet p is at work.
InHand(p) == \/ \E c \in Copies : c[1] = p /\ task[c].at \notin {"unheard", "done"}
             \/ p \in Chats /\ route[p] \notin {"idle", "done"}

\* The next row.
Insert(p) == /\ lastId' = lastId + 1
             /\ table' = table \cup {[id |-> lastId + 1, packet |-> p, count |-> 1]}

MsgInit == /\ Init
           /\ table = {} /\ disk = {} /\ lastId = 0
           /\ route = [s \in Chats |-> "idle"]
           /\ task = [c \in Copies |-> Unheard]
           /\ answered = {} /\ aired = {} /\ overlapped = {} /\ deleted = {}

-----------------------------------------------------------------------------
(* send_message.                                                           *)

Goto(s, at) == route' = [route EXCEPT ![s] = at]

Send(s, ms) ==
    /\ route[s] = "idle" /\ Goto(s, "sending")
    /\ Request(s, ms)
    /\ UNCHANGED <<table, disk, lastId, task, answered, aired, overlapped,
                   deleted>>

\* send_text fails: nothing is stored.
SendFails(s) ==
    /\ Refuse(s) \/ EmitFails(s)
    /\ Goto(s, "done")
    /\ UNCHANGED <<table, disk, lastId, task, answered, aired, overlapped,
                   deleted>>

OnTheAir(s) ==
    /\ Emit(s)
    /\ aired' = aired \cup {s}
    /\ UNCHANGED <<table, disk, lastId, route, task, answered, overlapped,
                   deleted>>

Transmitted(s) ==
    /\ Record(s)
    /\ Goto(s, "lookup")
    /\ UNCHANGED <<table, disk, lastId, task, answered, aired, overlapped,
                   deleted>>

\* _lookup_node_name asks the database and the companion.
RouteLooksUp(s) ==
    /\ route[s] = "lookup" /\ Goto(s, "insert")
    /\ UNCHANGED <<vars, table, disk, lastId, task, answered, aired,
                   overlapped, deleted>>

\* save_sent inserts without a look at what is there.
RouteInserts(s) ==
    /\ route[s] = "insert" /\ Goto(s, "commit")
    /\ Insert(s)
    /\ deleted' = deleted \ {s}
    /\ UNCHANGED <<vars, disk, task, answered, aired, overlapped>>

\* Mutant: the request is answered before the commit.
RouteAnswersFirst(s) ==
    /\ route[s] = "commit" /\ Goto(s, "done")
    /\ answered' = answered \cup {s}
    /\ UNCHANGED <<vars, table, disk, lastId, task, aired, overlapped, deleted>>

RouteAnswers(s) ==
    /\ route[s] = "commit" /\ Goto(s, "done")
    /\ disk' = table
    /\ answered' = answered \cup {s}
    /\ UNCHANGED <<vars, table, lastId, task, aired, overlapped, deleted>>

-----------------------------------------------------------------------------
(* on_text_packet and the task it starts.                                  *)

Hear(c) ==
    /\ task[c] = Unheard /\ Cardinality(AllHeard) < MaxHeard
    /\ c[1] \in Foreign \cup aired
    /\ \A i \in 1..(c[2] - 1) : task[<<c[1], i>>] # Unheard
    /\ task' = [task EXCEPT ![c].at = "lookup"]
    /\ overlapped' = IF InHand(c[1]) THEN overlapped \cup {c[1]} ELSE overlapped
    /\ UNCHANGED <<vars, table, disk, lastId, route, answered, aired, deleted>>

\* The names of a MeshCore sender are written, and committed, on the way.
TaskLooksUp(c) ==
    /\ task[c].at = "lookup"
    /\ task' = [task EXCEPT ![c].at = "check"]
    /\ disk' \in {disk, table}
    /\ UNCHANGED <<vars, table, lastId, route, answered, aired, overlapped,
                   deleted>>

\* Mutant: it looks among the received ones only.
StoredReceived(p) == {r \in RowsOf(table, p) : p \in Foreign}
\* save_received reads whether the packet is stored, whatever its direction ...
Stored(p) == RowsOf(table, p)

TaskChecks(c) ==
    /\ task[c].at = "check"
    /\ LET rows == Stored(c[1])
       IN  task' = [task EXCEPT ![c] =
             IF rows = {} THEN [at |-> "insert", row |-> 0, count |-> 0]
             ELSE [at |-> "update", row |-> First(rows).id,
                   count |-> First(rows).count + 1]]
    /\ UNCHANGED <<vars, table, disk, lastId, route, answered, aired,
                   overlapped, deleted>>

\* ... and then inserts, or writes the count it worked out from what it read.
TaskInserts(c) ==
    /\ task[c].at = "insert"
    /\ Insert(c[1])
    /\ task' = [task EXCEPT ![c].at = "commit"]
    /\ UNCHANGED <<vars, disk, route, answered, aired, overlapped, deleted>>

TaskUpdates(c) ==
    /\ task[c].at = "update"
    /\ table' = {IF r.id = task[c].row THEN [r EXCEPT !.count = task[c].count]
                 ELSE r : r \in table}
    /\ task' = [task EXCEPT ![c].at = "commit"]
    /\ UNCHANGED <<vars, disk, lastId, route, answered, aired, overlapped,
                   deleted>>

TaskEnds(c) ==
    /\ task[c].at = "commit"
    /\ disk' = table
    /\ task' = [task EXCEPT ![c] = Finished]
    /\ UNCHANGED <<vars, table, lastId, route, answered, aired, overlapped,
                   deleted>>

\* DELETE of a conversation, here that of one packet; its commit follows at
\* once or is left to whoever commits next.
DeleteConversation(p) ==
    /\ RowsOf(table, p) # {} /\ p \notin deleted
    /\ table' = table \ RowsOf(table, p)
    /\ disk' \in {disk, table'}
    /\ deleted' = deleted \cup {p}
    /\ UNCHANGED <<vars, lastId, route, task, answered, aired, overlapped>>

-----------------------------------------------------------------------------
\* A restart ends every task and request where it is, with what was written
\* and not committed.
ServiceRestarts ==
    /\ Restart
    /\ table' = disk
    /\ route' = [s \in Chats |-> IF route[s] = "idle" THEN "idle" ELSE "done"]
    /\ task' = [c \in Copies |-> IF task[c] = Unheard THEN Unheard ELSE Finished]
    /\ UNCHANGED <<disk, lastId, answered, aired, overlapped, deleted>>

\* The NodeInfo broadcaster transmits, the clock goes on and the usage is read.
Others ==
    /\ \/ \E s \in Senders \ Chats :
            \/ \E ms \in Airtimes : Request(s, ms)
            \/ Refuse(s) \/ Emit(s) \/ EmitFails(s) \/ Record(s)
       \/ \E s \in Senders : Approve(s)
       \/ Observe \/ Tick
    /\ UNCHANGED messageVars

RouteSteps(s) == \/ \E ms \in Airtimes : Send(s, ms)
                 \/ SendFails(s) \/ OnTheAir(s) \/ Transmitted(s)
                 \/ RouteLooksUp(s) \/ RouteInserts(s) \/ RouteAnswers(s)
TaskSteps(c) == \/ Hear(c) \/ TaskLooksUp(c) \/ TaskChecks(c)
                \/ TaskInserts(c) \/ TaskUpdates(c) \/ TaskEnds(c)

MsgNext == \/ \E s \in Chats : RouteSteps(s)
           \/ \E c \in Copies : TaskSteps(c)
           \/ \E p \in Packets : DeleteConversation(p)
           \/ ServiceRestarts
           \/ Others

MsgSpec == MsgInit /\ [][MsgNext]_allVars

-----------------------------------------------------------------------------
\* Besides the types: an id is given once.
MsgTypeOK ==
    /\ TxTypeOK
    /\ \A r \in table \cup disk : r.id \in 1..lastId /\ r.packet \in Packets
    /\ \A q, r \in table : q.id = r.id => q = r
    /\ aired \subseteq Chats /\ answered \subseteq aired

Heard(p) == Cardinality({c \in AllHeard : c[1] = p})

\* A packet has one row, which counts no more than what was heard of it and
\* sent, whatever is deleted or lost in a restart, unless two of its copies, or
\* the request that sends it and a copy, were in hand at the same time:
\* save_received deduplicates what comes one after the other and nothing else.
OneRowUnlessOverlap ==
    \A p \in Packets \ overlapped :
        /\ Cardinality(RowsOf(table, p)) <= 1
        /\ \A r \in RowsOf(table, p) :
              r.count <= Heard(p) + (IF p \in Chats THEN 1 ELSE 0)

\* A message the dashboard was told is sent is on disk until its conversation
\* is deleted: no restart, no copy of it and no other task takes it back.
AnsweredIsStored == \A s \in answered \ deleted : RowsOf(disk, s) # {}
=============================================================================
