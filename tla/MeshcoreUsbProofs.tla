--------------------------- MODULE MeshcoreUsbProofs --------------------------
(***************************************************************************)
(* Proofs about the MeshCore USB source, for any number of outages and of  *)
(* lost commands.                                                          *)
(*                                                                         *)
(* Nothing in the code locks the connection: what keeps start(), the       *)
(* scheduled reconnection, the health check and stop() from opening or     *)
(* closing it at the same time is the order in which they start each       *)
(* other.  That is the first invariant, UsbInv; what is known of the       *)
(* handle, of the probes and of the fetching rests on it.                  *)
(***************************************************************************)
EXTENDS MeshcoreUsb, TLAPS

Over == {"none", "ended"}
Places == {"new", "started", "cancelling", "stopped", "begin", "delay",
           "pulsing", "opening", "subscribed", "unfetching", "closing",
           "sleeping", "probing", "retrying", "none", "ended"}

\* Where each task can be.  main never reconnects, and shares with the others
\* only the awaits of _connect, in start(), and of _disconnect, in stop().
Typed == /\ at \in [Tasks -> Places]
         /\ at["main"] \in MainPlaces \cup Connecting \cup Disconnecting
         /\ at["recon"] \in Over \cup Reconnecting
         /\ at["health"] \in Over \cup HealthPlaces
                                  \cup (Reconnecting \ {"begin"})

\* While start() runs neither of the others has been started; while stop()
\* disconnects both are over; and the reconnection starts the health check
\* only as its last step.
Apart == /\ at["main"] \in {"new"} \cup Connecting =>
               at["recon"] = "none" /\ at["health"] = "none"
         /\ at["main"] \in {"cancelling", "stopped"} \cup Disconnecting =>
               at["recon"] \in Over /\ at["health"] \in Over
         /\ at["recon"] \in Reconnecting => at["health"] = "none"

UsbInv == Typed /\ Apart

USE DEF Tasks, Workers, Over, Places, MainPlaces, Connecting, Disconnecting,
        Reconnecting, HealthPlaces

-----------------------------------------------------------------------------
\* The source is not started: nobody opens the port.
LEMMA InitInv == Init => UsbInv
  BY DEF Init, UsbInv, Typed, Apart

\* Steps of the sender, the device and the library leave the tasks where they
\* are.
LEMMA Unmoved == UsbInv /\ at' = at => UsbInv'
  BY DEF UsbInv, Typed, Apart

\* A worker at work goes on, or ends: it never starts another task.
LEMMA WorkerMoves ==
    ASSUME NEW t \in Workers, NEW p \in (Reconnecting \ {"begin"}) \cup Over,
           UsbInv, at[t] \in Reconnecting,
           at' = [at EXCEPT ![t] = p]
    PROVE  UsbInv'
  BY DEF UsbInv, Typed, Apart

\* The health check goes round, ends, or begins a reconnection of its own.
LEMMA HealthMoves ==
    ASSUME NEW p \in {"ended"} \cup HealthPlaces \cup (Reconnecting \ {"begin"}),
           UsbInv, at["health"] \notin Over,
           at' = [at EXCEPT !["health"] = p]
    PROVE  UsbInv'
  BY DEF UsbInv, Typed, Apart

\* start() and stop() go on within themselves.
LEMMA MainMoves ==
    ASSUME NEW p \in MainPlaces \cup Connecting \cup Disconnecting, UsbInv,
           \/ at["main"] \in {"new"} \cup Connecting /\ p \in {"started"} \cup Connecting
           \/ /\ at["main"] \in {"cancelling"} \cup Disconnecting
              /\ p \in {"stopped"} \cup Disconnecting,
           at' = [at EXCEPT !["main"] = p]
    PROVE  UsbInv'
  BY DEF UsbInv, Typed, Apart

-----------------------------------------------------------------------------
\* The one place where a task starts another: the end of _connect.
LEMMA ContinuesInv ==
    ASSUME NEW t \in Tasks, NEW up \in BOOLEAN, UsbInv,
           at[t] \in Connecting, at' = Continues(t, up)
    PROVE  UsbInv'
<1>1. CASE t = "main" /\ up
  <2>1. at' = [at EXCEPT !["main"] = "started", !["health"] = "sleeping"]
    BY <1>1 DEF Continues
  <2> QED  BY <1>1, <2>1 DEF UsbInv, Typed, Apart
<1>2. CASE t = "main" /\ ~up
  <2>1. at' = [at EXCEPT !["main"] = "started", !["recon"] = "begin"]
    BY <1>2 DEF Continues
  <2> QED  BY <1>2, <2>1 DEF UsbInv, Typed, Apart
<1>3. CASE t = "recon" /\ up
  <2>1. at' = [at EXCEPT !["recon"] = "ended", !["health"] = "sleeping"]
    BY <1>3 DEF Continues
  <2> QED  BY <1>3, <2>1 DEF UsbInv, Typed, Apart
<1>4. CASE t = "health" /\ up
  <2>1. at' = [at EXCEPT !["health"] = LoopTop(TRUE)]
    BY <1>4 DEF Continues
  <2>2. LoopTop(TRUE) \in {"sleeping", "ended"}
    BY DEF LoopTop
  <2> QED  BY <1>4, <2>1, <2>2, HealthMoves
<1>5. CASE t \in Workers /\ ~up
  <2>1. at' = [at EXCEPT ![t] = IF running THEN "delay" ELSE "ended"]
    BY <1>5 DEF Continues
  <2> QED  BY <1>5, <2>1, WorkerMoves
<1> QED  BY <1>1, <1>2, <1>3, <1>4, <1>5

\* _connect, run by any of the three.
LEMMA ConnectInv ==
    ASSUME NEW t \in Tasks, UsbInv, Connect(t), connected \in BOOLEAN
    PROVE  UsbInv'
<1>1. CASE Opens(t)
  <2>1. at[t] = "opening" /\ at' = [at EXCEPT ![t] = "subscribed"]
    BY <1>1 DEF Opens
  <2>2. CASE t = "main"
    BY <2>1, <2>2, MainMoves
  <2>3. CASE t \in Workers
    BY <2>1, <2>3, WorkerMoves
  <2> QED  BY <2>2, <2>3
<1>2. CASE OpenFails(t)
  BY <1>2, ContinuesInv DEF OpenFails
<1>3. CASE Fetches(t)
  BY <1>3, ContinuesInv DEF Fetches
<1>4. CASE FetchRaises(t)
  BY <1>4, ContinuesInv DEF FetchRaises
<1> QED  BY <1>1, <1>2, <1>3, <1>4 DEF Connect

\* _disconnect, run by a worker.
LEMMA WorkerDisconnects ==
    ASSUME NEW t \in Workers, UsbInv, Unfetches(t) \/ Closes(t)
    PROVE  UsbInv'
<1>1. at[t] \in Disconnecting
  BY DEF Unfetches, Closes
<1>2. AfterDisconnect(t) \in {"delay", "ended"}
  BY DEF AfterDisconnect
<1>3. at' = [at EXCEPT ![t] = "closing"] \/ at' = [at EXCEPT ![t] = AfterDisconnect(t)]
  BY DEF Unfetches, Closes
<1> QED  BY <1>1, <1>2, <1>3, WorkerMoves

\* The rest of _reconnect.
LEMMA ReconnectInv ==
    ASSUME NEW t \in Workers, UsbInv, DelayEnds(t) \/ Pulses(t)
    PROVE  UsbInv'
<1>1. at[t] \in {"delay", "pulsing"}
  BY DEF DelayEnds, Pulses
<1>2. \E p \in {"ended", "opening", "pulsing"} : at' = [at EXCEPT ![t] = p]
  BY DEF DelayEnds, Pulses
<1> QED  BY <1>1, <1>2, WorkerMoves

\* The health loop at its checks and its retries.
LEMMA HealthInv ==
    ASSUME UsbInv, HealthCheck PROVE UsbInv'
<1>1. at["health"] \in {"sleeping", "probing", "retrying"}
  BY DEF HealthCheck, Wakes, ProbeAnswered, ProbeMissed, ProbeMissedAgain,
         RetryEnds
<1>2. \E p \in {"sleeping", "probing", "retrying", "unfetching", "delay", "ended"} :
         at' = [at EXCEPT !["health"] = p]
  BY DEF HealthCheck, Wakes, ProbeAnswered, ProbeMissed, ProbeMissedAgain,
         RetryEnds, Disconnects, AfterDisconnect, LoopTop
<1> QED  BY <1>1, <1>2, HealthMoves

\* start() and stop().
LEMMA MainInv ==
    ASSUME UsbInv,
           \/ StartFinds \/ StartFindsNone \/ Stop \/ StopDisconnects
           \/ Unfetches("main") \/ Closes("main")
    PROVE  UsbInv'
<1>1. CASE StartFinds \/ StartFindsNone
  BY <1>1, MainMoves DEF StartFinds, StartFindsNone
<1>2. CASE Stop
  BY <1>2 DEF Stop, Active, UsbInv, Typed, Apart
<1>3. CASE StopDisconnects
  BY <1>3, MainMoves DEF StopDisconnects, Disconnects
<1>4. CASE Unfetches("main") \/ Closes("main")
  BY <1>4, MainMoves DEF Unfetches, Closes, AfterDisconnect
<1> QED  BY <1>1, <1>2, <1>3, <1>4

\* Every action keeps the invariant.
LEMMA NextInv == UsbInv /\ connected \in BOOLEAN /\ [Next]_vars => UsbInv'
<1> SUFFICES ASSUME UsbInv, connected \in BOOLEAN, [Next]_vars PROVE UsbInv'
  OBVIOUS
<1>1. CASE \/ StartFinds \/ StartFindsNone \/ Stop \/ StopDisconnects
           \/ Unfetches("main") \/ Closes("main")
  BY <1>1, MainInv
<1>2. CASE Begins
  <2>1. at["recon"] = "begin" /\ AfterDisconnect("recon") \in {"delay", "ended"}
    BY <1>2 DEF Begins, AfterDisconnect
  <2>2. \E p \in {"delay", "ended", "unfetching"} : at' = [at EXCEPT !["recon"] = p]
    BY <1>2, <2>1 DEF Begins, Disconnects
  <2> QED  BY <2>1, <2>2, WorkerMoves
<1>3. CASE HealthCheck
  BY <1>3, HealthInv
<1>4. ASSUME NEW t \in Workers, Worker(t) PROVE UsbInv'
  BY <1>4, ConnectInv, WorkerDisconnects, ReconnectInv DEF Worker
<1>5. CASE Connect("main")
  BY <1>5, ConnectInv
<1>6. CASE TxBegins \/ Sender \/ Companion
  BY <1>6, Unmoved DEF TxBegins, Sender, TxEnds, TxRefetches, TxRefetchFails,
     Companion, EventArrives, WindowPasses, DeviceFails, DeviceReturns
<1>7. CASE UNCHANGED vars
  BY <1>7, Unmoved DEF vars
<1> QED  BY <1>1, <1>2, <1>3, <1>4, <1>5, <1>6, <1>7 DEF Next

-----------------------------------------------------------------------------
(* The handle, the probes and the fetching.                                *)

\* The ranges of the variables, and which handles hold the port.
DataTypes ==
    /\ running \in BOOLEAN /\ connected \in BOOLEAN
    /\ recent \in BOOLEAN /\ unfetched \in BOOLEAN
    /\ attempts \in 0..2 /\ misses \in 0..1
    /\ glitches \in Nat /\ outages \in Nat /\ opened \in Nat
    /\ device \in {"up", "down"}
    /\ tx \in [place : {"idle", "sending", "refetching"}, on : Nat]
    /\ handle \in 0..opened
    /\ live \subseteq open /\ fetching \subseteq open
    /\ open \subseteq 1..opened

\* While the source is connected its handle holds the port.  The port is held
\* besides only by handles of a _connect that failed half way; a reconnection
\* starts from such a handle or from none, and _disconnect only runs on one.
Connections ==
    /\ connected => handle \in open
    /\ open \subseteq half \cup {handle}
    /\ \A t \in Tasks :
         /\ at[t] \in Disconnecting => ~connected /\ handle # 0
         /\ at[t] = "subscribed" => connected
         /\ at[t] \in {"begin", "delay", "pulsing", "opening"} =>
               ~connected /\ handle \in half \cup {0}
    /\ at["health"] \in HealthPlaces => connected
    /\ at["main"] = "stopped" => ~connected /\ handle = 0
    /\ at["main"] = "new" => ~connected
    /\ at["main"] \in {"new", "opening"} => handle = 0 /\ opened = 0

\* On a device that stays in place every failure is a lost command; it takes
\* two of them in a row, unless a _connect failed half way, to reconnect.
Patience ==
    /\ outages = 0 => /\ live = open
                      /\ device = "down" => opened = 0
    /\ outages = 0 /\ half = {} =>
          /\ misses = 1 => glitches >= 1
          /\ at["health"] \in Reconnecting => glitches >= 2
          /\ at["recon"] \in Reconnecting \ {"subscribed"} => opened = 0
          /\ opened <= 1 \/ glitches >= 2

\* Fetching is on for the handle whenever _connect is over, but for the moment
\* in which the transmit client turns it on again.
Fetching ==
    /\ running /\ connected /\ ~unfetched
    /\ \A t \in Tasks : at[t] # "subscribed"
    /\ ~(tx.place = "refetching" /\ tx.on = handle)
    => handle \in fetching

SourceInv == UsbInv /\ DataTypes /\ Connections /\ Patience /\ Fetching

\* Where the tasks are when the _connect of task t has returned.
Returned(t, up) ==
    /\ \A u \in Tasks : at[u] \in Reconnecting => at[u] \in {"begin", "delay"}
    /\ up => \A u \in Tasks : at[u] \notin Reconnecting
    /\ ~up => at["health"] \notin HealthPlaces
    /\ at["main"] = "started"
    /\ at["health"] \in {"begin", "delay"} => t = "health"
    /\ at["recon"] \in {"begin", "delay"} => t \in {"main", "recon"}

\* _connect leaves at most a reconnection behind, of its own task or, after
\* the first connection, the scheduled one.
LEMMA ContinuesReturned ==
    ASSUME NEW t \in Tasks, NEW up \in BOOLEAN, UsbInv,
           at[t] \in Connecting, at' = Continues(t, up)
    PROVE  Returned(t, up)'
  BY DEF Continues, LoopTop, UsbInv, Typed, Apart, Returned

\* Every step keeps the ranges.
LEMMA DataTypesStep ==
    ASSUME SourceInv, [Next]_vars PROVE DataTypes'
<1>0. UsbInv /\ DataTypes /\ Connections /\ Patience /\ Fetching
  BY DEF SourceInv
<1>1. CASE StartFinds
  BY <1>0, <1>1 DEF StartFinds, others, deviceVars, DataTypes
<1>2. CASE StartFindsNone
  BY <1>0, <1>2 DEF StartFindsNone, sourceVars, others, deviceVars, DataTypes
<1>3. CASE Begins
  <2>1. connected' \in BOOLEAN
    BY <1>3 DEF Begins, Disconnects
  <2> QED
    BY <1>0, <1>3, <2>1 DEF Begins, others, deviceVars, DataTypes
<1>4. CASE Wakes
  BY <1>0, <1>4 DEF Wakes, others, deviceVars, DataTypes
<1>5. CASE ProbeAnswered
  BY <1>0, <1>5 DEF ProbeAnswered, others, deviceVars, DataTypes
<1>6. CASE ProbeMissed
  BY <1>0, <1>6 DEF ProbeMissed, Fails, others, deviceVars, DataTypes
<1>7. CASE ProbeMissedAgain
  <2>1. connected' \in BOOLEAN /\ glitches' \in {glitches, glitches + 1}
    BY <1>7 DEF ProbeMissedAgain, Disconnects, Fails
  <2>2. misses' = 0 /\ attempts' = 0 /\ UNCHANGED <<running, handle, others>>
    BY <1>7 DEF ProbeMissedAgain
  <2> QED
    BY <1>0, <2>1, <2>2 DEF others, deviceVars, DataTypes
<1>8. CASE RetryEnds
  BY <1>0, <1>8 DEF RetryEnds, sourceVars, others, deviceVars, DataTypes
<1>9. CASE Stop
  BY <1>0, <1>9 DEF Stop, others, deviceVars, DataTypes
<1>10. CASE StopDisconnects
  BY <1>0, <1>10 DEF StopDisconnects, Disconnects, others, deviceVars,
                     DataTypes
<1>11. CASE TxBegins
  BY <1>0, <1>11 DEF TxBegins, sourceVars, deviceVars, DataTypes
<1>12. CASE TxEnds
  BY <1>0, <1>12 DEF TxEnds, Idle, sourceVars, DataTypes
<1>13. CASE TxRefetches
  BY <1>0, <1>13 DEF TxRefetches, Idle, sourceVars, DataTypes
<1>14. CASE TxRefetchFails
  BY <1>0, <1>14 DEF TxRefetchFails, Idle, Fails, sourceVars, deviceVars,
                     DataTypes
<1>15. CASE EventArrives
  BY <1>0, <1>15 DEF EventArrives, sourceVars, deviceVars, DataTypes
<1>16. CASE WindowPasses
  BY <1>0, <1>16 DEF WindowPasses, sourceVars, deviceVars, DataTypes
<1>17. CASE DeviceFails
  BY <1>0, <1>17 DEF DeviceFails, sourceVars, DataTypes
<1>18. CASE DeviceReturns
  BY <1>0, <1>18 DEF DeviceReturns, sourceVars, DataTypes
<1>19. ASSUME NEW t \in Tasks, Opens(t) PROVE DataTypes'
  BY <1>0, <1>19 DEF Opens, DataTypes
<1>20. ASSUME NEW t \in Tasks, OpenFails(t) PROVE DataTypes'
  <2>1. /\ connected' \in BOOLEAN /\ handle' \in {0, handle}
        /\ glitches' \in {glitches, glitches + 1}
    BY <1>20 DEF OpenFails
  <2>2. UNCHANGED <<running, misses, attempts, others>>
    BY <1>20 DEF OpenFails
  <2> QED
    BY <1>0, <2>1, <2>2 DEF others, deviceVars, DataTypes
<1>21. ASSUME NEW t \in Tasks, Fetches(t) PROVE DataTypes'
  BY <1>0, <1>21 DEF Fetches, sourceVars, DataTypes
<1>22. ASSUME NEW t \in Tasks, FetchRaises(t) PROVE DataTypes'
  <2>1. connected' \in BOOLEAN /\ glitches' \in {glitches, glitches + 1}
    BY <1>22 DEF FetchRaises, Fails
  <2>2. UNCHANGED <<running, handle, misses, attempts, recent, tx, deviceVars,
                    opened, unfetched>>
    BY <1>22 DEF FetchRaises
  <2> QED
    BY <1>0, <2>1, <2>2 DEF deviceVars, DataTypes
<1>23. ASSUME NEW t \in Tasks, Unfetches(t) PROVE DataTypes'
  BY <1>0, <1>23 DEF Unfetches, sourceVars, DataTypes
<1>24. ASSUME NEW t \in Tasks, Closes(t) PROVE DataTypes'
  BY <1>0, <1>24 DEF Closes, DataTypes
<1>25. ASSUME NEW t \in Workers, DelayEnds(t) PROVE DataTypes'
  BY <1>0, <1>25 DEF DelayEnds, others, deviceVars, DataTypes
<1>26. ASSUME NEW t \in Workers, Pulses(t) PROVE DataTypes'
  BY <1>0, <1>26 DEF Pulses, sourceVars, others, deviceVars, DataTypes
<1>27. CASE UNCHANGED vars
  BY <1>0, <1>27 DEF vars, DataTypes
<1> QED
  BY <1>1, <1>2, <1>3, <1>4, <1>5, <1>6, <1>7, <1>8, <1>9, <1>10, <1>11, <1>12,
     <1>13, <1>14, <1>15, <1>16, <1>17, <1>18, <1>19, <1>20, <1>21, <1>22,
     <1>23, <1>24, <1>25, <1>26, <1>27
     DEF Next, HealthCheck, Worker, Connect, Sender, Companion

\* Every step keeps the handle and the port as they should be.
LEMMA ConnectionsStep ==
    ASSUME SourceInv, [Next]_vars PROVE Connections'
<1>0. UsbInv /\ DataTypes /\ Connections /\ Patience /\ Fetching
  BY DEF SourceInv
<1>1. CASE StartFinds
  BY <1>0, <1>1 DEF StartFinds, others, deviceVars, Connections
<1>2. CASE StartFindsNone
  BY <1>0, <1>2 DEF StartFindsNone, sourceVars, others, deviceVars, Connections
<1>3. CASE Begins
  BY <1>0, <1>3 DEF Begins, Disconnects, AfterDisconnect, others, deviceVars,
                    Connections
<1>4. CASE Wakes
  BY <1>0, <1>4 DEF Wakes, LoopTop, others, deviceVars, Connections
<1>5. CASE ProbeAnswered
  BY <1>0, <1>5 DEF ProbeAnswered, LoopTop, others, deviceVars, Connections
<1>6. CASE ProbeMissed
  BY <1>0, <1>6 DEF ProbeMissed, others, deviceVars, Connections
<1>7. CASE ProbeMissedAgain
  BY <1>0, <1>7 DEF ProbeMissedAgain, Disconnects, AfterDisconnect, others,
                    deviceVars, UsbInv, Typed, Apart, Connections
<1>8. CASE RetryEnds
  BY <1>0, <1>8 DEF RetryEnds, LoopTop, sourceVars, others, deviceVars,
                    Connections
<1>9. CASE Stop
  BY <1>0, <1>9 DEF Stop, others, deviceVars, Connections
<1>10. CASE StopDisconnects
  BY <1>0, <1>10 DEF StopDisconnects, Disconnects, others, deviceVars, UsbInv,
                     Apart, Connections
<1>11. CASE TxBegins
  BY <1>0, <1>11 DEF TxBegins, sourceVars, deviceVars, Connections
<1>12. CASE TxEnds
  BY <1>0, <1>12 DEF TxEnds, sourceVars, Connections
<1>13. CASE TxRefetches
  BY <1>0, <1>13 DEF TxRefetches, sourceVars, Connections
<1>14. CASE TxRefetchFails
  BY <1>0, <1>14 DEF TxRefetchFails, sourceVars, deviceVars, Connections
<1>15. CASE EventArrives
  BY <1>0, <1>15 DEF EventArrives, sourceVars, deviceVars, Connections
<1>16. CASE WindowPasses
  BY <1>0, <1>16 DEF WindowPasses, sourceVars, deviceVars, Connections
<1>17. CASE DeviceFails
  BY <1>0, <1>17 DEF DeviceFails, sourceVars, Connections
<1>18. CASE DeviceReturns
  BY <1>0, <1>18 DEF DeviceReturns, sourceVars, Connections
<1>19. ASSUME NEW t \in Tasks, Opens(t) PROVE Connections'
  <2>1. handle \in half \cup {0} /\ 0 \notin open
    BY <1>0, <1>19 DEF Opens, Connections, DataTypes
  <2>2. /\ connected' /\ handle' = opened + 1 /\ open' = open \cup {handle'}
        /\ half' = half /\ opened' = opened + 1
        /\ at[t] = "opening" /\ at' = [at EXCEPT ![t] = "subscribed"]
    BY <1>19 DEF Opens
  <2>3. \A u \in Tasks \ {t} : at'[u] \notin Reconnecting
    BY <1>0, <2>2 DEF UsbInv, Typed, Apart
  <2>4. at'[t] = "subscribed" /\ at'["main"] \notin {"new", "opening", "stopped"}
    BY <1>0, <2>2 DEF UsbInv, Typed, Apart
  <2>5. open' \subseteq half' \cup {handle'}
    BY <1>0, <2>1, <2>2 DEF Connections
  <2> QED
    BY <2>2, <2>3, <2>4, <2>5 DEF Connections
<1>20. ASSUME NEW t \in Tasks, OpenFails(t) PROVE Connections'
  <2>1. at[t] \in Connecting /\ at' = Continues(t, FALSE)
    BY <1>20 DEF OpenFails, Connections
  <2>2. Returned(t, FALSE)'
    BY <1>0, <2>1, ContinuesReturned
  <2> QED
    BY <1>0, <1>20, <2>1, <2>2 DEF OpenFails, others, deviceVars, Connections,
                                   Returned
<1>21. ASSUME NEW t \in Tasks, Fetches(t) PROVE Connections'
  <2>1. at[t] \in Connecting /\ at' = Continues(t, TRUE)
    BY <1>0, <1>21 DEF Fetches, Connections
  <2>2. Returned(t, TRUE)'
    BY <1>0, <2>1, ContinuesReturned
  <2> QED
    BY <1>0, <1>21, <2>1, <2>2 DEF Fetches, sourceVars, Connections, Returned
<1>22. ASSUME NEW t \in Tasks, FetchRaises(t) PROVE Connections'
  <2>1. at[t] \in Connecting /\ at' = Continues(t, FALSE)
    BY <1>22 DEF FetchRaises, Connections
  <2>2. Returned(t, FALSE)'
    BY <1>0, <2>1, ContinuesReturned
  <2> QED
    BY <1>0, <1>22, <2>1, <2>2 DEF FetchRaises, deviceVars, Connections,
                                   Returned
<1>23. ASSUME NEW t \in Tasks, Unfetches(t) PROVE Connections'
  BY <1>0, <1>23 DEF Unfetches, sourceVars, Connections
<1>24. ASSUME NEW t \in Tasks, Closes(t) PROVE Connections'
  BY <1>0, <1>24 DEF Closes, AfterDisconnect, UsbInv, Typed, Apart, Connections
<1>25. ASSUME NEW t \in Workers, DelayEnds(t) PROVE Connections'
  BY <1>0, <1>25 DEF DelayEnds, others, deviceVars, Connections
<1>26. ASSUME NEW t \in Workers, Pulses(t) PROVE Connections'
  BY <1>0, <1>26 DEF Pulses, sourceVars, others, deviceVars, Connections
<1>27. CASE UNCHANGED vars
  BY <1>0, <1>27 DEF vars, Connections
<1> QED
  BY <1>1, <1>2, <1>3, <1>4, <1>5, <1>6, <1>7, <1>8, <1>9, <1>10, <1>11, <1>12,
     <1>13, <1>14, <1>15, <1>16, <1>17, <1>18, <1>19, <1>20, <1>21, <1>22,
     <1>23, <1>24, <1>25, <1>26, <1>27
     DEF Next, HealthCheck, Worker, Connect, Sender, Companion

\* Every step keeps the account of lost commands.
LEMMA PatienceStep ==
    ASSUME SourceInv, [Next]_vars PROVE Patience'
<1>0. UsbInv /\ DataTypes /\ Connections /\ Patience /\ Fetching
  BY DEF SourceInv
<1>1. CASE StartFinds
  BY <1>0, <1>1 DEF StartFinds, others, deviceVars, Patience
<1>2. CASE StartFindsNone
  BY <1>0, <1>2 DEF StartFindsNone, sourceVars, others, deviceVars, Patience
<1>3. CASE Begins
  BY <1>0, <1>3 DEF Begins, Disconnects, others, deviceVars, Patience
<1>4. CASE Wakes
  BY <1>0, <1>4 DEF Wakes, LoopTop, others, deviceVars, Patience
<1>5. CASE ProbeAnswered
  BY <1>0, <1>5 DEF ProbeAnswered, LoopTop, others, deviceVars, Patience
<1>6. CASE ProbeMissed
  BY <1>0, <1>6 DEF ProbeMissed, Fails, others, deviceVars, DataTypes,
                    Connections, Patience
<1>7. CASE ProbeMissedAgain
  BY <1>0, <1>7 DEF ProbeMissedAgain, Fails, Disconnects, others, deviceVars,
                    DataTypes, Connections, Patience
<1>8. CASE RetryEnds
  BY <1>0, <1>8 DEF RetryEnds, LoopTop, sourceVars, others, deviceVars,
                    Patience
<1>9. CASE Stop
  BY <1>0, <1>9 DEF Stop, others, deviceVars, Patience
<1>10. CASE StopDisconnects
  BY <1>0, <1>10 DEF StopDisconnects, Disconnects, others, deviceVars, Patience
<1>11. CASE TxBegins
  BY <1>0, <1>11 DEF TxBegins, sourceVars, deviceVars, Patience
<1>12. CASE TxEnds
  BY <1>0, <1>12 DEF TxEnds, sourceVars, Patience
<1>13. CASE TxRefetches
  BY <1>0, <1>13 DEF TxRefetches, sourceVars, Patience
<1>14. CASE TxRefetchFails
  BY <1>0, <1>14 DEF TxRefetchFails, Fails, sourceVars, deviceVars, DataTypes,
                     Patience
<1>15. CASE EventArrives
  BY <1>0, <1>15 DEF EventArrives, sourceVars, deviceVars, Patience
<1>16. CASE WindowPasses
  BY <1>0, <1>16 DEF WindowPasses, sourceVars, deviceVars, Patience
<1>17. CASE DeviceFails
  BY <1>0, <1>17 DEF DeviceFails, DataTypes, Patience
<1>18. CASE DeviceReturns
  <2>1. outages = 0 => open = {}
    BY <1>0, <1>18 DEF DeviceReturns, DataTypes, Patience
  <2> QED
    BY <1>0, <2>1, <1>18 DEF DeviceReturns, sourceVars, Patience
<1>19. ASSUME NEW t \in Tasks, Opens(t) PROVE Patience'
  BY <1>0, <1>19 DEF Opens, UsbInv, Typed, Apart, Connections, Patience
<1>20. ASSUME NEW t \in Tasks, OpenFails(t) PROVE Patience'
  <2>1. at[t] \in Connecting /\ at' = Continues(t, FALSE)
    BY <1>20 DEF OpenFails
  <2>2. Returned(t, FALSE)'
    BY <1>0, <2>1, ContinuesReturned
  <2>3. /\ UNCHANGED <<misses, outages, half, live, open, device, opened>>
        /\ glitches' \in {glitches, glitches + 1} /\ at[t] = "opening"
    BY <1>20 DEF OpenFails, others, deviceVars
  <2>4. (outages = 0 /\ half = {}) =>
           /\ t \in {"main", "recon"} => opened = 0
           /\ t = "health" => glitches >= 2
    BY <1>0, <2>3 DEF Patience, Connections
  <2> QED
    BY <1>0, <2>2, <2>3, <2>4 DEF Returned, Patience, DataTypes
<1>21. ASSUME NEW t \in Tasks, Fetches(t) PROVE Patience'
  <2>1. at[t] \in Connecting /\ at' = Continues(t, TRUE)
    BY <1>0, <1>21 DEF Fetches, Connections
  <2>2. Returned(t, TRUE)'
    BY <1>0, <2>1, ContinuesReturned
  <2> QED
    BY <1>0, <1>21, <2>1, <2>2 DEF Fetches, sourceVars, Patience, Returned
<1>22. ASSUME NEW t \in Tasks, FetchRaises(t) PROVE Patience'
  <2>1. at[t] \in Connecting /\ at' = Continues(t, FALSE)
    BY <1>22 DEF FetchRaises
  <2>2. Returned(t, FALSE)'
    BY <1>0, <2>1, ContinuesReturned
  <2> QED
    BY <1>0, <1>22, <2>1, <2>2 DEF FetchRaises, deviceVars, Patience, Returned
<1>23. ASSUME NEW t \in Tasks, Unfetches(t) PROVE Patience'
  BY <1>0, <1>23 DEF Unfetches, sourceVars, Patience
<1>24. ASSUME NEW t \in Tasks, Closes(t) PROVE Patience'
  BY <1>0, <1>24 DEF Closes, Patience
<1>25. ASSUME NEW t \in Workers, DelayEnds(t) PROVE Patience'
  BY <1>0, <1>25 DEF DelayEnds, others, deviceVars, Patience
<1>26. ASSUME NEW t \in Workers, Pulses(t) PROVE Patience'
  BY <1>0, <1>26 DEF Pulses, sourceVars, others, deviceVars, Patience
<1>27. CASE UNCHANGED vars
  BY <1>0, <1>27 DEF vars, Patience
<1> QED
  BY <1>1, <1>2, <1>3, <1>4, <1>5, <1>6, <1>7, <1>8, <1>9, <1>10, <1>11, <1>12,
     <1>13, <1>14, <1>15, <1>16, <1>17, <1>18, <1>19, <1>20, <1>21, <1>22,
     <1>23, <1>24, <1>25, <1>26, <1>27
     DEF Next, HealthCheck, Worker, Connect, Sender, Companion

\* Every step keeps fetching on.
LEMMA FetchingStep ==
    ASSUME SourceInv, [Next]_vars PROVE Fetching'
<1>0. UsbInv /\ DataTypes /\ Connections /\ Patience /\ Fetching
  BY DEF SourceInv
<1>1. CASE StartFinds
  BY <1>0, <1>1 DEF StartFinds, Connections, Fetching
<1>2. CASE StartFindsNone
  BY <1>0, <1>2 DEF StartFindsNone, sourceVars, others, deviceVars, Fetching
<1>3. CASE Begins
  BY <1>3 DEF Begins, Disconnects, Fetching
<1>4. CASE Wakes
  BY <1>0, <1>4 DEF Wakes, others, deviceVars, Fetching
<1>5. CASE ProbeAnswered
  BY <1>0, <1>5 DEF ProbeAnswered, others, deviceVars, Fetching
<1>6. CASE ProbeMissed
  BY <1>0, <1>6 DEF ProbeMissed, others, deviceVars, Fetching
<1>7. CASE ProbeMissedAgain
  BY <1>7 DEF ProbeMissedAgain, Disconnects, Fetching
<1>8. CASE RetryEnds
  BY <1>0, <1>8 DEF RetryEnds, sourceVars, others, deviceVars, Fetching
<1>9. CASE Stop
  BY <1>9 DEF Stop, Fetching
<1>10. CASE StopDisconnects
  BY <1>10 DEF StopDisconnects, Disconnects, Fetching
<1>11. CASE TxBegins
  BY <1>0, <1>11 DEF TxBegins, Idle, sourceVars, deviceVars, Fetching
<1>12. CASE TxEnds
  BY <1>0, <1>12 DEF TxEnds, sourceVars, DataTypes, Fetching
<1>13. CASE TxRefetches
  BY <1>0, <1>13 DEF TxRefetches, sourceVars, Fetching
<1>14. CASE TxRefetchFails
  BY <1>0, <1>14 DEF TxRefetchFails, sourceVars, deviceVars, Fetching
<1>15. CASE EventArrives
  BY <1>0, <1>15 DEF EventArrives, sourceVars, deviceVars, Fetching
<1>16. CASE WindowPasses
  BY <1>0, <1>16 DEF WindowPasses, sourceVars, deviceVars, Fetching
<1>17. CASE DeviceFails
  BY <1>0, <1>17 DEF DeviceFails, sourceVars, Fetching
<1>18. CASE DeviceReturns
  BY <1>0, <1>18 DEF DeviceReturns, sourceVars, Fetching
<1>19. ASSUME NEW t \in Tasks, Opens(t) PROVE Fetching'
  BY <1>0, <1>19 DEF Opens, UsbInv, Typed, Fetching
<1>20. ASSUME NEW t \in Tasks, OpenFails(t) PROVE Fetching'
  <2>1. at[t] \in Connecting /\ at' = Continues(t, FALSE)
    BY <1>20 DEF OpenFails
  <2>2. Returned(t, FALSE)'
    BY <1>0, <2>1, ContinuesReturned
  <2> QED
    BY <1>20, <2>1, <2>2 DEF OpenFails, Fetching
<1>21. ASSUME NEW t \in Tasks, Fetches(t) PROVE Fetching'
  <2>1. at[t] \in Connecting /\ at' = Continues(t, TRUE)
    BY <1>0, <1>21 DEF Fetches, Connections
  <2>2. Returned(t, TRUE)'
    BY <1>0, <2>1, ContinuesReturned
  <2> QED
    BY <1>21, <2>1, <2>2 DEF Fetches, sourceVars, Fetching
<1>22. ASSUME NEW t \in Tasks, FetchRaises(t) PROVE Fetching'
  <2>1. at[t] \in Connecting /\ at' = Continues(t, FALSE)
    BY <1>22 DEF FetchRaises
  <2>2. Returned(t, FALSE)'
    BY <1>0, <2>1, ContinuesReturned
  <2> QED
    BY <1>22, <2>1, <2>2 DEF FetchRaises, Fetching
<1>23. ASSUME NEW t \in Tasks, Unfetches(t) PROVE Fetching'
  BY <1>0, <1>23 DEF Unfetches, sourceVars, Connections, Fetching
<1>24. ASSUME NEW t \in Tasks, Closes(t) PROVE Fetching'
  BY <1>0, <1>24 DEF Closes, Connections, Fetching
<1>25. ASSUME NEW t \in Workers, DelayEnds(t) PROVE Fetching'
  BY <1>0, <1>25 DEF DelayEnds, others, deviceVars, Fetching
<1>26. ASSUME NEW t \in Workers, Pulses(t) PROVE Fetching'
  BY <1>0, <1>26 DEF Pulses, sourceVars, others, deviceVars, Fetching
<1>27. CASE UNCHANGED vars
  BY <1>0, <1>27 DEF vars, Fetching
<1> QED
  BY <1>1, <1>2, <1>3, <1>4, <1>5, <1>6, <1>7, <1>8, <1>9, <1>10, <1>11, <1>12,
     <1>13, <1>14, <1>15, <1>16, <1>17, <1>18, <1>19, <1>20, <1>21, <1>22,
     <1>23, <1>24, <1>25, <1>26, <1>27
     DEF Next, HealthCheck, Worker, Connect, Sender, Companion

\* All of it holds in every state the source reaches.
LEMMA SourceInvHolds == Spec => []SourceInv
<1>1. Init => SourceInv
  <2>1. Init => UsbInv
    BY InitInv
  <2>2. Init => DataTypes
    <3>1. Init => tx \in [place : {"idle", "sending", "refetching"}, on : Nat]
      BY DEF Init, Idle
    <3>2. Init => /\ running \in BOOLEAN /\ connected \in BOOLEAN
                  /\ recent \in BOOLEAN /\ unfetched \in BOOLEAN
      BY DEF Init
    <3>3. Init => /\ attempts \in 0..2 /\ misses \in 0..1
                  /\ glitches \in Nat /\ outages \in Nat /\ opened \in Nat
                  /\ handle \in 0..opened
      BY DEF Init
    <3> QED
      BY <3>1, <3>2, <3>3 DEF Init, DataTypes
  <2>3. Init => Connections
    BY DEF Init, Connections
  <2>4. Init => Patience /\ Fetching
    BY DEF Init, Patience, Fetching
  <2> QED
    BY <2>1, <2>2, <2>3, <2>4 DEF SourceInv
<1>2. SourceInv /\ [Next]_vars => SourceInv'
  <2> SUFFICES ASSUME SourceInv, [Next]_vars PROVE SourceInv'
    OBVIOUS
  <2>1. UsbInv'
    BY NextInv DEF SourceInv, DataTypes
  <2> QED
    BY <2>1, DataTypesStep, ConnectionsStep, PatienceStep, FetchingStep
       DEF SourceInv
<1> QED
  BY <1>1, <1>2, PTL DEF Spec

\* The connection is opened and closed by one task at a time
\* (meshcore_usb_source.py, start, stop, _reconnect and _health_loop).
THEOREM OneOpenerHolds == Spec => []OneOpener
<1>1. SourceInv => OneOpener
  BY DEF SourceInv, UsbInv, Typed, Apart, OneOpener
<1> QED
  BY <1>1, SourceInvHolds, PTL

\* Every task is at an await of its own, and only handles that were opened hold
\* the port, answer, or fetch.
THEOREM UsbTypes == Spec => []UsbTypeOK
<1>1. SourceInv => UsbTypeOK
  BY DEF SourceInv, UsbInv, Typed, DataTypes, UsbTypeOK
<1> QED
  BY <1>1, SourceInvHolds, PTL

\* When stop() has returned no task of the source runs and the port is released,
\* except by handles of a _connect that failed half way: for any number of
\* outages and lost commands, and wherever the tasks were cancelled.
THEOREM StopReleasesThePort == Spec => []StoppedIsClean
<1>1. SourceInv => StoppedIsClean
  BY DEF SourceInv, UsbInv, Apart, DataTypes, Connections, StoppedIsClean,
         Active
<1> QED
  BY <1>1, SourceInvHolds, PTL

\* A single command lost on a device that stays in place does not make the
\* health check tear its connection down, unless a _connect failed half way.
THEOREM ALostCommandIsTolerated == Spec => []OneMissTolerated
<1>1. SourceInv => OneMissTolerated
  BY DEF SourceInv, DataTypes, Patience, OneMissTolerated
<1> QED
  BY <1>1, SourceInvHolds, PTL

\* While the source runs on a connection that works, and nothing is under way on
\* it, message fetching is on, unless turning it on again failed.
THEOREM MessagesKeepComing == Spec => []FetchingWhenQuiet
<1>1. SourceInv => FetchingWhenQuiet
  BY DEF SourceInv, Fetching, FetchingWhenQuiet, Idle
<1> QED
  BY <1>1, SourceInvHolds, PTL
=============================================================================
