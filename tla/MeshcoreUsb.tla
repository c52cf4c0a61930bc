----------------------------- MODULE MeshcoreUsb -----------------------------
(***************************************************************************)
(* src/capture/meshcore_usb_source.py: the connection to a MeshCore        *)
(* companion radio, shared with src/transmit/meshcore_tx_client.py.        *)
(*                                                                         *)
(* Four tasks meet at the handle of the connection: the service, which     *)
(* starts and stops the source; the reconnection scheduled when the first  *)
(* connection fails; the health check; and a sender of the transmit        *)
(* client.  A step is what a task does between two awaits.  A handle is    *)
(* the number of its connection, counted from 1, and 0 is None.  The       *)
(* delays of the code order nothing here but the health check's window of  *)
(* recent events, so they only end.  The queue of events is left out.      *)
(***************************************************************************)
EXTENDS Integers

CONSTANTS MaxGlitches,   \* commands that fail on a working connection, a bound
          MaxOutages     \* times the device goes away, a bound

ASSUME UsbAssumption == {MaxGlitches, MaxOutages} \subseteq Nat

VARIABLES running,     \* _running
          connected,   \* _connected
          handle,      \* _meshcore
          subscribed,  \* handles whose events reach _on_event
          at,          \* the await each task is at
          attempts,    \* of the _reconnect under way, counted up to 2
          misses,      \* consecutive_failures
          recent,      \* an event arrived within the health check's window
          tx,          \* what the sender awaits, and the handle it called
          device,      \* "up" when it answers on the resolved port, or "down"
          open,        \* handles that hold the port
          live,        \* those the device answers on
          fetching,    \* those with automatic message fetching on
          glitches,    \* commands that failed on a working connection so far
          outages,     \* times the device went away so far
          opened,      \* history: connections opened so far
          half,        \* history: handles whose _connect failed half way
          unfetched    \* history: fetching could not be turned on again

sourceVars == <<running, connected, handle, subscribed, misses, attempts>>
deviceVars == <<device, open, live, fetching, outages>>
others == <<recent, tx, deviceVars, opened, half, unfetched>>
vars == <<running, connected, handle, subscribed, at, attempts, misses, recent,
          tx, device, open, live, fetching, glitches, outages, opened, half,
          unfetched>>

Workers == {"recon", "health"}       \* _reconnect_task, _health_task
Tasks   == Workers \cup {"main"}     \* start() and stop()

\* Awaits of _connect, of _disconnect and of _reconnect.
Connecting    == {"opening", "subscribed"}
Disconnecting == {"unfetching", "closing"}
Reconnecting  == {"begin", "delay", "pulsing"} \cup Connecting \cup Disconnecting
HealthPlaces  == {"sleeping", "probing", "retrying"}
MainPlaces    == {"new", "started", "cancelling", "stopped"}

Active(t) == at[t] \notin {"none", "ended"}
Idle      == [place |-> "idle", on |-> 0]

Init == /\ running = FALSE /\ connected = FALSE /\ handle = 0 /\ subscribed = {}
        /\ at = [t \in Tasks |-> IF t = "main" THEN "new" ELSE "none"]
        /\ attempts = 0 /\ misses = 0 /\ recent = FALSE
        /\ tx = Idle
        /\ device \in {"up", "down"}
        /\ open = {} /\ live = {} /\ fetching = {}
        /\ glitches = 0 /\ outages = 0 /\ opened = 0
        /\ half = {} /\ unfetched = FALSE

\* A command on handle h fails: the device does not answer on it, or it does
\* and the command is lost all the same.
Fails(h) ==
    \/ h \notin live /\ UNCHANGED glitches
    \/ h \in live /\ glitches < MaxGlitches /\ glitches' = glitches + 1

-----------------------------------------------------------------------------
(* start(), _connect and _reconnect.                                       *)

\* A port is configured or detected; or there is none, and the source is idle.
StartFinds ==
    /\ at["main"] = "new"
    /\ running' = TRUE
    /\ at' = [at EXCEPT !["main"] = "opening"]
    /\ UNCHANGED <<connected, handle, subscribed, misses, attempts, glitches,
                   others>>

StartFindsNone ==
    /\ at["main"] = "new"
    /\ at' = [at EXCEPT !["main"] = "started"]
    /\ UNCHANGED <<sourceVars, glitches, others>>

\* The health check goes round: it sleeps while running and connected.
LoopTop(up) == IF running /\ up THEN "sleeping" ELSE "ended"

\* What task t does when _connect returns and has left _connected as up.
Continues(t, up) ==
    CASE t = "main" /\ up    -> [at EXCEPT !["main"] = "started",
                                           !["health"] = "sleeping"]
      [] t = "main" /\ ~up   -> [at EXCEPT !["main"] = "started",
                                           !["recon"] = "begin"]
      [] t = "recon" /\ up   -> [at EXCEPT !["recon"] = "ended",
                                           !["health"] = "sleeping"]
      [] t = "health" /\ up  -> [at EXCEPT !["health"] = LoopTop(TRUE)]
      [] t \in Workers /\ ~up -> [at EXCEPT ![t] = IF running THEN "delay" ELSE "ended"]

\* create_serial returns a handle; the events are subscribed to.
Opens(t) ==
    /\ at[t] = "opening" /\ device = "up"
    /\ opened' = opened + 1
    /\ handle' = opened'
    /\ connected' = TRUE
    /\ subscribed' = subscribed \cup {handle'}
    /\ open' = open \cup {handle'}
    /\ live' = live \cup {handle'}
    /\ at' = [at EXCEPT ![t] = "subscribed"]
    /\ UNCHANGED <<running, misses, attempts, recent, tx, device, fetching,
                   outages, glitches, half, unfetched>>

\* create_serial returns None, or raises and leaves the old handle in place.
OpenFails(t) ==
    /\ at[t] = "opening"
    /\ \/ device = "down" /\ UNCHANGED glitches
       \/ device = "up" /\ glitches < MaxGlitches /\ glitches' = glitches + 1
    /\ handle' \in {0, handle}
    /\ connected' = FALSE
    /\ at' = Continues(t, FALSE)
    /\ UNCHANGED <<running, subscribed, misses, attempts, others>>

\* start_auto_message_fetching returns, and _connect with it.
Fetches(t) ==
    /\ at[t] = "subscribed" /\ handle \in live
    /\ fetching' = fetching \cup {handle}
    /\ unfetched' = FALSE
    /\ at' = Continues(t, connected)
    /\ UNCHANGED <<sourceVars, recent, tx, device, open, live, outages,
                   glitches, opened, half>>

\* It raises: _connect gives up and leaves the handle and its subscriptions.
FetchRaises(t) ==
    /\ at[t] = "subscribed" /\ Fails(handle)
    /\ connected' = FALSE
    /\ half' = half \cup {handle}
    /\ at' = Continues(t, FALSE)
    /\ UNCHANGED <<running, handle, subscribed, misses, attempts, recent, tx,
                   deviceVars, opened, unfetched>>

\* Mutant: the reconnection starts without _disconnect.
DisconnectsNot(t, rest) ==
    /\ connected' = FALSE
    /\ at' = [at EXCEPT ![t] = rest]
    /\ UNCHANGED subscribed

\* _disconnect begins; without a handle it is over at once.
Disconnects(t, rest) ==
    /\ connected' = FALSE
    /\ subscribed' = IF handle = 0 THEN subscribed ELSE {}
    /\ at' = [at EXCEPT ![t] = IF handle = 0 THEN rest ELSE "unfetching"]

AfterDisconnect(t) == IF t = "main" THEN "stopped"
                      ELSE IF running THEN "delay" ELSE "ended"

\* The scheduled reconnection runs for the first time.
Begins ==
    /\ at["recon"] = "begin"
    /\ Disconnects("recon", AfterDisconnect("recon"))
    /\ attempts' = 0
    /\ UNCHANGED <<running, handle, misses, glitches, others>>

\* stop_auto_message_fetching returns or raises, which is ignored.
Unfetches(t) ==
    /\ at[t] = "unfetching"
    /\ fetching' = fetching \ {handle}
    /\ at' = [at EXCEPT ![t] = "closing"]
    /\ UNCHANGED <<sourceVars, recent, tx, device, open, live, outages,
                   glitches, opened, half, unfetched>>

\* disconnect() returns or raises, and the handle is dropped.
Closes(t) ==
    /\ at[t] = "closing"
    /\ open' = open \ {handle}
    /\ live' = live \ {handle}
    /\ fetching' = fetching \ {handle}
    /\ handle' = 0
    /\ at' = [at EXCEPT ![t] = AfterDisconnect(t)]
    /\ UNCHANGED <<running, connected, subscribed, misses, attempts, recent,
                   tx, device, outages, glitches, opened, half, unfetched>>

\* Mutant: the reconnection is given up after two attempts.
DelayEndsTwice(t) ==
    /\ at[t] = "delay"
    /\ attempts' = IF attempts = 2 THEN 2 ELSE attempts + 1
    /\ at' = [at EXCEPT ![t] = IF ~running \/ attempts = 2 THEN "ended"
                               ELSE IF attempts = 0 THEN "opening" ELSE "pulsing"]
    /\ UNCHANGED <<running, connected, handle, subscribed, misses, glitches,
                   others>>

\* The delay before an attempt is over.  From the second attempt on, DTR is
\* pulsed first, which may bring the device back: see DeviceReturns.
DelayEnds(t) ==
    /\ at[t] = "delay"
    /\ attempts' = IF attempts = 2 THEN 2 ELSE attempts + 1
    /\ at' = [at EXCEPT ![t] = IF ~running THEN "ended"
                               ELSE IF attempts = 0 THEN "opening" ELSE "pulsing"]
    /\ UNCHANGED <<running, connected, handle, subscribed, misses, glitches,
                   others>>

Pulses(t) ==
    /\ at[t] = "pulsing"
    /\ at' = [at EXCEPT ![t] = "opening"]
    /\ UNCHANGED <<sourceVars, glitches, others>>

-----------------------------------------------------------------------------
(* The health check.                                                       *)

\* The interval is over.  A recent event is proof of life; otherwise ask.
Wakes ==
    /\ at["health"] = "sleeping"
    /\ misses' = IF running /\ recent THEN 0 ELSE misses
    /\ at' = [at EXCEPT !["health"] = IF ~running THEN "ended"
                                      ELSE IF recent THEN LoopTop(connected)
                                      ELSE "probing"]
    /\ UNCHANGED <<running, connected, handle, subscribed, attempts, glitches,
                   others>>

ProbeAnswered ==
    /\ at["health"] = "probing" /\ handle \in live
    /\ misses' = 0
    /\ at' = [at EXCEPT !["health"] = LoopTop(connected)]
    /\ UNCHANGED <<running, connected, handle, subscribed, attempts, glitches,
                   others>>

\* Mutant: every miss is put up with.
ProbeMissedAlways ==
    /\ at["health"] = "probing" /\ Fails(handle)
    /\ misses' = misses + 1
    /\ at' = [at EXCEPT !["health"] = "retrying"]
    /\ UNCHANGED <<running, connected, handle, subscribed, attempts, others>>

\* Mutant: the first miss is already too many.
ProbeMissedAtOnce ==
    /\ at["health"] = "probing" /\ Fails(handle)
    /\ misses' = 0
    /\ attempts' = 0
    /\ Disconnects("health", AfterDisconnect("health"))
    /\ UNCHANGED <<running, handle, others>>

\* The first miss in a row is put up with.
ProbeMissed ==
    /\ at["health"] = "probing" /\ Fails(handle)
    /\ misses = 0
    /\ misses' = 1
    /\ at' = [at EXCEPT !["health"] = "retrying"]
    /\ UNCHANGED <<running, connected, handle, subscribed, attempts, others>>

\* The second one starts a reconnection.
ProbeMissedAgain ==
    /\ at["health"] = "probing" /\ Fails(handle)
    /\ misses = 1
    /\ misses' = 0
    /\ attempts' = 0
    /\ Disconnects("health", AfterDisconnect("health"))
    /\ UNCHANGED <<running, handle, others>>

\* The pause after a first miss is over: the loop sleeps its interval again.
RetryEnds ==
    /\ at["health"] = "retrying"
    /\ at' = [at EXCEPT !["health"] = LoopTop(connected)]
    /\ UNCHANGED <<sourceVars, glitches, others>>

-----------------------------------------------------------------------------
(* stop().                                                                 *)

\* Mutant: the tasks are left to notice _running by themselves.
StopCancelsNothing ==
    /\ at["main"] = "started"
    /\ running' = FALSE
    /\ at' = [at EXCEPT !["main"] = "cancelling"]
    /\ UNCHANGED <<connected, handle, subscribed, misses, attempts, glitches,
                   others>>

\* The tasks are cancelled at their awaits, and stop() waits for them to end.
Stop ==
    /\ at["main"] = "started"
    /\ running' = FALSE
    /\ at' = [t \in Tasks |-> IF t = "main" THEN "cancelling"
                              ELSE IF Active(t) THEN "ended" ELSE at[t]]
    /\ UNCHANGED <<connected, handle, subscribed, misses, attempts, glitches,
                   others>>

StopDisconnects ==
    /\ at["main"] = "cancelling"
    /\ Disconnects("main", "stopped")
    /\ UNCHANGED <<running, handle, misses, attempts, glitches, others>>

-----------------------------------------------------------------------------
(* The transmit client: send_channel_message, send_direct_message and      *)
(* send_advert.                                                            *)

TxBegins ==
    /\ tx = Idle
    /\ connected /\ handle # 0
    /\ tx' = [place |-> "sending", on |-> handle]
    /\ UNCHANGED <<sourceVars, at, recent, deviceVars, glitches, opened, half,
                   unfetched>>

\* Mutant: nothing runs after the command.
TxEndsOnly ==
    /\ tx.place = "sending"
    /\ fetching' \in {fetching, fetching \ {tx.on}}
    /\ tx' = Idle
    /\ UNCHANGED <<sourceVars, at, recent, device, open, live, outages,
                   glitches, opened, half, unfetched>>

\* The command is answered, times out or raises, and may have disrupted the
\* fetching.  restart_auto_fetching then acts on the handle there is by now.
TxEnds ==
    /\ tx.place = "sending"
    /\ fetching' \in {fetching, fetching \ {tx.on}}
    /\ tx' = IF handle # 0 /\ connected
             THEN [place |-> "refetching", on |-> handle] ELSE Idle
    /\ UNCHANGED <<sourceVars, at, recent, device, open, live, outages,
                   glitches, opened, half, unfetched>>

TxRefetches ==
    /\ tx.place = "refetching" /\ tx.on \in live
    /\ fetching' = fetching \cup {tx.on}
    /\ tx' = Idle
    /\ UNCHANGED <<sourceVars, at, recent, device, open, live, outages,
                   glitches, opened, half, unfetched>>

TxRefetchFails ==
    /\ tx.place = "refetching" /\ Fails(tx.on)
    /\ tx' = Idle
    /\ unfetched' = (unfetched \/ tx.on = handle)
    /\ UNCHANGED <<sourceVars, at, recent, deviceVars, opened, half>>

-----------------------------------------------------------------------------
(* The device.                                                             *)

\* An event is delivered: it counts as recent, whichever handle it came from.
EventArrives ==
    /\ running /\ subscribed \cap live # {}
    /\ recent' = TRUE
    /\ UNCHANGED <<sourceVars, at, tx, deviceVars, glitches, opened, half,
                   unfetched>>

WindowPasses ==
    /\ recent
    /\ recent' = FALSE
    /\ UNCHANGED <<sourceVars, at, tx, deviceVars, glitches, opened, half,
                   unfetched>>

\* The device is unplugged, which is an event too, or hangs.
DeviceFails ==
    /\ device = "up" /\ outages < MaxOutages
    /\ device' = "down"
    /\ live' = {}
    /\ outages' = outages + 1
    /\ recent' \in {recent, recent \/ (running /\ subscribed \cap live # {})}
    /\ UNCHANGED <<sourceVars, at, tx, open, fetching, glitches, opened, half,
                   unfetched>>

\* It is plugged in again, or comes back with its connections after a hang.
DeviceReturns ==
    /\ device = "down"
    /\ device' = "up"
    /\ live' \in {{}, open}
    /\ UNCHANGED <<sourceVars, at, recent, tx, open, fetching, outages,
                   glitches, opened, half, unfetched>>

-----------------------------------------------------------------------------
Connect(t)   == Opens(t) \/ OpenFails(t) \/ Fetches(t) \/ FetchRaises(t)
Worker(t)    == Connect(t) \/ Unfetches(t) \/ Closes(t) \/ DelayEnds(t) \/ Pulses(t)
HealthCheck  == Wakes \/ ProbeAnswered \/ ProbeMissed \/ ProbeMissedAgain \/ RetryEnds
Sender       == TxEnds \/ TxRefetches \/ TxRefetchFails
Companion    == EventArrives \/ WindowPasses \/ DeviceFails \/ DeviceReturns

Next == \/ StartFinds \/ StartFindsNone \/ Begins \/ HealthCheck
        \/ \E t \in Workers : Worker(t)
        \/ Connect("main") \/ Unfetches("main") \/ Closes("main")
        \/ Stop \/ StopDisconnects
        \/ TxBegins \/ Sender \/ Companion

Spec == Init /\ [][Next]_vars

\* The event loop runs every task that is ready, every timer ends, and every
\* command is answered or times out.  The device need not come back.
FairSpec == /\ Spec
            /\ \A t \in Tasks : WF_vars(Connect(t) \/ Unfetches(t) \/ Closes(t))
            /\ \A t \in Workers : WF_vars(DelayEnds(t) \/ Pulses(t))
            /\ WF_vars(Begins) /\ WF_vars(HealthCheck) /\ WF_vars(WindowPasses)
            /\ WF_vars(StopDisconnects) /\ WF_vars(Sender)

-----------------------------------------------------------------------------
\* The awaits each task can be at, and handles that were opened.
UsbTypeOK ==
    /\ {running, connected, recent, unfetched} \subseteq BOOLEAN
    /\ at["main"] \in MainPlaces \cup Connecting \cup Disconnecting
    /\ at["recon"] \in {"none", "ended"} \cup Reconnecting
    /\ at["health"] \in {"none", "ended"} \cup HealthPlaces \cup (Reconnecting \ {"begin"})
    /\ attempts \in 0..2 /\ misses \in 0..1
    /\ handle \in 0..opened
    /\ live \subseteq open /\ fetching \subseteq open
    /\ open \subseteq 1..opened

\* At most one task at a time opens or closes the connection, however the
\* start, the scheduled reconnection, the health check and stop() follow.
OneOpener ==
    \A t, u \in Tasks : at[t] \in Reconnecting /\ at[u] \in Reconnecting => t = u

\* When stop() has returned, no task runs and the port is released, except by
\* the handles of connections that failed half way and were replaced.
StoppedIsClean ==
    at["main"] = "stopped" =>
        /\ ~connected /\ handle = 0
        /\ \A t \in Workers : ~Active(t)
        /\ open \subseteq half

\* A single command lost on a device that stays in place does not tear its
\* connection down.
OneMissTolerated ==
    (glitches <= 1 /\ outages = 0 /\ half = {}) => opened <= 1

\* Messages keep coming in: while the source runs, whenever the connection works
\* and nothing is under way on it, automatic fetching is on, unless turning it
\* on again failed.
FetchingWhenQuiet ==
    (running /\ connected /\ handle \in live /\ tx = Idle /\ ~unfetched
        /\ \A t \in Tasks : at[t] # "subscribed") => handle \in fetching

\* The source heals itself: once the device stays reachable, the source is
\* connected to it again and stays so, unless it was stopped.
SelfHeals ==
    <>[](device = "up") => <>[](~running \/ (connected /\ handle \in live))
=============================================================================
