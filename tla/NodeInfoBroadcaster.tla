------------------------- MODULE NodeInfoBroadcaster -------------------------
(***************************************************************************)
(* src/transmit/nodeinfo_broadcaster.py, with the routes that drive it     *)
(* (src/api/routes/nodeinfo_routes.py and PUT /api/config/transmit).       *)
(*                                                                         *)
(* The loop is one task of the event loop: the program runs it from one    *)
(* await to the next without any other handler in between.  The place      *)
(* "running" is such a stretch; every other action but the passing of time *)
(* needs the loop to be somewhere else.  Times are kept relative to now:   *)
(* the age of the last broadcast, counted up to the longest interval, and  *)
(* what is left of a wait.                                                 *)
(***************************************************************************)
EXTENDS Integers

CONSTANTS MaxInterval,   \* INTERVAL_MAX_MINUTES, in ticks
          StartupDelay,  \* _startup_delay, in ticks
          Never          \* no broadcast has succeeded yet

ASSUME BroadcasterAssumption ==
    /\ MaxInterval \in Nat \ {0}
    /\ StartupDelay \in Nat
    /\ Never \notin Nat

VARIABLES task,       \* where the loop is: "new", "delay" (the startup delay),
                      \* "running", "sending", "waiting", "paused", "ended"
          interval,   \* _interval; 0 pauses the broadcasts
          age,        \* time since _last_sent_at, or Never
          startupLeft,\* time to _started_at + _startup_delay
          left,       \* what is left of the wait
          event,      \* _interval_changed
          txEnabled,  \* transmit.enabled, shared with the configuration routes
          sendingNow  \* a "Send Now" request is in send_nodeinfo

vars == <<task, interval, age, startupLeft, left, event, txEnabled, sendingNow>>

Tasks == {"new", "delay", "running", "sending", "waiting", "paused", "ended"}

Init == /\ task = "new"
        /\ interval \in 0..MaxInterval
        /\ age = Never
        /\ startupLeft = StartupDelay
        /\ left = 0
        /\ event = FALSE
        /\ txEnabled = TRUE
        /\ sendingNow = FALSE

IsRunning == task \notin {"new", "ended"}
LoopFree  == task # "running"

\* _is_due_now().
IsDueNow == interval # 0 /\ (age # Never => age >= interval)

\* Mutant: the time that is left is not cut off at 0.
SleepUnfloored(lastAge) ==
    IF lastAge = Never THEN interval ELSE interval - lastAge

\* _sleep_until_next() when the last broadcast was lastAge ago; 0 is overdue.
Sleep(lastAge) ==
    IF lastAge = Never THEN interval
    ELSE IF lastAge >= interval THEN 0 ELSE interval - lastAge

-----------------------------------------------------------------------------
\* start().  It is called before any request is served, so the loop has
\* cleared the event and begun the startup delay before anything else happens.
\* A delay of 0 is over as soon as it has begun.
Start ==
    /\ task = "new"
    /\ task' = "delay"
    /\ left' = StartupDelay
    /\ startupLeft' = StartupDelay
    /\ event' = FALSE
    /\ UNCHANGED <<interval, age, txEnabled, sendingNow>>

\* Mutant: the event ends a timed wait only.
WakesFromTimed ==
    /\ task \in {"delay", "waiting"} /\ (left = 0 \/ event)
    /\ task' = "running"
    /\ UNCHANGED <<interval, age, startupLeft, left, event, txEnabled, sendingNow>>

\* A wait ends: the time is over, or the event was set.
Wakes ==
    /\ \/ task \in {"delay", "waiting"} /\ (left = 0 \/ event)
       \/ task = "paused" /\ event
    /\ task' = "running"
    /\ UNCHANGED <<interval, age, startupLeft, left, event, txEnabled, sendingNow>>

\* The interval is 0: wait for the event, with no time limit.
Pause ==
    /\ task = "running" /\ interval = 0
    /\ event' = FALSE
    /\ task' = "paused"
    /\ UNCHANGED <<interval, age, startupLeft, left, txEnabled, sendingNow>>

\* A broadcast is due, and send_nodeinfo awaits the radio.
BeginSend ==
    /\ task = "running" /\ IsDueNow /\ txEnabled
    /\ task' = "sending"
    /\ UNCHANGED <<interval, age, startupLeft, left, event, txEnabled, sendingNow>>

\* The rest of the loop's stretch: the event is cleared and the wait computed.
\* A wait of no length is none, and the loop goes round again.
GoOn(lastAge) ==
    /\ event' = FALSE
    /\ IF Sleep(lastAge) = 0
       THEN task' = "running" /\ UNCHANGED left
       ELSE task' = "waiting" /\ left' = Sleep(lastAge)

\* No broadcast is due; or transmission is disabled, in which case
\* send_nodeinfo fails without having awaited anything.
Wait ==
    /\ task = "running" /\ interval # 0
    /\ ~(IsDueNow /\ txEnabled)
    /\ GoOn(age)
    /\ UNCHANGED <<interval, age, startupLeft, txEnabled, sendingNow>>

\* The send returns and leaves the last broadcast lastAge ago.
EndSend(lastAge) ==
    /\ task = "sending"
    /\ age' = lastAge
    /\ GoOn(lastAge)
    /\ UNCHANGED <<interval, startupLeft, txEnabled, sendingNow>>

SendSucceeds == EndSend(0)
SendFails    == EndSend(age)

\* "Send Now": POST /api/config/nodeinfo/send, concurrent with the loop.
BeginSendNow ==
    /\ LoopFree /\ IsRunning /\ ~sendingNow /\ txEnabled
    /\ sendingNow' = TRUE
    /\ UNCHANGED <<task, interval, age, startupLeft, left, event, txEnabled>>

EndSendNow ==
    /\ LoopFree /\ sendingNow
    /\ sendingNow' = FALSE
    /\ age' \in {0, age}
    /\ UNCHANGED <<task, interval, startupLeft, left, event, txEnabled>>

\* Mutant: set_interval does not wake the loop.
SetIntervalSilent(minutes) ==
    /\ LoopFree /\ IsRunning
    /\ interval' = minutes
    /\ startupLeft' = IF minutes > 0 /\ age = Never THEN 0 ELSE startupLeft
    /\ UNCHANGED <<task, age, left, event, txEnabled, sendingNow>>

\* PUT /api/config/nodeinfo: set_interval with a value the route has checked.
SetInterval(minutes) ==
    /\ LoopFree /\ IsRunning
    /\ interval' = minutes
    /\ startupLeft' = IF minutes > 0 /\ age = Never THEN 0 ELSE startupLeft
    /\ event' = TRUE
    /\ UNCHANGED <<task, age, left, txEnabled, sendingNow>>

\* PUT /api/config/transmit: the flag TxService reads changes at once.
SetTransmit ==
    /\ LoopFree /\ IsRunning
    /\ txEnabled' = ~txEnabled
    /\ UNCHANGED <<task, interval, age, startupLeft, left, event, sendingNow>>

\* stop(): the task is cancelled wherever it waits.
Stop ==
    /\ LoopFree /\ IsRunning
    /\ task' = "ended"
    /\ UNCHANGED <<interval, age, startupLeft, left, event, txEnabled, sendingNow>>

\* Time passes, for a loop that does not wait too; a timer may end late.
Before(t) == IF t = 0 THEN 0 ELSE t - 1
Tick ==
    /\ age' = IF age = Never \/ age = MaxInterval THEN age ELSE age + 1
    /\ startupLeft' = Before(startupLeft)
    /\ left' = Before(left)
    /\ UNCHANGED <<task, interval, event, txEnabled, sendingNow>>

Loop == Wakes \/ Pause \/ BeginSend \/ Wait

Next == \/ Start \/ Loop \/ SendSucceeds \/ SendFails
        \/ BeginSendNow \/ EndSendNow
        \/ \E minutes \in 0..MaxInterval : SetInterval(minutes)
        \/ SetTransmit \/ Stop \/ Tick

Spec == Init /\ [][Next]_vars

\* The event loop runs the task when it is ready, time passes and a send ends.
\* Nothing makes a send succeed, and no request has to come.
FairSpec == /\ Spec
            /\ WF_vars(Start) /\ WF_vars(Loop) /\ WF_vars(Tick)
            /\ WF_vars(SendSucceeds \/ SendFails) /\ WF_vars(EndSendNow)

-----------------------------------------------------------------------------
BroadcasterTypeOK ==
    /\ task \in Tasks
    /\ interval \in 0..MaxInterval
    /\ age \in 0..MaxInterval \cup {Never}
    /\ startupLeft \in 0..StartupDelay
    /\ left \in Nat
    /\ event \in BOOLEAN
    /\ txEnabled \in BOOLEAN
    /\ sendingNow \in BOOLEAN

\* The loop wakes no later than next_due_at shows: whatever the order of
\* broadcasts, "Send Now" requests and changes of the interval, a loop that
\* waits has been told to wake or has no more than the time to the next
\* broadcast left to wait.
WakesByDue ==
    (task = "waiting" /\ ~event /\ age # Never) => left <= Sleep(age)

\* No wake-up is lost: a loop that is paused without an event waiting for it
\* has an interval of 0.
PausedMeansZero == (task = "paused" /\ ~event) => interval = 0

\* A broadcast that is due is attempted, unless broadcasts are paused, the
\* interval grows, "Send Now" was quicker, transmission is disabled or the
\* broadcaster is stopped: the restored interval does resume the loop.
DueIsAttempted ==
    (IsRunning /\ IsDueNow) ~>
        (task \in {"sending", "ended"} \/ ~IsDueNow \/ ~txEnabled)

-----------------------------------------------------------------------------
(* What the documentation says and the code does not do.                   *)

\* "Safe to call from any context (sync or async)": a request that wants to
\* change the interval gets to run, because the loop gives the event loop back.
EventLoopGoesOn == []<>LoopFree
=============================================================================
