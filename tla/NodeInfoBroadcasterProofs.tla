---------------------- MODULE NodeInfoBroadcasterProofs ----------------------
(***************************************************************************)
(* Proofs about the NodeInfo broadcaster, for every interval and startup   *)
(* delay: its types, that the loop never sleeps past the time the          *)
(* dashboard shows, and that no wake-up is lost.                           *)
(*                                                                         *)
(* WakesByDue is not inductive: the first broadcast that succeeds, which   *)
(* may be a "Send Now" request while the loop waits, turns a wait that was *)
(* chosen without a last broadcast into one that must fit it.  What fits   *)
(* every last broadcast is a wait no longer than the interval, so the      *)
(* invariant bounds the wait of a loop without a last broadcast too.       *)
(***************************************************************************)
EXTENDS NodeInfoBroadcaster, TLAPS

\* Sleep(Never) is the interval, so this is WakesByDue and its strengthening.
WaitFits == (task = "waiting" /\ ~event) => left <= Sleep(age)

\* The types, the Boolean ones apart: the provers take them in turn.
TimesOK == /\ task \in Tasks
           /\ interval \in 0..MaxInterval
           /\ age \in 0..MaxInterval \cup {Never}
           /\ startupLeft \in 0..StartupDelay
           /\ left \in Nat
FlagsOK == event \in BOOLEAN /\ txEnabled \in BOOLEAN /\ sendingNow \in BOOLEAN

BroadcasterInv == TimesOK /\ FlagsOK /\ WaitFits /\ PausedMeansZero

-----------------------------------------------------------------------------
\* _sleep_until_next() returns a time from 0 to the interval.
LEMMA SleepRange ==
    ASSUME interval \in 0..MaxInterval,
           NEW lastAge \in (0..MaxInterval) \cup {Never}
    PROVE  Sleep(lastAge) \in 0..interval
BY BroadcasterAssumption DEF Sleep

\* The initial state satisfies the invariant.
LEMMA BroadcasterInitial == Init => BroadcasterInv
<1>1. Init => TimesOK
  BY BroadcasterAssumption DEF Init, TimesOK, Tasks
<1>2. Init => FlagsOK
  BY Zenon DEF Init, FlagsOK
<1>3. Init => WaitFits /\ PausedMeansZero
  BY DEF Init, WaitFits, PausedMeansZero
<1> QED
  BY <1>1, <1>2, <1>3 DEF BroadcasterInv

\* Every step keeps the flags Boolean.
LEMMA FlagsStep == FlagsOK /\ [Next]_vars => FlagsOK'
<1> SUFFICES ASSUME FlagsOK, [Next]_vars PROVE FlagsOK'
  OBVIOUS
<1>1. CASE Start \/ Wakes \/ Pause \/ BeginSend
  BY <1>1, Zenon DEF Start, Wakes, Pause, BeginSend, FlagsOK
<1>2. CASE Wait \/ SendSucceeds \/ SendFails
  BY <1>2, Zenon DEF Wait, SendSucceeds, SendFails, EndSend, GoOn, FlagsOK
<1>3. CASE BeginSendNow \/ EndSendNow
  BY <1>3, Zenon DEF BeginSendNow, EndSendNow, FlagsOK
<1>4. CASE \E minutes \in 0..MaxInterval : SetInterval(minutes)
  BY <1>4, Zenon DEF SetInterval, FlagsOK
<1>5. CASE SetTransmit \/ Stop \/ Tick
  BY <1>5, Zenon DEF SetTransmit, Stop, Tick, FlagsOK
<1>6. CASE UNCHANGED vars
  BY <1>6, Zenon DEF vars, FlagsOK
<1> QED
  BY <1>1, <1>2, <1>3, <1>4, <1>5, <1>6, Zenon DEF Next, Loop

\* The invariant but for the flags.
TimingInv == TimesOK /\ WaitFits /\ PausedMeansZero

\* The end of the loop's stretch, after any last broadcast, keeps it.
LEMMA GoOnKeepsInv ==
    ASSUME TimingInv,
           NEW lastAge \in (0..MaxInterval) \cup {Never},
           age' = lastAge,
           GoOn(lastAge),
           UNCHANGED <<interval, startupLeft, txEnabled, sendingNow>>
    PROVE  TimingInv'
<1>1. Sleep(lastAge) \in 0..interval
  BY SleepRange DEF TimingInv, TimesOK
<1>2. TimesOK'
  BY <1>1, BroadcasterAssumption DEF TimingInv, TimesOK, GoOn, Tasks
<1>3. Sleep(age)' = Sleep(lastAge)
  BY DEF Sleep
<1>4. WaitFits'
  BY <1>1, <1>3, BroadcasterAssumption DEF TimingInv, TimesOK, WaitFits, GoOn
<1>5. PausedMeansZero'
  BY DEF PausedMeansZero, GoOn
<1> QED
  BY <1>2, <1>4, <1>5 DEF TimingInv

\* Every step of the program and every stuttering step keeps it.
LEMMA TimingStep == TimingInv /\ [Next]_vars => TimingInv'
<1> SUFFICES ASSUME TimingInv, [Next]_vars
             PROVE  TimingInv'
  OBVIOUS
<1> USE BroadcasterAssumption
<1>a. age \in (0..MaxInterval) \cup {Never} /\ 0 \in 0..MaxInterval
  BY DEF TimingInv, TimesOK
<1>1. CASE Start
  BY <1>1 DEF Start, TimingInv, TimesOK, WaitFits, PausedMeansZero, Tasks
<1>2. CASE Wakes
  BY <1>2 DEF Wakes, TimingInv, TimesOK, WaitFits, PausedMeansZero, Tasks
<1>3. CASE Pause
  BY <1>3 DEF Pause, TimingInv, TimesOK, WaitFits, PausedMeansZero, Tasks
<1>4. CASE BeginSend
  BY <1>4 DEF BeginSend, TimingInv, TimesOK, WaitFits, PausedMeansZero, Tasks
<1>5. CASE Wait
  <2>1. age' = age /\ GoOn(age)
        /\ UNCHANGED <<interval, startupLeft, txEnabled, sendingNow>>
    BY <1>5 DEF Wait
  <2> QED
    BY <1>a, <2>1, GoOnKeepsInv
<1>6. CASE SendSucceeds
  <2>1. age' = 0 /\ GoOn(0)
        /\ UNCHANGED <<interval, startupLeft, txEnabled, sendingNow>>
    BY <1>6 DEF SendSucceeds, EndSend
  <2> QED
    BY <1>a, <2>1, GoOnKeepsInv
<1>7. CASE SendFails
  <2>1. age' = age /\ GoOn(age)
        /\ UNCHANGED <<interval, startupLeft, txEnabled, sendingNow>>
    BY <1>7 DEF SendFails, EndSend
  <2> QED
    BY <1>a, <2>1, GoOnKeepsInv
<1>8. CASE BeginSendNow
  BY <1>8 DEF BeginSendNow, TimingInv, TimesOK, WaitFits, PausedMeansZero, Sleep
<1>9. CASE EndSendNow
  <2>1. left \in Nat /\ interval \in Nat /\ Sleep(age) \in 0..interval
    BY <1>a, SleepRange DEF TimingInv, TimesOK
  <2>2. CASE age' = age
    BY <1>9, <2>2 DEF EndSendNow, TimingInv, TimesOK, WaitFits,
                      PausedMeansZero, Sleep
  <2>3. CASE age' = 0
    <3>1. Sleep(age)' = interval
      BY <1>9, <2>1, <2>3 DEF EndSendNow, Sleep
    <3>2. WaitFits'
      BY <1>9, <2>1, <3>1 DEF EndSendNow, TimingInv, WaitFits
    <3> QED
      BY <1>9, <1>a, <2>3, <3>2 DEF EndSendNow, TimingInv, TimesOK, PausedMeansZero
  <2> QED
    BY <1>9, <2>2, <2>3 DEF EndSendNow
<1>10. CASE \E minutes \in 0..MaxInterval : SetInterval(minutes)
  <2> PICK minutes \in 0..MaxInterval : SetInterval(minutes)
    BY <1>10
  <2>1. event'
    BY DEF SetInterval
  <2>2. TimesOK'
    BY DEF SetInterval, TimingInv, TimesOK
  <2> QED
    BY <2>1, <2>2 DEF TimingInv, WaitFits, PausedMeansZero
<1>11. CASE SetTransmit
  BY <1>11 DEF SetTransmit, TimingInv, TimesOK, WaitFits, PausedMeansZero, Sleep
<1>12. CASE Stop
  BY <1>12 DEF Stop, TimingInv, TimesOK, WaitFits, PausedMeansZero, Tasks
<1>13. CASE Tick
  <2>1. TimesOK'
    BY <1>13 DEF Tick, Before, TimingInv, TimesOK
  <2>2. WaitFits'
    BY <1>13 DEF Tick, Before, Sleep, TimingInv, TimesOK, WaitFits
  <2>3. PausedMeansZero'
    BY <1>13 DEF Tick, TimingInv, PausedMeansZero
  <2> QED
    BY <2>1, <2>2, <2>3 DEF TimingInv
<1>14. CASE UNCHANGED vars
  BY <1>14 DEF vars, TimingInv, TimesOK, WaitFits, PausedMeansZero, Sleep
<1> QED
  BY <1>1, <1>2, <1>3, <1>4, <1>5, <1>6, <1>7, <1>8, <1>9, <1>10, <1>11, <1>12,
     <1>13, <1>14 DEF Next, Loop

-----------------------------------------------------------------------------
\* BroadcasterInv holds in every state the broadcaster reaches.
THEOREM BroadcasterInvariance == Spec => []BroadcasterInv
<1>1. BroadcasterInv /\ [Next]_vars => BroadcasterInv'
  BY FlagsStep, TimingStep DEF BroadcasterInv, TimingInv
<1> QED
  BY <1>1, BroadcasterInitial, PTL DEF Spec

\* The state of the broadcaster keeps its types.
THEOREM BroadcasterTypes == Spec => []BroadcasterTypeOK
<1>1. BroadcasterInv => BroadcasterTypeOK
  BY DEF BroadcasterInv, TimesOK, FlagsOK, BroadcasterTypeOK
<1> QED
  BY <1>1, BroadcasterInvariance, PTL

\* The loop never sleeps past the time of the next broadcast that the dashboard
\* shows, in whatever order broadcasts, "Send Now" and new intervals come.
THEOREM LoopWakesByDue == Spec => []WakesByDue
<1>1. BroadcasterInv => WakesByDue
  BY DEF BroadcasterInv, WaitFits, WakesByDue
<1> QED
  BY <1>1, BroadcasterInvariance, PTL

\* A loop that is paused, and has no event waiting for it, is meant to be: the
\* wake-up of a restored interval is never lost.
THEOREM NoLostWakeUp == Spec => []PausedMeansZero
<1>1. BroadcasterInv => PausedMeansZero
  BY DEF BroadcasterInv
<1> QED
  BY <1>1, BroadcasterInvariance, PTL
=============================================================================
