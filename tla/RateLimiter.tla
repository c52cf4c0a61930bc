----------------------------- MODULE RateLimiter -----------------------------
(***************************************************************************)
(* src/relay/rate_limiter.py: the limiter shared by the relay (20 a        *)
(* minute, bursts of 5) and by the upstream client (120 a minute, bursts   *)
(* of 20).  It keeps a deque of the times of its grants, drops the expired *)
(* ones from the front on every call, and refuses when the deque is full   *)
(* or holds too many recent times.                                         *)
(*                                                                         *)
(* Time is an integer number of ticks; one tick is any unit in which the   *)
(* 60 s window and the 5 s burst window are whole numbers.  Horizon stops  *)
(* the clock and is a bound of the model only.                             *)
(***************************************************************************)
EXTENDS Integers, Sequences, FiniteSets

CONSTANTS MaxPerMinute,  \* max_per_minute
          BurstSize,     \* burst_size
          Window,        \* _window_seconds
          BurstWindow,   \* the 5.0 of allow()
          Horizon        \* last tick of the clock

ASSUME LimiterAssumption ==
    /\ MaxPerMinute \in Nat
    /\ BurstSize \in Nat
    /\ Window \in Nat
    /\ BurstWindow \in Nat
    /\ BurstWindow <= Window
    /\ Horizon \in Nat

VARIABLES now,         \* time.monotonic()
          timestamps,  \* _timestamps, oldest first
          grants,      \* history: the times of all the grants
          verdict      \* history: the latest answer of allow()

limiterVars == <<now, timestamps, grants, verdict>>

\* Mutants of Drops: the cutoff compared with <=, and a deque never pruned.
DropsTooEarly(ts, t, k) ==
    /\ \A i \in 1..k : ts[i] <= t - Window
    /\ k < Len(ts) => ts[k+1] > t - Window
DropsNothing(ts, t, k) == k = 0

\* _prune(t) drops exactly the first k elements of ts: it stops at the first
\* element that is not older than the cutoff.
Drops(ts, t, k) ==
    /\ \A i \in 1..k : ts[i] < t - Window
    /\ k < Len(ts) => ts[k+1] >= t - Window

Kept(ts, k) == SubSeq(ts, k+1, Len(ts))

Recent(ts, t) == {i \in 1..Len(ts) : t - ts[i] < BurstWindow}

\* Mutants of Admits: each of the two limits off by one.
AdmitsOneMore(ts, t) == /\ Len(ts) <= MaxPerMinute
                        /\ Cardinality(Recent(ts, t)) < BurstSize
AdmitsBiggerBurst(ts, t) == /\ Len(ts) < MaxPerMinute
                            /\ Cardinality(Recent(ts, t)) <= BurstSize

\* allow() admits a request when neither limit is reached.
Admits(ts, t) == /\ Len(ts) < MaxPerMinute
                 /\ Cardinality(Recent(ts, t)) < BurstSize

Init == /\ now = 0
        /\ timestamps = <<>>
        /\ grants = <<>>
        /\ verdict = "none"

\* allow() returns True.
Grant == \E k \in 0..Len(timestamps) :
    /\ Drops(timestamps, now, k)
    /\ Admits(Kept(timestamps, k), now)
    /\ timestamps' = Append(Kept(timestamps, k), now)
    /\ grants' = Append(grants, now)
    /\ verdict' = "granted"
    /\ UNCHANGED now

\* allow() returns False; the pruning it did stays.
Refuse == \E k \in 0..Len(timestamps) :
    /\ Drops(timestamps, now, k)
    /\ ~Admits(Kept(timestamps, k), now)
    /\ timestamps' = Kept(timestamps, k)
    /\ verdict' = "refused"
    /\ UNCHANGED <<now, grants>>

\* current_rate and remaining_capacity: they prune too.
Observe == \E k \in 0..Len(timestamps) :
    /\ Drops(timestamps, now, k)
    /\ timestamps' = Kept(timestamps, k)
    /\ UNCHANGED <<now, grants, verdict>>

Tick == /\ now < Horizon
        /\ now' = now + 1
        /\ UNCHANGED <<timestamps, grants, verdict>>

Next == Grant \/ Refuse \/ Observe \/ Tick

Spec == Init /\ [][Next]_limiterVars

-----------------------------------------------------------------------------
\* The deque holds times, and never more than the limit of them.
LimiterTypeOK == /\ now \in 0..Horizon
                 /\ timestamps \in Seq(0..Horizon)
                 /\ grants \in Seq(0..Horizon)
                 /\ Len(timestamps) <= MaxPerMinute
                 /\ verdict \in {"none", "granted", "refused"}

\* allow() never grants more than MaxPerMinute requests in any closed window
\* of 60 s, wherever the window starts: any MaxPerMinute + 1 successive grants
\* span more than the window.
WindowBound == \A i \in 1..Len(grants) :
    i + MaxPerMinute <= Len(grants) => grants[i + MaxPerMinute] - grants[i] > Window

\* allow() never grants more than BurstSize requests in any 5 s: the grant
\* that follows a full burst comes at least BurstWindow after its first.
BurstBound == \A i \in 1..Len(grants) :
    i + BurstSize <= Len(grants) => grants[i + BurstSize] - grants[i] >= BurstWindow

\* Forgetting loses nothing: the deque answers every request as the whole
\* history of grants would, so no request is refused without need.
History == INSTANCE SlidingWindow
ImplementsSlidingWindow == History!Spec
=============================================================================
