---------------------------- MODULE SlidingWindow ----------------------------
(***************************************************************************)
(* What a rate limiter promises, stated over the whole history of grants   *)
(* and without any bookkeeping: a request is granted exactly when fewer    *)
(* than MaxPerMinute grants lie in the last Window ticks (both ends        *)
(* included) and fewer than BurstSize in the last BurstWindow ticks (the   *)
(* old end excluded).  Module RateLimiter implements it with a deque that  *)
(* forgets expired grants.                                                 *)
(***************************************************************************)
EXTENDS Integers, Sequences, FiniteSets

CONSTANTS MaxPerMinute,  \* grants allowed in a closed window
          BurstSize,     \* grants allowed in a burst
          Window,        \* length of the sliding window, in ticks
          BurstWindow    \* length of the burst window, in ticks

VARIABLES now,      \* the monotonic clock
          grants,   \* the times of all the grants, oldest first
          verdict   \* the answer to the latest request

swVars == <<now, grants, verdict>>

InWindow == {i \in DOMAIN grants : now - grants[i] <= Window}
InBurst  == {i \in DOMAIN grants : now - grants[i] < BurstWindow}

MayGrant == /\ Cardinality(InWindow) < MaxPerMinute
            /\ Cardinality(InBurst) < BurstSize

Init == now = 0 /\ grants = <<>> /\ verdict = "none"

Request == /\ IF MayGrant
              THEN grants' = Append(grants, now) /\ verdict' = "granted"
              ELSE UNCHANGED grants /\ verdict' = "refused"
           /\ UNCHANGED now

Pass == now' = now + 1 /\ UNCHANGED <<grants, verdict>>

Spec == Init /\ [][Request \/ Pass]_swVars
=============================================================================
