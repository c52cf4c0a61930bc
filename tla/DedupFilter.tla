----------------------------- MODULE DedupFilter -----------------------------
(***************************************************************************)
(* src/relay/dedup_filter.py: the filter that keeps the relay from         *)
(* repeating a packet.  An OrderedDict maps source:packet_id to the time   *)
(* of the first hearing; entries leave it from the old end, when they are  *)
(* TTL old or when there are more than MaxEntries of them.                 *)
(*                                                                         *)
(* A key stands for the (source_id, packet_id) pair.  seen is the          *)
(* OrderedDict as the sequence of its items: a key is inserted only when   *)
(* it is absent, so the insertion order is the order of time.              *)
(***************************************************************************)
EXTENDS Integers, Sequences

CONSTANTS Keys,        \* (source_id, packet_id) pairs
          MaxEntries,  \* max_entries
          TTL,         \* ttl_seconds
          Horizon,     \* last tick of the clock, a bound of the model
          MaxFresh     \* length of the history, a bound of the model

VARIABLES now,     \* time.monotonic()
          seen,    \* _seen, oldest first: [key, at]
          fresh    \* history: every "not a duplicate" answer since clear()

dedupVars == <<now, seen, fresh>>

-----------------------------------------------------------------------------
\* Mutants of Expires: an entry dropped one tick early, and one kept too long.
ExpiresEarly(s, t, k) ==
    /\ \A i \in 1..k : s[i].at <= t - TTL + 1
    /\ k < Len(s) => s[k+1].at > t - TTL + 1
ExpiresLate(s, t, k) ==
    /\ \A i \in 1..k : s[i].at < t - TTL
    /\ k < Len(s) => s[k+1].at >= t - TTL

\* _evict_expired(t) drops exactly the first k entries.
Expires(s, t, k) ==
    /\ \A i \in 1..k : s[i].at <= t - TTL
    /\ k < Len(s) => s[k+1].at > t - TTL

Live(s, k) == SubSeq(s, k+1, Len(s))

Holds(s, key) == \E i \in 1..Len(s) : s[i].key = key

\* _enforce_max_size(): the oldest entries go until MaxEntries are left.
Latest(s) == IF Len(s) > MaxEntries
             THEN SubSeq(s, Len(s) - MaxEntries + 1, Len(s))
             ELSE s

\* What is_duplicate(key) would answer at this instant.
RejectsNow(key) == \E k \in 0..Len(seen) :
    Expires(seen, now, k) /\ Holds(Live(seen, k), key)

Init == /\ now = 0
        /\ seen = <<>>
        /\ fresh = <<>>

\* is_duplicate(key) returns False and records the key.
Fresh(key) == \E k \in 0..Len(seen) :
    /\ Len(fresh) < MaxFresh
    /\ Expires(seen, now, k)
    /\ ~Holds(Live(seen, k), key)
    /\ seen' = Latest(Append(Live(seen, k), [key |-> key, at |-> now]))
    /\ fresh' = Append(fresh, [key |-> key, at |-> now])
    /\ UNCHANGED now

\* is_duplicate(key) returns True: the entry keeps its time and its place.
Duplicate(key) == \E k \in 0..Len(seen) :
    /\ Expires(seen, now, k)
    /\ Holds(Live(seen, k), key)
    /\ seen' = Live(seen, k)
    /\ UNCHANGED <<now, fresh>>

\* clear()
Clear == /\ seen' = <<>>
         /\ fresh' = <<>>
         /\ UNCHANGED now

Tick == /\ now < Horizon
        /\ now' = now + 1
        /\ UNCHANGED <<seen, fresh>>

Next == \/ \E key \in Keys : Fresh(key) \/ Duplicate(key)
        \/ Clear
        \/ Tick

Spec == Init /\ [][Next]_dedupVars

-----------------------------------------------------------------------------
\* No packet is rejected as a duplicate unless the same packet was let through
\* less than TTL ago: the filter never silences a packet for longer.
DuplicateIsRecent == \A key \in Keys :
    RejectsNow(key) => \E i \in 1..Len(fresh) : /\ fresh[i].key = key
                                                /\ now - fresh[i].at < TTL

\* A packet is let through a second time only after TTL, or after MaxEntries
\* other packets have pushed it out of the cache.
ReadmittedLateOrCrowdedOut ==
    \A i, j \in 1..Len(fresh) :
        (i < j /\ fresh[i].key = fresh[j].key) =>
            \/ fresh[j].at - fresh[i].at >= TTL
            \/ j - i > MaxEntries
=============================================================================
