---------------------------- MODULE RelayManager -----------------------------
(***************************************************************************)
(* src/relay/relay_manager.py with the transmitter it drives               *)
(* (src/relay/meshtastic_transmitter.py), composed with the deduplication  *)
(* filter and the rate limiter it owns.                                    *)
(*                                                                         *)
(* The pipeline awaits process_packet for one packet at a time, so the     *)
(* manager is either idle or has one approved packet in the worker thread  *)
(* that transmits.  A key fixes the (source, packet id) pair and the type  *)
(* of a packet; the hops left and the signal differ from one hearing of it *)
(* to the next.                                                            *)
(***************************************************************************)
EXTENDS Integers, Sequences, FiniteSets

CONSTANTS Keys,          \* (source_id, packet_id) pairs that can be heard
          Worthy,        \* those whose type is in RELAY_WORTHY_TYPES
          Undecrypted,   \* those no channel key decrypts: type ENCRYPTED
          MaxPerMinute, BurstSize, Window, BurstWindow,  \* the rate limiter
          MaxEntries, TTL,                               \* the filter
          MaxHeard,      \* packets processed, a bound of the model
          Horizon,       \* last tick of the clock, a bound of the model
          NoPacket       \* nothing is being transmitted

\* The decoders give a relay-worthy type only to what they decrypted.
ASSUME RelayAssumption ==
    /\ Worthy \subseteq Keys
    /\ Undecrypted \subseteq Keys \ Worthy
    /\ MaxEntries \in Nat
    /\ TTL \in Nat
    /\ MaxHeard \in Nat
    /\ Horizon \in Nat
    /\ NoPacket \notin Keys

VARIABLES now,                           \* time.monotonic()
          timestamps, grants, verdict,   \* _limiter, see RateLimiter
          seen, fresh,                   \* _dedup, see DedupFilter
          enabled,      \* _enabled
          radio,        \* the transmitter: "none" when no function is
                        \* registered, "down" when it never connected, "up"
          relaying,     \* the key of the packet _relay awaits, or NoPacket
          relayed,      \* _relay_count
          rejected,     \* _rejection_reasons; _rejected_count is its sum
          approvals,    \* history: [key, at, nth] of every approval, nth the
                        \* place of the hearing in fresh
          pushed        \* history: the keys handed to sendData

limiterPart == <<timestamps, grants, verdict>>
dedupPart   == <<seen, fresh>>
vars == <<now, timestamps, grants, verdict, seen, fresh, enabled, radio,
          relaying, relayed, rejected, approvals, pushed>>

Limiter == INSTANCE RateLimiter
Dedup   == INSTANCE DedupFilter WITH MaxFresh <- MaxHeard

Reasons == {"relay_disabled", "duplicate", "no_hops_remaining",
            "non_relayable_type", "signal_too_strong", "signal_too_weak",
            "rate_limited"}
Signals == {"none", "too_strong", "in_range", "too_weak"}

Processed == relayed + (IF relaying = NoPacket THEN 0 ELSE 1)
             + rejected["relay_disabled"] + rejected["duplicate"]
             + rejected["no_hops_remaining"] + rejected["non_relayable_type"]
             + rejected["signal_too_strong"] + rejected["signal_too_weak"]
             + rejected["rate_limited"]

Init == /\ Limiter!Init
        /\ Dedup!Init
        /\ enabled \in BOOLEAN
        /\ radio \in {"none", "down", "up"}
        /\ relaying = NoPacket
        /\ relayed = 0
        /\ rejected = [r \in Reasons |-> 0]
        /\ approvals = <<>>
        /\ pushed = {}

-----------------------------------------------------------------------------
\* Mutant: the type filter forgotten.
FilterForgetsType(key, hops, signal) ==
    CASE hops <= 0                              -> "no_hops_remaining"
      [] hops > 0 /\ signal = "too_strong"      -> "signal_too_strong"
      [] hops > 0 /\ signal = "too_weak"        -> "signal_too_weak"
      [] OTHER                                  -> "pass"

\* evaluate() after the duplicate check and before the limiter: the reason to
\* reject this hearing of the packet, or "pass".
Filter(key, hops, signal) ==
    CASE hops <= 0             -> "no_hops_remaining"
      [] hops > 0 /\ key \notin Worthy -> "non_relayable_type"
      [] hops > 0 /\ key \in Worthy /\ signal = "too_strong" -> "signal_too_strong"
      [] hops > 0 /\ key \in Worthy /\ signal = "too_weak" -> "signal_too_weak"
      [] OTHER -> "pass"

Idle == relaying = NoPacket /\ Processed < MaxHeard

Reject(reason) ==
    /\ rejected' = [rejected EXCEPT ![reason] = @ + 1]
    /\ UNCHANGED <<enabled, radio, relaying, relayed, approvals, pushed>>

RejectDisabled ==
    /\ Idle /\ ~enabled
    /\ Reject("relay_disabled")
    /\ UNCHANGED <<now, limiterPart, dedupPart>>

RejectDuplicate(key) ==
    /\ Idle /\ enabled
    /\ Dedup!Duplicate(key)
    /\ Reject("duplicate")
    /\ UNCHANGED limiterPart

\* Mutant: the packet remembered only once it passed the filters.
RejectFilteredUnrecorded(key, hops, signal) ==
    /\ Idle /\ enabled
    /\ ~Dedup!RejectsNow(key)
    /\ Filter(key, hops, signal) # "pass"
    /\ Reject(Filter(key, hops, signal))
    /\ fresh' = Append(fresh, [key |-> key, at |-> now])
    /\ UNCHANGED <<now, limiterPart, seen>>

\* The packet is new and is remembered, but it is not worth relaying.
RejectFiltered(key, hops, signal) ==
    /\ Idle /\ enabled
    /\ Dedup!Fresh(key)
    /\ Filter(key, hops, signal) # "pass"
    /\ Reject(Filter(key, hops, signal))
    /\ UNCHANGED limiterPart

RejectRateLimited(key, hops, signal) ==
    /\ Idle /\ enabled
    /\ Dedup!Fresh(key)
    /\ Filter(key, hops, signal) = "pass"
    /\ Limiter!Refuse
    /\ Reject("rate_limited")

\* evaluate() approves and process_packet awaits _relay.
Approve(key, hops, signal) ==
    /\ Idle /\ enabled
    /\ Dedup!Fresh(key)
    /\ Filter(key, hops, signal) = "pass"
    /\ Limiter!Grant
    /\ relaying' = key
    /\ approvals' = Append(approvals, [key |-> key, at |-> now, nth |-> Len(fresh')])
    /\ UNCHANGED <<enabled, radio, relayed, rejected, pushed>>

\* What MeshtasticTransmitter._get_payload finds: encrypted_payload is kept by
\* the decoder only when the packet was not decrypted, and no decoder writes
\* the "raw_bytes" entry.
HasPayload(key) == key \in Undecrypted

\* _relay returns, whatever the radio did with the packet: no function, no
\* radio and no payload all end here, and so does an exception of sendData.
Relayed ==
    /\ relaying # NoPacket
    /\ pushed' = IF radio = "up" /\ HasPayload(relaying)
                 THEN pushed \cup {relaying} ELSE pushed
    /\ relaying' = NoPacket
    /\ relayed' = relayed + 1
    /\ UNCHANGED <<now, limiterPart, dedupPart, enabled, radio, rejected, approvals>>

\* The enabled setter.
SetEnabled ==
    /\ enabled' = ~enabled
    /\ UNCHANGED <<now, limiterPart, dedupPart, radio, relaying, relayed,
                   rejected, approvals, pushed>>

\* get_stats(): reading the limiter prunes it.
Stats == /\ Limiter!Observe
         /\ UNCHANGED <<dedupPart, enabled, radio, relaying, relayed,
                        rejected, approvals, pushed>>

Tick == /\ Limiter!Tick
        /\ UNCHANGED <<dedupPart, enabled, radio, relaying, relayed,
                       rejected, approvals, pushed>>

Process == \E key \in Keys :
    \/ RejectDuplicate(key)
    \/ \E hops \in {0, 1}, signal \in Signals :
          \/ RejectFiltered(key, hops, signal)
          \/ RejectRateLimited(key, hops, signal)
          \/ Approve(key, hops, signal)

Next == RejectDisabled \/ Process \/ Relayed \/ SetEnabled \/ Stats \/ Tick

Spec == Init /\ [][Next]_vars

-----------------------------------------------------------------------------
RelayTypeOK ==
    /\ enabled \in BOOLEAN
    /\ relaying \in Keys \cup {NoPacket}
    /\ Processed \in 0..MaxHeard
    /\ \A i \in 1..Len(approvals) : approvals[i].key \in Worthy
    /\ pushed \subseteq Keys

\* The first hearing of a packet decides: an approved packet had not been heard
\* in the TTL before, not even as a hearing that was filtered out, unless
\* MaxEntries newer packets had pushed it out of the filter.
FirstHearingDecides ==
    \A i \in 1..Len(approvals) : \A m \in 1..(approvals[i].nth - 1) :
        fresh[m].key = approvals[i].key =>
            \/ approvals[i].at - fresh[m].at >= TTL
            \/ approvals[i].nth - m > MaxEntries

\* The filter's two promises, of the filter as the manager drives it (disabled
\* and enabled again, between transmissions, its verdicts mixed with the
\* limiter's): nothing is silenced as a duplicate for longer than TTL, and
\* nothing is let through twice within TTL unless it was crowded out.
DuplicateIsRecent          == Dedup!DuplicateIsRecent
ReadmittedLateOrCrowdedOut == Dedup!ReadmittedLateOrCrowdedOut
=============================================================================
