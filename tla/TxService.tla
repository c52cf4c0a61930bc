------------------------------ MODULE TxService ------------------------------
(***************************************************************************)
(* The native Meshtastic transmit path: src/transmit/tx_service.py         *)
(* (send_nodeinfo and _send_meshtastic) with the budget of                 *)
(* src/transmit/duty_cycle.py.                                             *)
(*                                                                         *)
(* A sender is one call in progress: a request of the messages route, the  *)
(* NodeInfo loop or its "Send Now" button.  Calls interleave at their      *)
(* awaits: the airtime computed in a worker thread, the radio asked and    *)
(* handed the packet in a worker thread, and the polling until the radio   *)
(* is free again.  The budget is checked after the first and the packet is *)
(* recorded after the last.                                                *)
(***************************************************************************)
EXTENDS Integers, Sequences, FiniteSets, SequencesExt

CONSTANTS Senders,       \* calls that can be in progress at a time
          Airtimes,      \* airtime of a packet, in ms
          Limit,         \* airtime the duty cycle allows in a window, in ms
          Window,        \* _window_seconds
          Horizon,       \* last tick of the clock, a bound of the model
          MaxEmissions,  \* packets emitted, a bound of the model
          MaxBoots       \* starts of the service, a bound of the model

ASSUME TxAssumption ==
    /\ Airtimes \subseteq Nat \ {0} /\ Airtimes # {} /\ IsFiniteSet(Airtimes)
    /\ Senders # {} /\ IsFiniteSet(Senders)
    /\ {Limit, Window, Horizon, MaxEmissions} \subseteq Nat
    /\ MaxBoots \in Nat \ {0}

VARIABLES now,       \* time.monotonic(), which a restart of the service keeps
          records,   \* _records: [at, airtime], oldest first
          stage,     \* of each sender: "idle", "measuring", "approved", "sent"
          airtime,   \* airtime_ms of each sender's packet, 0 when it has none
          boot,      \* starts of the service
          emitted    \* history: [at, airtime, boot] of the packets on the air

vars == <<now, records, stage, airtime, boot, emitted>>

Stages == {"idle", "measuring", "approved", "sent"}

Init == /\ now = 0
        /\ records = <<>>
        /\ stage = [s \in Senders |-> "idle"]
        /\ airtime = [s \in Senders |-> 0]
        /\ boot = 1
        /\ emitted = <<>>

-----------------------------------------------------------------------------
\* Airtime of a sequence of packets.
Millis(ps) == [i \in 1..Len(ps) |-> ps[i].airtime]
Total(ps) == SumFunction(Millis(ps))

\* Mutant: a record is dropped one tick too early.
UnexpiredEarly(rs, t) ==
    LET old == {i \in 1..Len(rs) : \A j \in 1..i : rs[j].at <= t - Window}
    IN SubSeq(rs, Cardinality(old) + 1, Len(rs))

\* _prune_expired drops the first records up to one that is not too old.
Unexpired(rs, t) ==
    LET old == {i \in 1..Len(rs) : \A j \in 1..i : rs[j].at < t - Window}
    IN SubSeq(rs, Cardinality(old) + 1, Len(rs))

\* Mutant: only what was sent before is held against the limit.
HasBudgetLeft(rs, ms) == Total(rs) < Limit \/ Total(rs) + ms <= Limit

\* check_budget, on the records that are left.
HasBudget(rs, ms) == Total(rs) + ms <= Limit

-----------------------------------------------------------------------------
\* A call is accepted, its packet built, and its airtime awaited.
Request(s, ms) ==
    /\ stage[s] = "idle"
    /\ stage' = [stage EXCEPT ![s] = "measuring"]
    /\ airtime' = [airtime EXCEPT ![s] = ms]
    /\ UNCHANGED <<now, records, boot, emitted>>

\* The call is over.
Return(s) == /\ stage' = [stage EXCEPT ![s] = "idle"]
             /\ airtime' = [airtime EXCEPT ![s] = 0]

Refuse(s) ==
    /\ stage[s] = "measuring"
    /\ ~HasBudget(Unexpired(records, now), airtime[s])
    /\ records' = Unexpired(records, now)
    /\ Return(s)
    /\ UNCHANGED <<now, boot, emitted>>

Approve(s) ==
    /\ stage[s] = "measuring"
    /\ HasBudget(Unexpired(records, now), airtime[s])
    /\ records' = Unexpired(records, now)
    /\ stage' = [stage EXCEPT ![s] = "approved"]
    /\ UNCHANGED <<now, airtime, boot, emitted>>

\* lgw_send returns 0: the packet goes on the air.
Emit(s) ==
    /\ stage[s] = "approved" /\ Len(emitted) < MaxEmissions
    /\ emitted' = Append(emitted, [at |-> now, airtime |-> airtime[s], boot |-> boot])
    /\ stage' = [stage EXCEPT ![s] = "sent"]
    /\ UNCHANGED <<now, records, airtime, boot>>

\* lgw_send returns an error: nothing is sent and nothing recorded.
EmitFails(s) ==
    /\ stage[s] = "approved"
    /\ Return(s)
    /\ UNCHANGED <<now, records, boot, emitted>>

\* Mutant: the record is put at the front.
RecordInFront(s) ==
    /\ stage[s] = "sent"
    /\ records' = Unexpired(<<[at |-> now, airtime |-> airtime[s]]>> \o records, now)
    /\ Return(s)
    /\ UNCHANGED <<now, boot, emitted>>

\* record_tx, whose log message prunes, and the call returns.
Record(s) ==
    /\ stage[s] = "sent"
    /\ records' = Unexpired(Append(records, [at |-> now, airtime |-> airtime[s]]), now)
    /\ Return(s)
    /\ UNCHANGED <<now, boot, emitted>>

\* GET /api/config reads the usage, which prunes.
Observe ==
    /\ records' = Unexpired(records, now)
    /\ UNCHANGED <<now, stage, airtime, boot, emitted>>

\* The service ends in any way and is started again: the records were in memory.
Restart ==
    /\ boot < MaxBoots
    /\ boot' = boot + 1
    /\ records' = <<>>
    /\ stage' = [s \in Senders |-> "idle"]
    /\ airtime' = [s \in Senders |-> 0]
    /\ UNCHANGED <<now, emitted>>

Tick == /\ now < Horizon
        /\ now' = now + 1
        /\ UNCHANGED <<records, stage, airtime, boot, emitted>>

Next == \/ \E s \in Senders : \/ \E ms \in Airtimes : Request(s, ms)
                              \/ Refuse(s) \/ Approve(s)
                              \/ Emit(s) \/ EmitFails(s) \/ Record(s)
        \/ Observe \/ Restart \/ Tick

Spec == Init /\ [][Next]_vars

-----------------------------------------------------------------------------
\* Airtime that boots bs put on the air in the window that ends at time t.
OnAir(bs, t) ==
    SumFunctionOnSet(Millis(emitted),
                     {i \in 1..Len(emitted) : /\ emitted[i].boot \in bs
                                              /\ emitted[i].at \in (t - Window)..t})

MaxAirtime == CHOOSE m \in Airtimes : \A a \in Airtimes : a <= m

\* Besides the types: the records are in the order of their times, which the
\* pruning from the front relies on.
TxTypeOK ==
    /\ now \in 0..Horizon
    /\ stage \in [Senders -> Stages]
    /\ airtime \in [Senders -> Airtimes \cup {0}]
    /\ \A i \in 1..Len(records) : records[i].at \in 0..now
    /\ \A i, j \in 1..Len(records) : i < j => records[i].at <= records[j].at
    /\ boot \in 1..MaxBoots

\* What the tracker really enforces.  A call checks the budget before, and
\* records its airtime after, it has awaited the radio, so calls that overlap
\* do not see each other: between two restarts, the airtime in any window is at
\* most the limit and one packet more for each further call in progress.
DutyBound ==
    \A b \in 1..boot : \A t \in 0..now :
        OnAir({b}, t) <= Limit + (Cardinality(Senders) - 1) * MaxAirtime

\* Nothing on the air is forgotten while the service runs: what this boot has
\* sent in the window is recorded, or its sender has yet to record it.
AirtimeAccounted ==
    LET pending == {s \in Senders : stage[s] = "sent"}
    IN OnAir({boot}, now) <= Total(records) + SumFunctionOnSet(airtime, pending)
=============================================================================
