# A TLA+ model of Meshpoint

Meshpoint is a LoRa gateway: one Python process on a Raspberry Pi that receives
Meshtastic and MeshCore packets, stores them, relays some of them, and ships all
of them to a cloud service. Its hard parts are not its algorithms but the way
its `asyncio` tasks meet at shared state. This directory models those parts,
checks them with TLC on small instances and proves with TLAPS, for all values of the
constants, every invariant and action property the runs check. Paths are relative to the repository;
`src/…` without a second `src` is the Python package.

Run it with `tlc -config X.cfg M` for a model and `tlapm M.tla` for a proof. Each
`.cfg` names the specification, the constants and the properties of one run; a
run without a module of its own checks the module named in the table below. The
properties are defined at the end of the module of the component, and the
operators marked `Mutant:` are plausible bugs, used to see that each property can
fail. Identifiers in backquotes are those of the code or of the modules.

## 1. The system

| Component | State | Operations | Talks to |
|---|---|---|---|
| `capture/*_source.py`, `capture_coordinator.py` | a queue of 1000 captures, a task per source | start, stop, put, get | the pipeline |
| `coordinator.py` `PipelineCoordinator` | `_running`, pipeline and cleanup tasks, callbacks | start, stop, process a capture | every component below |
| `decode/*` | keys, none otherwise | decode, decrypt | the pipeline |
| `storage/*` | one SQLite connection | insert, upsert, query, clean up | pipeline, API |
| `relay/relay_manager.py` | `_enabled`, counters | evaluate, process, statistics | filter, limiter, transmitter |
| `relay/dedup_filter.py` | ordered map key → time first seen | `is_duplicate`, `clear` | relay manager |
| `relay/rate_limiter.py` | deque of grant times | `allow`, `current_rate`, `remaining_capacity` | relay manager, upstream client |
| `relay/meshtastic_transmitter.py` | the serial interface | connect, transmit | relay manager |
| `api/upstream_client.py` | `_running`, `_connected`, `_buffer`, the socket, three tasks | `send_packet`, start, stop, connection, heartbeat and listener tasks | pipeline callback, stats reporter, command handler, cloud |
| `analytics/stats_reporter.py` | counters since the last reset | record, build a report, reset | pipeline, upstream client |
| `transmit/nodeinfo_broadcaster.py` | interval, last broadcast, an event, the loop task | start, stop, `set_interval`, `broadcast_now` | API routes, transmit service |
| `transmit/tx_service.py`, `duty_cycle.py` | packet counter, records of airtime | `send_text`, `send_nodeinfo`, budget | API routes, broadcaster, concentrator |
| `capture/meshcore_usb_source.py`, `transmit/meshcore_tx_client.py` | the serial handle, subscriptions, a health check | connect, reconnect, send | pipeline, transmit service |
| `relay/mqtt_publisher.py` | connection flag, names of nodes | publish, connection callbacks | pipeline, MQTT library |
| `integrations/tak_publisher.py` | throttle per node | publish | pipeline |
| `api/websocket_manager.py` | set of clients under a lock | connect, disconnect, broadcast | pipeline callback |
| `remote/command_handler.py` | table of executors | handle | listener task |
| `config.py`, `api/routes/config_routes.py` | the configuration in memory and in `local.yaml` | update, save, restart | all |
| `cli/setup_wizard.py` | a copy of `local.yaml` | read, ask, write | `local.yaml` |
| `hal/concentrator_config.py`, `hal/sx1302_wrapper.py` | the channel plan | compute, configure | concentrator source |
| `api/routes/messages.py`, `api/server.py` | a task per text packet heard | send, intercept | transmit service, message table |
| `scripts/network_watchdog.py` | failure counter | check, reconnect, reboot | the operating system |

Everything runs on one event loop, except for the MQTT client's network thread
and work put on executors. Between two `await`s a task is alone, so **a step of
every model is the code between two awaits**, and the hazards are at the awaits:
state read before one and used after it, tasks that end in an order nobody wrote
down, and loops that do not await at all. `PROJECT.json` lists the hazards, each
at its line, with the properties that cover it or the reason why none does.

What makes each modelled component correct:

* **Rate limiter.** No window holds more grants than the limit, no burst window
  more than the burst size, and pruning the deque changes no decision.
* **Relay and its dedup filter.** The first hearing of a packet decides; a packet
  is rejected as a duplicate only within the TTL of its last admission, and let
  through again only when the TTL is over or newer packets crowded it out.
* **Upstream client.** Packets arrive in order and not twice on a connection, are
  lost only where the bounded buffer overflows, statistics are not counted twice,
  and a buffer that can be drained is drained.
* **NodeInfo broadcaster.** No change of the interval is lost while the loop
  waits, and every broadcast that is due is attempted.
* **Messages and airtime.** What the sender was told is sent is on disk; a packet
  has one row, unless two copies of it were in hand at once; between two restarts
  airtime exceeds the limit by no more than a packet for each further sender that overlaps.
* **Pipeline.** What a node's row counts was stored; the cleanup leaves exactly what
  it is told to; nothing that fails keeps the captures behind it in the queue.
* **MQTT.** Nothing enciphered is published, and with a list no private text outside it, but
  for channels that are taken for listed ones.
* **Configuration.** What was stored stays stored; memory, file and the running parts
  agree or the user was told; the node id survives restarts; the concentrator
  hears every channel it enables.
* **MeshCore USB source.** One task at a time opens or closes the port, stopping
  releases it, and the source finds its device again whatever failed in between.

## 2. The modules

| Module | Models | Remarks |
|---|---|---|
| `RateLimiter` | `relay/rate_limiter.py` | the code's deque `timestamps`; `grants` is the history |
| `SlidingWindow` | what a limiter promises | remembers every grant, prunes nothing; the abstract specification |
| `DedupFilter` | `relay/dedup_filter.py` | the `OrderedDict` is a sequence of entries in insertion order |
| `RelayManager` | `relay/relay_manager.py`, `meshtastic_transmitter.py` | INSTANCEs both `RateLimiter` and `DedupFilter` for its `_limiter` and `_dedup` |
| `UpstreamClient` | `api/upstream_client.py`, the reporter's counters | connection task, heartbeat task, pipeline, network, `stop()` |
| `NodeInfoBroadcaster` | `transmit/nodeinfo_broadcaster.py` and the two routes that touch it | loop, Send Now, `set_interval`, the transmit switch |
| `TxService` | `transmit/tx_service.py` (Meshtastic path), `duty_cycle.py` | several overlapping senders, failures and restarts |
| `Messaging` | the send and delete routes, the interception of text packets, `storage/message_repository.py` | EXTENDS `TxService`: a request transmits, then stores |
| `MeshcoreUsb` | `capture/meshcore_usb_source.py`, `transmit/meshcore_tx_client.py` | the tasks that share the handle of the companion radio, and the radio |
| `Decoding` | `decode/*`, what the sources hand over | pure; no variables |
| `MqttPublisher` | `relay/mqtt_publisher.py`, the resolver, what the formatters make | EXTENDS `Decoding`; a specification of its own and a part of `Pipeline`; instance `MCMqttPublisher` |
| `Pipeline` | capture queue, `coordinator.py`, packet, node and telemetry tables | EXTENDS `MqttPublisher`; instance `MCPipeline`, which names the assignments of hashes |
| `ChannelPlan` | `hal/concentrator_config.py`, the frequencies of `config.py`, the offsets of `sx1302_wrapper.py` | pure; no variables |
| `Configuration` | `config.py`, the configuration routes, the wizard, the start of the service | EXTENDS `ChannelPlan` |
| `…Proofs` | theorems about the module in the name | |

How the state corresponds:

* **RateLimiter.** `Grant` and `Refuse` are the two ends of `allow()`, each with
  its pruning; `Observe` is either query, which prunes as well. `Tick` is
  `time.monotonic()`. A tick is a unit of time, so both window edges are met
  exactly: the code keeps a grant that is exactly 60 s old and does not count one
  that is exactly 5 s old as part of a burst.
* **DedupFilter.** `Fresh` and `Duplicate` are the two ends of `is_duplicate()`.
  The eviction is by first insertion, not by last use: the docstring
  (`dedup_filter.py:13-15`) calls it LRU, but a lookup does not move the entry.
* **RelayManager.** One action per reason of `evaluate()`, in the order of its
  early returns, and `Approve`, which counts, transmits and appends to the
  history. A packet is a key, which fixes its type and
  whether the decoder leaves a payload in it; the hops left and the signal vary
  from one hearing to the next, and a signal is missing, too strong, in range or too weak,
  which is what lines 91-95 tell apart. `Stats` is `get_stats()`, which prunes the
  limiter. `Relayed` is the return of the transmission that `Approve` started.
* **UpstreamClient.** `main` says at which await the connection task is, `heart`
  the same for the heartbeat task. `ws` is the link as the network sees it:
  `open`, `dead` (the peer is gone, no ping has timed out), `closed`. `"draining"`
  is a write that waits for the socket's flow control with `_send_lock` held.
  A message is its number in the order of the accepted `send_packet` calls.
  `CloseRaises` is any await of the connection task that raises: the same code
  runs wherever it is. `written`, `evicted`, `cloud` and `reports` are history.
* **NodeInfoBroadcaster.** `task` is where the loop is, `event` is the
  `asyncio.Event`. Time is kept relative to now: `age` of the last broadcast,
  `left` of the wait. `"running"` is the stretch of the loop between two awaits, in
  which no other handler runs; a wait of no length keeps the loop in it. Waking,
  pausing, sending and waiting are steps of their own within the stretch, so
  that a loop that never leaves it can be seen.
* **TxService, Messaging.** `stage` of a sender is the await of `_send_meshtastic` or
  `send_nodeinfo` it is at: the airtime (`measuring`), the radio (`approved`), the polling until the
  radio is free (`sent`). `records` is the tracker's deque, pruned by every call that prunes
  it in the code; `emitted` is the history of what went on the air, with the
  boot of the service it belongs to. `Messaging` adds the rest of the send route
  (`route`: the lookup of the name, the insert, the commit), a task for every copy of a
  text packet heard, the echo of our own included (`task`: lookup, check, insert or update,
  commit), and the table as the connection sees it (`table`) and as it is on
  `disk`. A `commit()` writes out whatever any task has written by then; a restart
  goes back to `disk`.
* **MeshcoreUsb.** `at` says at which await `start()`/`stop()`, the scheduled
  reconnection and the health check are; `_connect`, `_disconnect` and
  `_reconnect` are written once and parameterised by the task that runs them.
  Handles are numbered, so that one left behind by a connection that failed half
  way (`half`) stays visible after `_meshcore` is overwritten. `Stop` cancels the
  tasks at the await they are at. The delays are left open, since no order of
  steps depends on their length except for the window of recent events. The
  `meshcore` library is external: `create_serial` holds the port only when it
  returns a handle, and `disconnect()` releases it even when it raises. The
  device hangs or is unplugged, and comes back with its old connections or
  without; a command may also be lost on a device that works.
* **Decoding.** A frame (`Frame`) is who captured it, its size, the channel whose key
  enciphers it, what is inside, and what a wrong key makes of it. A packet has the
  fields the rest of the service decides on. Keys are tried in the order of
  `get_all_keys()`, and the first that gives something that parses wins, right or
  wrong. An event of the companion radio is wrapped and adapted without decoding.
* **MqttPublisher.** `conn` is the client and its connection flag, which the library's
  thread writes; `named` is `_identity_cache`; `sent` is what the last packet gave rise
  to. `known` holds the channels registered with the resolver at the start, in that order,
  and `hash` the byte of each channel, any of the functions in `Hashings`:
  `Entered` and `NameOf` are the dictionary `_hash_to_name` and its lookup, in which 0 is
  `LongFast`, the last channel with a hash gives the name, and other hashes are a
  "ch" name. One preset, the default channel, stands for the eight, whose hashes differ
  under the default key. By itself (`MqttSpec`) the publisher is offered any packet the
  decoders can make, with the keys of the start or those added since.
* **Pipeline.** `stage` and `cur` are where `_process_capture` is and with which packet:
  each statement of `_store_packet` and each commit is a step. `db` is what
  the one SQLite connection sees, `disk` what is committed. `cleaner` is the
  cleanup task. `StoreFails` is a statement or a commit that raises, `CleanupFails` the same
  in the cleanup, which ends with it. `ever` and `grown` are history.
* **Configuration.** `file` is `local.yaml`, `mem` the `AppConfig` in memory, `rt` what the
  service built from it when it started. A route has no await between its first
  assignment and its answer, so it is one step: it is refused (`PutRefused`, with what was
  assigned before left in memory) or writes (`PutSection`), and the write is
  saved, denied (403), or lost with the file, which the code has truncated by
  then. `copy` is what an open wizard has read. Fields that a route handles alike share one field of the model, as the
  head of the module lists. `saved`, `astray`, `apart`, `restartDue` and `onAir` are history.
* **ChannelPlan.** The tables of regions and presets as functions, `FromRadioConfig` and `Offsets` as
  operators; frequencies in Hz, as in the code.

## 3. The runs

Passing runs:

| Run | Properties | Bounds, and what they reach |
|---|---|---|
| `RateLimiter` | `LimiterTypeOK`, `WindowBound`, `BurstBound`, `ImplementsSlidingWindow` | limits 3 and 2, windows 5 and 2, 13 ticks: more than two full windows, so that pruned grants and both edges matter |
| `RelayManager` | `RelayTypeOK`, `FirstHearingDecides`, `DuplicateIsRecent`, `ReadmittedLateOrCrowdedOut` | three keys (two worthy, one undecrypted), a filter of two, a TTL of 3, four hearings in 4 ticks: expiry and eviction race |
| `UpstreamClient` | `UpstreamTypeOK`, `NeverSentUnconnected`, `InOrderOncePerConnection`, `LossIsOverflow`, `HeartbeatsDisjointOrRepeated`, `BufferDrains` | a buffer of 2 and three messages (one more than fits, while one is being sent), two heartbeats, two network failures: a failure after a reconnection, and one in each phase |
| `NodeInfoBroadcaster` | `BroadcasterTypeOK`, `WakesByDue`, `PausedMeansZero`, `DueIsAttempted` | intervals 0 to 3 with a startup delay of 2, so that a change can fall before, at and after the time due |
| `MeshcoreUsb` | `UsbTypeOK`, `OneOpener`, `StoppedIsClean`, `OneMissTolerated`, `FetchingWhenQuiet`, `SelfHeals` | two outages and two lost commands: as many misses as start a reconnection, and an outage during the reconnection after another |
| `Configuration` | `ConfigTypeOK`, `SavedStays`, `MemoryIsSaved`, `RunningIsSaved`, `ReachesEveryChannel`, `IdentityStable` | three kinds of file to begin with, regions US and ANZ, two requests, one run of the wizard, two starts: a request between the wizard's reading and writing, and a restart after both |
| `Pipeline` | `PipelineTypeOK`, `CountsBacked`, `PublishedAsAllowed`, `CleanupKeepsMax`, `QueueDrains` | a queue of 2, one packet retained, three of four kinds of frame captured, two failures or restarts: a full queue, a cleanup overtaken by an insertion, a failure after a failure; hashes all distinct, or one unlisted channel with hash 0 and the channel added later with that of the default one, before and after a restart registers it |
| `Messaging` | `MsgTypeOK`, `OneRowUnlessOverlap`, `AnsweredIsStored`, `DutyBound`, `AirtimeAccounted` | one request and the broadcaster, airtime 2 against a limit of 3, a window of 1 tick of 2, three emissions, two copies heard, two starts |

Runs that refute what the repository says, each a finding in `PROJECT.json`:

| Run (module) | Refuted | What happens |
|---|---|---|
| `UpstreamReconnect` (`UpstreamClient`) | `Reconnects` | a connection closed while the buffer is empty ends heartbeat and listener, and the loop goes on sleeping |
| `NodeInfoFreeze` (`NodeInfoBroadcaster`) | `EventLoopGoesOn` | a broadcast overdue while transmission is disabled makes the loop go round without an await |
| `OutOfBand` (`Configuration`) | `TransmitsInBand` | a frequency stored for one region and a region chosen later in the wizard: the receiver falls back to the new region's default, the transmitter does not |
| `ListedChannelsOnly` (`MCMqttPublisher`) | `ListedChannelsOnly` | a channel that is not on the list has the hash of a listed one that was registered after it or of the primary channel: its text is published under the listed name (hash 0 does the same and is among the hashes of `Pipeline`) |

The passing properties next to these say what does hold: `BufferDrains` says a queued packet is
what makes the client notice and reconnect, `DueIsAttempted` holds up to the freeze,
`PublishedAsAllowed` says what a list of channels keeps back. `Pipeline` runs with two
assignments of hashes; the theorems are about all of them.

Several properties name their exceptions, and each exception is something the
code does: `LossIsOverflow` allows an unsent packet for each overflow, because a
full buffer may evict the message being sent and `popleft()` then removes the
next one; `DutyBound` allows a packet for each further sender that overlaps;
`OneRowUnlessOverlap` excepts packets with two handlers at once; `SavedStays`
excepts what a torn write or an open wizard lost; `MemoryIsSaved` excepts the
fields of failed requests; `RunningIsSaved` excepts the radio whenever
the stored frequency is its region's default, which is where a request naming only the region
puts it and which is wider than that case; `PublishedAsAllowed` excepts a
channel with hash 0, one whose hash a listed channel registered later has overwritten, and
names that cannot be told from an unknown hash.

What they do not say: `LossIsOverflow` counts a message as written when the link took it,
half open or not; `HeartbeatsDisjointOrRepeated` does not notice counts that the reset wipes;
`RunningIsSaved` does not compare the duty-cycle limit and the MQTT publisher, which
are built at the start; `QueueDrains` is about storage failures and restarts, not about an
exception raised by `_record_stats`.

`DedupFilter`, `TxService`, `Decoding` and `ChannelPlan` have no run of their own: they are
checked inside `RelayManager`, `Messaging`, `Pipeline` and `Configuration`, where what drives them is the
code that does.

Bounds. Constants with `Max` or `Horizon` in the name are bounds of the
model and guard the action that counts up, except where the declaration says
that they are the code's own (`MaxEntries`, `MaxPerMinute`, `MaxQueue`, `MaxRetained`,
`MaxInterval`, `MaxBackoff`); the others are parameters of the
code. `CHECK_DEADLOCK FALSE` is set for `UpstreamClient`, `MeshcoreUsb`, `Pipeline`, `Messaging` and
`Configuration` and for the two violation runs over `UpstreamClient` and `Configuration`: these models
come to a stop when every bounded action is used up. No run uses symmetry.

## 4. Fairness

Safety runs use `Spec`, without fairness. `FairSpec` of `UpstreamClient` assumes
weak fairness of the connection task, of the heartbeat task, of ping timeouts and
of the start and the end of `stop()`: an event loop runs every task that is ready
and the `websockets` library times out every ping. Nothing is assumed of the
network, of packets arriving or of `stop()` being called. The number of network
failures is bounded, which stands for "the network is up often enough".
`FairSpec` of `NodeInfoBroadcaster` assumes the start of the loop, its steps, the
clock, and that a broadcast or a Send Now under way ends, since every wait in
`send_nodeinfo` has a limit; not that it succeeds, nor that anyone sets an
interval. `FairSpec` of `MeshcoreUsb` assumes the steps of every task, the end of
every delay and of a command under way (each has a timeout) and of the window of
recent events; not that the device comes back, which `SelfHeals` has as its
premise, nor that anyone sends or stops the source. `Spec` of `Pipeline` assumes
the steps of the pipeline task alone: each of its awaits is a statement of SQLite,
whose busy timeout is 5 s, a call in a thread with a socket timeout, or the relay;
nothing is assumed of the cleanup, of the network or of what is captured.

## 5. The proofs

Every theorem is `Spec => []P`, `Spec => [][A]_vars` or a refinement, for all constants
that satisfy the `ASSUME` of the module it is about; the code's own constants do. Every
invariant and every action property that a passing run checks is also a theorem, so what a
run shows on a small instance holds on every other.

| Module | Theorems |
|---|---|
| `RateLimiterProofs` | `WindowBoundHolds`, `BurstBoundHolds`, `DequeImplementsHistory`, `LimiterTypes` |
| `RelayManagerProofs` | `ReadmissionHolds`, `SilenceIsShort`, `FirstHearingHolds`, `RelayTypes` |
| `UpstreamClientProofs` | `PacketsInOrder`, `NoSilentDrop`, `HeartbeatsNotCountedTwice`, `LossBounded`, `UpstreamTypes` |
| `NodeInfoBroadcasterProofs` | `BroadcasterTypes`, `LoopWakesByDue`, `NoLostWakeUp` |
| `MeshcoreUsbProofs` | `OneOpenerHolds`, `StopReleasesThePort`, `ALostCommandIsTolerated`, `MessagesKeepComing`, `UsbTypes` |
| `PipelineProofs` | `CountsAreBacked`, `PublishingKeepsToTheList`, `PublisherKeepsToTheList`, `CleanupIsExact`, `PipelineTypes` |
| `MessagingProofs` | `AnsweredStaysStored`, `DutyCycleBounded`, `NothingOnAirForgotten`, `PacketHasOneRow`, `MessagingTypesCorrect`, `MessagingImplementsTxService` |
| `ConfigurationProofs` | `SettingsStayStored`, `MemoryIsTheFile`, `RestartChangesNothing`, `IdentitySurvives`, `EveryChannelReached`, `ConfigTypes` |

Hardly any property is inductive as it stands. The invariants, and why each is needed:

* **Rate limiter.** A grant is decided from the deque, and the properties speak of the
  history. `LimiterInv` adds that the history is sorted in time (`GrantsSorted`) and
  that the deque is the end of it, everything before being older than the window
  (`DequeIsTail`). A grant then says that the one a full limit back has left the window.
  That a burst is visible in the pruned deque needs `BurstWindow <= Window`, which the
  constants of the code (5 and 60) give. The same two facts give the refinement: what
  the deque holds and what the history holds within the window have the same length,
  so every answer of the code is one of `SlidingWindow`, and a query, which prunes and
  grants nothing, is a stutter.
* **Relay.** The filter answers from what it holds, the promises speak of all it ever
  admitted. The invariant says that the filter is the end of the history (`SeenIsTail`),
  that the history is sorted in time (`FreshSorted`), that what was dropped is TTL old or
  has a full filter of newer packets behind it (`Gone`), and that every approval points
  at its admission (`ApprovalsAreFresh`). The types need `Counted`, what the manager counts.
* **Upstream client.** `OrderInv`: the buffer is the run of the last accepted messages
  (`BufferIsRun`); what arrived is no newer than its head, and older when the head is not
  yet being sent on this connection. `LossInv` is an account: what left the buffer
  unwritten (`Lost`), and one more while the message being sent has been pushed out and
  yet written (`Spare`), is covered by what overflowed. The second part is the point: the
  `popleft()` after that send removes an unsent message, and the eviction that made it do
  so is one whose victim arrived. `TaskInv`: a heartbeat task lives only in the part of
  the connection task in which `_connected` is true, which is what makes the silent
  `return` of `_send` harmless. `HeartInv`: a report starts at the last reset, and what
  arrived before either ends there or starts there and came over an earlier connection.
* **NodeInfo broadcaster.** A broadcast that never succeeded leaves no age to compare
  with; `WaitFits` says of every waiting loop, with or without a last broadcast, that its
  wait fits the interval unless the event is set, and `GoOnKeepsInv` shows it for the one
  place where a wait is computed.
* **USB source.** Nothing locks the connection; `Apart` is the order in which the tasks
  start each other: while `start()` runs no worker has been started, while `stop()`
  disconnects both are over, and the scheduled reconnection starts the health check only
  as its last step. `SourceInv` adds who holds the port (`Connections`: besides the
  handle in use only handles of a `_connect` that failed half way; a reconnection starts
  from such a handle or from none), what a failure costs (`Patience`: on a device in
  place a miss is a lost command, and a reconnection takes two) and that fetching is on for
  the handle but for the moment in which the transmit client turns it on again
  (`Fetching`).
* **Pipeline.** `CountsBacked` needs what the pipeline is about to do: between the
  insertion and the statement on the node the packets are one ahead, in `db`, and `disk`
  was a `db`. `PublishedAsAllowed` needs that a packet that is still enciphered is
  never marked decrypted, which is shown of each decoder (`DecodeDecoded`), and that the
  name of a hash is that of the last channel with it (`NameIsLast`): a packet passes the
  list under a listed name only as that channel, or as one before it with the same hash.
  It is shown of the publisher by itself and within `Pipeline`; both need that what is
  registered is a sequence of channels (in `Pipeline`, `KeysKnown`).
  `CleanupKeepsMax` needs what the cleanup knows between its count and its deletion:
  the table is what it keeps, what it will delete and what came in since (`Accounted`).
  The types need that only channels with a key have a name (`KeysKnown`). The frames
  are those of `Decoding`; queue, retention, lists, modes and the number of captures and
  failures are arbitrary.
* **Airtime.** `TxInv` has two accounts. `Accounted`: from any time within the window on,
  what this start of the service put on the air is recorded with at least that time, or a
  call that has sent will record it. `WithinBudget`: what is recorded in the window
  and what the calls past the check may still add is at most the limit and one longest
  packet for each further sender. The first is stated for every such time, because `Tick`
  moves the window; the second counts from the check on, because the check and the
  record are on either side of an await. Both are sums over the deque and over the senders; the
  lemmas on what one step changes in such a sum are the longest part of the proof.
  `MessagingImplementsTxService` carries the two to the composition: every step of
  `Messaging` is one of `TxService` or leaves its variables alone.
* **Messages.** For `AnsweredIsStored`, an answered request inserts nothing more, its row
  is in the table and on disk (`InBoth`), so that neither a commit nor a restart loses
  it, and what awaits its commit is in the table that will be committed (`Inserted`).
  For `OneRowUnlessOverlap`, `RowsIInv` says that at most one task has a packet in hand
  unless it is recorded as overlapped (`OneHand`), that what this task found at its lookup is
  still so when it writes (`Inserting`, `Updating`), that a copy in hand is not in the
  count yet (`Uncounted`), and that the table and the disk obey the same bounds, since a
  restart swaps them.
* **Configuration.** For `SavedStays`, file, history and the wizard's copy define every
  setting; what is shown is that every writer merges, and that each way not to is recorded in
  `astray`. The rest is `ConfigInv`: the running radio is what memory gives, and
  memory what the file gives until a restart is due (`RadioInv`), and the id peers know
  is the one the file gives (`IdInv`). It has to be proved together, for a route is
  shown to answer truly by what it stored (`Untold`) against what runs. `ReachesEveryChannel`
  goes through the plan of every region, which is why its constants are sets of `AllRegions`.

What the assumptions say. `MqttAssumption`: a hash is a byte. `TxAssumption`: there is a sender and an airtime, and both sets are
finite, since the sums are over them. `MessagingAssumption`: a packet of another node is not
one of ours (ids do not collide, section 6). `ConfigurationAssumption`: regions are those of
`config.py`, and the wizard runs at most twice: `FreshId` has two ids to draw. The number of requests
and starts is arbitrary. The others are the types of the constants.

What the proofs changed. Two `CASE` expressions, of `onAir'` in `Boot` and of
`FromRadioConfig` in `ChannelPlan`, had guards that overlapped; TLC takes the first that
is true, where TLA+ leaves the choice open, so the theorem was about a model TLC did not
check. The guards now exclude each other, as the order of the branches does in the code.

Only model-checked: liveness under fairness (`BufferDrains`, `DueIsAttempted`, `SelfHeals`,
`QueueDrains`), which the prover does not do, and what the five violation runs
refute, which is no theorem. The recursive functions and folds of the models are reasoned about
by what one step changes: the induction over finite sets that this needs is taken from
the well-foundedness of strict inclusion (`FS_StrictSubsetOrderingWellFounded`, `WFMin`), as the
induction theorems that take an operator cannot be instantiated. What a decoder or a formatter
computes for every input is outside of both.

## 6. What the models leave out

* One Send Now at a time: a second one would change the same one variable, `age`,
  in the same two ways.
* What the upstream rate limiter refuses: the code counts and forgets it.
* The listener task and command replies. The listener ends when the connection
  does and changes no state that is modelled, apart from replies, which use the
  same locked `_send`.
* A packet's type is a function of its key in `RelayManager`, so one packet id does not
  return with another type. In `Messaging` a packet is its id: ids do not collide,
  which in the code they may after a restart (`tx_service.py:84`).
* The queue of MeshCore events, the detection of the port and the standalone
  connection of the transmit client. `_resolved_port` never changes, so a device
  that returns on another port is not found; "reachable" in `SelfHeals` means on
  that port.
* In `Pipeline`, the TAK publisher, the relay and the callbacks, beyond that each ends;
  `_record_stats`, whose exception would end the pipeline task; the source tasks, beyond
  that frames may stop coming.
* In `Configuration`, the fine differences between fields a route handles alike, the
  GET routes, and the wizard's prompts.
* Formats, logs and the content of messages and statistics.

Seen while modelling, and not worth a run of their own.

* Upstream: what is written to a half-open link is lost, as there are no
  acknowledgements; packets recorded while a heartbeat awaits its write are wiped by
  the reset; an append during an awaited send may make `popleft()` remove an unsent
  message (`upstream_client.py:259`); `docs/FAQ.md:85` speaks of a 5-minute heartbeat and
  `upstream_client.py:42` sets 540 s.
* Transmission: the duty cycle starts from zero after a restart; overlapping sends
  exceed its budget (`tx_service.py:290`, where `duty_cycle.py:3-4` promises otherwise);
  `tx_service.py:260` sends with a hop limit of 3 whatever `hop_limit` is configured;
  `next_due_at` shown to the user is stale after a failed first broadcast
  (`nodeinfo_broadcaster.py:131`).
* Relay: only a packet that could not be decrypted keeps a payload, and such a
  packet is never approved, so what is approved is counted and not sent
  (`meshtastic_transmitter.py:158`); `DeduplicationFilter.clear` has no caller.
* USB source: after a missed probe the health check waits 20 s and then its whole
  interval of 180 s again, where its docstring (`meshcore_usb_source.py:298-300`) says
  it retries after a short delay; a source started without a device stays idle until
  a restart (`:75-85`), where `docs/COMMON-ERRORS.md:419-420` promises a reconnection;
  a handle whose `_connect` failed half way is overwritten without being closed
  (`:165`), which is why `StoppedIsClean` excepts `half`.
* Messages: two copies of a message handled at once give two rows or lose a count;
  our own message heard while it is being sent gets a second row; deduplication is
  by packet id alone; a crash between the transmission and `save_sent` leaves a
  message on the air and not in the table.
* Storage: a failed cleanup ends the cleanup task (`coordinator.py:186`); a node heard
  once shows a packet count of 0; the purge and delete statements of the
  repositories have no callers.
* MQTT: with the default, empty `publish_channels` every channel there is a key for is
  published (`mqtt_publisher.py:5-6`, `:78`), where `docs/CONFIGURATION.md:310` says that private
  channels never are unless added to the list; `location_precision` applies to the JSON form only (`mqtt_formatter.py:312`,
  `mqtt_publisher.py:307`; `docs/CONFIGURATION.md:346`); a node is announced to Home
  Assistant with the sensors of its first packet only; a list of channels blocks
  MeshCore unless "MeshCore" is on it; a channel whose name starts with "ch" passes
  the list as an unknown hash does; hash 0 and equal hashes give one channel the name of
  another (`channel_resolver.py:92`, `:111`), so an unlisted channel may be published under a
  listed name (`ListedChannelsOnly`) and a listed one, its hash overwritten by an unlisted
  one, silently is not; `_format_encrypted` cannot be reached behind the gates.
* TAK: a send that fails does not update the throttle (`tak_publisher.py:85`), so an
  unreachable TCP server holds up the pipeline for 5 s per packet.
* Configuration: a run of the wizard overwrites what the service stored meanwhile
  (`setup_wizard.py:100`, `:115`); a write cut short empties `local.yaml` (`config.py:334`);
  a channel key that is not base64 is saved by PUT channels and stops the next
  start; a 400 leaves memory partly changed, and PUT nodeinfo then stores an
  interval an earlier refused request left there; with a region and a frequency in no
  band the concentrator is silently absent (`server.py:181`); PUT radio naming the
  current region resets the frequency without asking for a restart; PUT mqtt
  answers that no restart is required, although the publisher is built at the start;
  the default frequency of ANZ is 919.875 in `docs/CONFIGURATION.md:37` and 916.0 in
  `config.py:32`.

Not modelled at all, each with its reason in the components of `PROJECT.json`: the
packet builder, the TAK publisher, the WebSocket manager, remote commands, analytics,
the entry point, the watchdog, the scripts and the dashboard. They encode, query, display,
or call the operating system, and keep no state whose order of changes could go wrong.

## 7. What could follow

1. `DedupFilter` as a component with theorems of its own, instead of through `RelayManager`.
2. The table of messages as an implementation of an abstract one, a bag of packets heard and
   sent, under the hypothesis that no two tasks overlap.
3. The listener and `CommandHandler` in `UpstreamClient`, with commands that take
   longer than the connection lives.
4. `_record_stats` and the callbacks in `Pipeline`, with the exceptions they may raise.
