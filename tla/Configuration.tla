---------------------------- MODULE Configuration ----------------------------
(***************************************************************************)
(* The settings of a Meshpoint: config/local.yaml, the AppConfig in the    *)
(* memory of the service, what the service took from it when it started,   *)
(* and the writers of the file: the routes of config_routes.py and         *)
(* nodeinfo_routes.py, TxService, which stores a derived node id, and the  *)
(* setup wizard, a process of its own.                                     *)
(*                                                                         *)
(* A route has no await between its first assignment and its answer: it is *)
(* one step.  Its write can be denied, or lost with all of the file when    *)
(* the disk is full or the power fails.  The wizard reads the file, asks   *)
(* its questions for minutes, and writes what it read merged with the      *)
(* answers.                                                                *)
(*                                                                         *)
(* A setting is a field of one flat function, "absent" when it is not set. *)
(* One field stands for all settings a route handles alike: "power" for    *)
(* tx_power_dbm, max_duty_cycle_percent and hop_limit, "long_name" for     *)
(* both names, "broker" for broker, port, topic_root and region, "host"    *)
(* for the text fields of TAK, "preset" for spreading factor, bandwidth    *)
(* and coding rate, "device_name" for name, location and hardware.         *)
(***************************************************************************)
EXTENDS ChannelPlan, FiniteSets

CONSTANTS Regions,       \* regions requests and the wizard choose from
          MaxRequests,   \* requests, a bound of the model
          MaxWizards,    \* runs of the wizard, a bound of the model
          MaxBoots       \* starts of the service, a bound of the model

VARIABLES file,      \* local.yaml
          svc,       \* "down", "up", or "failed" when it could not start
          mem,       \* the AppConfig of the running service
          rt,        \* what the service took from it when it started
          wizard,    \* "closed" or "open"
          copy,      \* what an open wizard read
          requests, wizards, boots,
          saved,     \* history: the last value stored on purpose, per field
          astray,    \* history: fields whose stored value was lost since
          apart,     \* history: fields set on one side only, memory or file
          restartDue,\* history: the user was told to restart, since the start
          onAir      \* history: the node id peers know, or "none"

counters == <<requests, wizards, boots>>
history == <<saved, astray, apart, restartDue, onAir>>
vars == <<file, svc, mem, rt, wizard, copy, counters, history>>

\* The wizard makes a device id only where it finds none: two runs need two.
FreshId == <<"d1", "d2">>

ASSUME ConfigurationAssumption == /\ Regions \subseteq AllRegions
                                  /\ {MaxRequests, MaxBoots} \subseteq Nat
                                  /\ MaxWizards \in 0..Len(FreshId)

-----------------------------------------------------------------------------
\* dict.update; upd @@ stored of module TLC, spelled out for the proofs, whose
\* prover does not know @@.
Updated(stored, upd) ==
    [f \in DOMAIN stored \cup DOMAIN upd |->
        IF f \in DOMAIN upd THEN upd[f] ELSE stored[f]]

\* The settings with their defaults (config.py, config/default.yaml).
Default ==
    [region |-> "US", preset |-> "LONG_FAST", frequency |-> "absent",
     slot |-> "absent", primary |-> "LongFast", keys |-> "none",
     sources |-> "none", tx_enabled |-> "off", power |-> "14",
     long_name |-> "Meshpoint", node_id |-> "absent", interval |-> "180",
     delay |-> "60", mqtt_enabled |-> "off", broker |-> "official",
     auth_mode |-> "password", username |-> "meshdev", api_key |-> "",
     publish |-> "all", json |-> "off", tak_enabled |-> "off",
     host |-> "local", relay |-> "off", device_id |-> "absent",
     device_name |-> "Meshpoint", upstream |-> "on", token |-> "absent"]
Fields == DOMAIN Default
EmptyFile == [f \in Fields |-> "absent"]

\* _apply_yaml, _merge_dataclass: the file over the defaults.
Load(stored) ==
    [f \in Fields |-> IF stored[f] = "absent" THEN Default[f] ELSE stored[f]]

\* The fields of a section, in the order its route handles them.
Order == [transmit |-> <<"tx_enabled", "power">>,
          identity |-> <<"long_name", "node_id">>,
          nodeinfo |-> <<"interval", "delay">>,
          mqtt |-> <<"mqtt_enabled", "broker", "auth_mode", "username",
                     "api_key", "publish", "json">>,
          tak |-> <<"tak_enabled", "host">>]

\* What a request may give; "bad" is what a route refuses.
Choices == [tx_enabled |-> {"on", "off"}, power |-> {"20", "bad"},
            long_name |-> {"bad"}, node_id |-> {"reserved", "chosen"},
            interval |-> {"0", "bad"}, delay |-> {"10", "bad"},
            broker |-> {"private", "bad"}, auth_mode |-> {"key"},
            username |-> {""}, api_key |-> {"secret"}, json |-> {"off"},
            tak_enabled |-> {"on", "off"}, host |-> {"bad"}]

\* A request gives one or two fields of its section.
Requests(sec) ==
    LET fields == {Order[sec][i] : i \in DOMAIN Order[sec]}
                  \cap DOMAIN Choices
    IN  UNION {{r \in [given -> UNION {Choices[f] : f \in given}] :
                  \A f \in given : r[f] \in Choices[f]} :
                 given \in {g \in SUBSET fields : Cardinality(g) \in 1..2}}

-----------------------------------------------------------------------------
\* Frequencies and slots as numbers, 0 when not set.
Frequencies == {"absent", "906.875", "869.525", "916.0", "865.4625", "921.9",
                "923.0", "917.0"}
Hz == [f \in Frequencies |->
         CASE f = "absent" -> 0          [] f = "906.875" -> 906875000
           [] f = "869.525" -> 869525000 [] f = "916.0" -> 916000000
           [] f = "865.4625" -> 865462500 [] f = "921.9" -> 921900000
           [] f = "923.0" -> 923000000   [] f = "917.0" -> 917000000]
Slot == [absent |-> 0, s20 |-> 20]
RegionFrequency == [US |-> "906.875", EU_868 |-> "869.525", ANZ |-> "916.0",
                    IND |-> "865.4625", KR |-> "921.9", SG_923 |-> "923.0"]

Frequency(cfg) ==
    ResolvedHz(cfg.region, cfg.preset, Hz[cfg.frequency], Slot[cfg.slot])

\* _resolve_channel_plan; NoPlan when the concentrator is not a source, or
\* when its constructor raises and the service goes on without it.
ReceivePlan(cfg) ==
    IF cfg.sources # "concentrator" THEN NoPlan
    ELSE FromRadioConfig(cfg.region, cfg.preset, Frequency(cfg))

\* add_channel_key for each key in turn; "bad" is one good key and then one
\* that is not base64, on which it raises.
KeysIn == [none |-> {}, one |-> {"club"}, two |-> {"club", "family"},
           bad |-> {"club"}]

\* _resolve_node_id: the configured id, else one derived from the device id,
\* else a random one.
ReservedIds == {"absent", "reserved"}
DerivedId == [d0 |-> "id of d0", d1 |-> "id of d1", d2 |-> "id of d2"]
NodeId(cfg) == CASE cfg.node_id \notin ReservedIds -> cfg.node_id
                 [] cfg.node_id \in ReservedIds /\ cfg.device_id # "absent" ->
                       DerivedId[cfg.device_id]
                 [] OTHER -> "random"

\* validate_activation.
Activated(cfg) == cfg.upstream = "off" \/ cfg.token = "valid"

\* The transmitter needs the concentrator (meshtastic_enabled), and the
\* NodeInfo broadcaster the transmitter.
Off == [plan |-> NoPlan, tx |-> "off", tx_hz |-> 0, node_id |-> "none",
        crypto |-> {}, broadcaster |-> "off", interval |-> "0"]
Started(cfg) ==
    [plan |-> ReceivePlan(cfg), tx |-> cfg.tx_enabled,
     tx_hz |-> Frequency(cfg),
     node_id |-> IF cfg.tx_enabled = "on" THEN NodeId(cfg) ELSE "none",
     crypto |-> KeysIn[cfg.keys],
     broadcaster |-> IF cfg.tx_enabled = "on" /\ ReceivePlan(cfg) # NoPlan
                     THEN "on" ELSE "off",
     interval |-> cfg.interval]

-----------------------------------------------------------------------------
\* Mutant: the file gets the section alone.
MergedAlone(upd, stored) == Updated(EmptyFile, upd)

\* existing[section].update(values).
Merged(upd, stored) == Updated(stored, upd)

\* Mutant: the values are written in place of the file.
WrittenBare(upd, stored, o) == CASE o = "saved" -> upd
                                 [] o = "denied" -> stored
                                 [] OTHER -> EmptyFile

\* save_section_to_yaml: open(path, "w") has emptied the file before the one
\* flush that fills it, and the file stays empty when the disk is full or the
\* power fails then (Stop follows); a file that may not be opened stays as it
\* was.
Outcomes == {"saved", "denied", "lost"}
Written(upd, stored, o) == CASE o = "saved" -> Merged(upd, stored)
                             [] o = "denied" -> stored
                             [] OTHER -> EmptyFile

\* A write by the service, and what the histories make of it; "told" is the
\* answer's restart_required.
Save(upd, o, told) ==
    /\ file' = Written(upd, file, o)
    /\ saved' = IF o = "saved" THEN Updated(saved, upd) ELSE saved
    /\ astray' = CASE o = "saved" -> astray \ DOMAIN upd
                   [] o = "denied" -> astray
                   [] OTHER -> Fields
    /\ apart' = CASE o = "saved" -> apart \ DOMAIN upd
                  [] o = "denied" -> apart \cup DOMAIN upd
                  [] OTHER -> Fields
    /\ restartDue' = (restartDue \/ (o = "saved" /\ told) \/ o = "lost")
    /\ onAir' = IF o = "lost" \/ (o = "saved" /\ "node_id" \in DOMAIN upd)
                THEN "none" ELSE onAir
    /\ UNCHANGED svc

Asked == /\ svc = "up"
         /\ requests < MaxRequests
         /\ requests' = requests + 1
         /\ UNCHANGED <<wizard, copy, wizards, boots>>

Refused(assigned) ==
    /\ mem' = Updated(mem, assigned)
    /\ apart' = apart \cup DOMAIN assigned
    /\ UNCHANGED <<file, svc, rt, saved, astray, restartDue, onAir>>

-----------------------------------------------------------------------------
\* The sections handled field by field: a field is assigned in memory as
\* soon as it passes, and the first that does not pass ends the request.
\* An empty TAK host passes when the same request disables TAK.
Passes(r, f) == \/ r[f] # "bad"
                \/ f = "host" /\ "tak_enabled" \in DOMAIN r
                              /\ r["tak_enabled"] = "off"

Assigned(sec, r) ==
    LET order == Order[sec]
        stop == {i \in DOMAIN order :
                    order[i] \in DOMAIN r /\ ~Passes(r, order[i])}
        kept == {order[i] : i \in {j \in DOMAIN order : \A k \in stop : j < k}}
        taken == [f \in DOMAIN r \cap kept |->
                     IF r[f] = "bad" THEN "" ELSE r[f]]
        legacy == sec = "mqtt" /\ stop = {} /\ "publish" \notin DOMAIN r
                  /\ mem.publish = "legacy"
    IN  IF legacy THEN Updated(taken, [publish |-> "all"]) ELSE taken

\* The checks made on the whole once every field has been assigned.
Consistent(sec, m) ==
    /\ sec = "mqtt" => /\ m.auth_mode = "password" => m.username # ""
                       /\ m.auth_mode = "key" => m.api_key # ""
    /\ sec = "tak" => (m.tak_enabled = "on" => m.host # "")

Accepts(sec, r) == /\ \A f \in DOMAIN r : Passes(r, f)
                   /\ Consistent(sec, Updated(mem, Assigned(sec, r)))

\* What an accepted request changes: publish_json is forced on for API keys
\* and private brokers.
Updates(sec, r) ==
    LET m == Updated(mem, Assigned(sec, r))
        forced == /\ sec = "mqtt"
                  /\ m.json = "off"
                  /\ m.auth_mode = "key" \/ m.broker # "official"
    IN  IF forced THEN Updated(Assigned(sec, r), [json |-> "on"])
        ELSE Assigned(sec, r)

\* Mutant: publish_json is forced in memory only.
ValuesUnforced(sec, r) ==
    IF sec = "nodeinfo"
    THEN [f \in {"interval", "delay"} |-> Updated(mem, Assigned(sec, r))[f]]
    ELSE Assigned(sec, r)

\* What of it is stored: the NodeInfo section always has both fields.
Values(sec, r) ==
    LET upd == Updates(sec, r)
    IN  IF sec = "nodeinfo"
        THEN [f \in {"interval", "delay"} |-> Updated(mem, upd)[f]] ELSE upd

\* restart_required.
Told(sec, r) == \/ DOMAIN r \cap {"tx_enabled", "node_id", "delay"} # {}
                \/ "interval" \in DOMAIN r /\ rt.broadcaster = "off"

\* 400: what was assigned before the refusal stays in memory.
PutRefused(sec, r) ==
    /\ Asked
    /\ ~Accepts(sec, r)
    /\ Refused(Assigned(sec, r))

\* 200, or 403 when the file may not be written; a new interval reaches the
\* broadcaster once it is saved.
PutSection(sec, r, o) ==
    /\ Asked
    /\ Accepts(sec, r)
    /\ mem' = Updated(mem, Updates(sec, r))
    /\ rt' = IF o = "saved" /\ "interval" \in DOMAIN r /\ rt.broadcaster = "on"
             THEN [rt EXCEPT !.interval = r["interval"]] ELSE rt
    /\ Save(Values(sec, r), o, Told(sec, r))

Put(sec, r) == PutRefused(sec, r) \/ \E o \in Outcomes : PutSection(sec, r, o)

UpdateTransmit == \E r \in Requests("transmit") : Put("transmit", r)
UpdateIdentity == \E r \in Requests("identity") : Put("identity", r)
UpdateNodeinfo == \E r \in Requests("nodeinfo") : Put("nodeinfo", r)
UpdateMqtt == \E r \in Requests("mqtt") : Put("mqtt", r)
UpdateTak == \E r \in Requests("tak") : Put("tak", r)

\* update_radio: checked as a whole, stored, and left out of memory until the
\* next start; a region without a frequency brings the regional default.
RadioUpdates(r) ==
    IF "region" \in DOMAIN r /\ "frequency" \notin DOMAIN r
    THEN Updated(r, [frequency |-> RegionFrequency[r["region"]]]) ELSE r

\* Mutant: a new frequency is not flagged.
RadioToldLess(r) == \E f \in DOMAIN r \cap {"region", "preset"} : r[f] # mem[f]

\* The frequency in memory is the resolved one.
RadioTold(r) ==
    \/ \E f \in DOMAIN r \cap {"region", "preset"} : r[f] # mem[f]
    \/ "frequency" \in DOMAIN r /\ Hz[r["frequency"]] # Frequency(mem)

RadioRequests ==
    {[region |-> x] : x \in Regions \cup {"bad"}}
    \cup {[preset |-> "MEDIUM_FAST"], [frequency |-> "917.0"]}
    \cup {[region |-> x, preset |-> "MEDIUM_FAST"] : x \in Regions}
    \cup {[region |-> x, frequency |-> "917.0"] : x \in Regions}

PutRadio(r, o) ==
    /\ Asked
    /\ IF "region" \in DOMAIN r /\ r["region"] = "bad"
       THEN Refused(<<>>)
       ELSE /\ Save(RadioUpdates(r), o, RadioTold(r))
            /\ UNCHANGED <<mem, rt>>

\* update_channels: the name of the primary channel in a save of its own,
\* then the keys, then the decoders' copy of them.  "second" is a primary
\* name that was saved by a request whose keys were denied.
PutChannels(p, k, o) ==
    LET primary == [primary |-> p]
        both == [primary |-> p, keys |-> k]
    IN  /\ Asked
        /\ mem' = Updated(mem, IF o = "denied" THEN primary ELSE both)
        /\ rt' = IF o = "saved"
                 THEN [rt EXCEPT !.crypto = KeysIn[k]] ELSE rt
        /\ CASE o = "denied" -> Save(primary, o, FALSE)
             [] o = "second" ->
                   /\ file' = Merged(primary, file)
                   /\ saved' = Updated(saved, primary)
                   /\ astray' = astray \ {"primary"}
                   /\ apart' = (apart \ {"primary"}) \cup {"keys"}
                   /\ UNCHANGED <<svc, restartDue, onAir>>
             [] OTHER -> Save(both, o, FALSE)

-----------------------------------------------------------------------------
\* The wizard: _preflight_check and _load_existing_config, minutes before
\* anything is written.
WizardOpens ==
    /\ wizard = "closed"
    /\ wizards < MaxWizards
    /\ wizards' = wizards + 1
    /\ wizard' = "open"
    /\ copy' = file
    /\ UNCHANGED <<file, svc, mem, rt, requests, boots, history>>

\* x if it is set, else the default d.
Or(x, d) == IF x \in {"absent", ""} THEN d ELSE x

\* _step_connectivity: activation (1), or the MQTT broker instead (2); a
\* current key is kept without being verified.
Connectivity(mode, auth) ==
    IF mode = 1 THEN [upstream |-> "on", token |-> Or(copy.token, "valid")]
    ELSE [upstream |-> "off", token |-> "absent", mqtt_enabled |-> "on",
          broker |-> Or(copy.broker, "official"), auth_mode |-> auth,
          username |-> IF auth = "password" THEN Or(copy.username, "") ELSE "",
          api_key |-> IF auth = "key" THEN Or(copy.api_key, "") ELSE ""]

\* _step_tak: nothing but the switch is written when it is off.
Tak(on) == IF on THEN [tak_enabled |-> "on", host |-> Or(copy.host, "local")]
           ELSE [tak_enabled |-> "off"]

\* _step_device_id: a current id is kept, or a fresh one made; a current
\* node id is kept unless it is reserved.
\* Mutant: the wizard makes a fresh device id each time.
DeviceIdFresh == FreshId[wizards]
DeviceId == Or(copy.device_id, FreshId[wizards])
Identity ==
    [device_id |-> DeviceId,
     node_id |-> IF copy.node_id \notin ReservedIds THEN copy.node_id
                 ELSE DerivedId[DeviceId],
     long_name |-> Or(copy.long_name, Or(copy.device_name, "Meshpoint host"))]

\* _step_device_name and _step_location, a current value being the default.
Device == [device_name |-> Or(copy.device_name, "Meshpoint host")]

\* _step_relay: nothing is written when the relay radio is declined.
Relay(on) == IF on THEN [relay |-> "on"] ELSE <<>>

\* The steps' answers; the choices no property tells apart go with the mode.
Answers(region, mode, auth) ==
    LET radio == [region |-> region, sources |-> "concentrator"]
        connectivity == Updated(radio, Connectivity(mode, auth))
        tak == Updated(connectivity, Tak(mode = 2))
        device == Updated(tak, Device)
        relay == Updated(device, Relay(mode = 2))
    IN  Updated(relay, Identity)

\* _deep_merge and _write_config, run by root: what the service has stored
\* since the wizard read the file is lost.
WizardWrites(answers, o) ==
    LET lost == {f \in Fields \ DOMAIN answers : copy[f] # file[f]}
    IN  /\ wizard = "open"
        /\ wizard' = "closed"
        /\ copy' = EmptyFile
        /\ file' = IF o = "saved" THEN Merged(answers, copy) ELSE EmptyFile
        /\ saved' = IF o = "saved" THEN Updated(saved, answers) ELSE saved
        /\ astray' = IF o = "saved" THEN (astray \ DOMAIN answers) \cup lost
                     ELSE Fields
        /\ apart' = IF o = "saved" THEN apart \cup DOMAIN answers \cup lost
                    ELSE Fields
        /\ restartDue' = (svc = "up")
        /\ onAir' = IF o = "saved" /\ NodeId(copy) = NodeId(file)
                    THEN onAir ELSE "none"
        /\ UNCHANGED <<svc, mem, rt, counters>>

\* The wizard is left with Ctrl-C.
WizardAborts ==
    /\ wizard = "open"
    /\ wizard' = "closed"
    /\ copy' = EmptyFile
    /\ UNCHANGED <<file, svc, mem, rt, counters, history>>

-----------------------------------------------------------------------------
\* The start of the service: load_config, validate_activation, the keys, the
\* concentrator's start, and the derived node id stored by TxService, whose
\* failure is only logged.
BootFails ==
    /\ svc # "up"
    /\ boots < MaxBoots
    /\ boots' = boots + 1
    /\ \/ ~Activated(Load(file))
       \/ file.keys = "bad"
       \/ ReceivePlan(Load(file)) # NoPlan     \* the HAL refuses
    /\ svc' = "failed"
    /\ UNCHANGED <<file, mem, rt, wizard, copy, requests, wizards, history>>

Boot(o) ==
    LET cfg == Load(file)
        derived == /\ cfg.tx_enabled = "on"
                   /\ cfg.node_id \in ReservedIds
                   /\ cfg.device_id # "absent"
        id == [node_id |-> NodeId(cfg)]
        stores == derived /\ o = "saved"
    IN  /\ svc # "up"
        /\ boots < MaxBoots
        /\ boots' = boots + 1
        /\ Activated(cfg)
        /\ cfg.keys # "bad"
        /\ o # "saved" => derived
        /\ file' = IF derived THEN Written(id, file, o) ELSE file
        /\ svc' = "up"
        /\ mem' = IF stores THEN Updated(cfg, id) ELSE cfg
        /\ rt' = Started(cfg)
        /\ saved' = IF stores THEN Updated(saved, id) ELSE saved
        /\ astray' = IF o = "lost" THEN Fields
                     ELSE IF stores THEN astray \ {"node_id"} ELSE astray
        /\ apart' = IF o = "lost" THEN Fields ELSE {}
        /\ restartDue' = (o = "lost")
        /\ onAir' = CASE o = "lost" -> "none"
                      [] o # "lost" /\ cfg.tx_enabled = "on" -> NodeId(cfg)
                      [] OTHER -> onAir
        /\ UNCHANGED <<wizard, copy, requests, wizards>>

\* restart_service, a stop or a crash.
Stop ==
    /\ svc = "up"
    /\ svc' = "down"
    /\ mem' = Default
    /\ rt' = Off
    /\ UNCHANGED <<file, wizard, copy, counters, history>>

-----------------------------------------------------------------------------
\* Meshpoints as they are found: a new one, one the wizard has set up, and
\* ones with settings written by hand.
Provisioned == [EmptyFile EXCEPT !.region = "US", !.sources = "concentrator",
                   !.upstream = "on", !.token = "valid", !.device_id = "d0",
                   !.node_id = "id of d0", !.long_name = "Meshpoint host"]
InitialFiles ==
    {EmptyFile,
     [Provisioned EXCEPT !.tx_enabled = "on", !.publish = "legacy"],
     [Provisioned EXCEPT !.tx_enabled = "on", !.slot = "s20",
                         !.node_id = "reserved", !.keys = "one"]}

Init ==
    /\ file \in InitialFiles
    /\ svc = "down"
    /\ mem = Default
    /\ rt = Off
    /\ wizard = "closed" /\ copy = EmptyFile
    /\ requests = 0 /\ wizards = 0 /\ boots = 0
    /\ saved = file
    /\ astray = {} /\ apart = {}
    /\ restartDue = FALSE
    /\ onAir = "none"

Routes ==
    \/ UpdateTransmit \/ UpdateIdentity \/ UpdateNodeinfo
    \/ UpdateMqtt \/ UpdateTak
    \/ \E r \in RadioRequests, o \in Outcomes : PutRadio(r, o)
    \/ \E p \in {"Club"}, k \in {"two", "bad"},
          o \in Outcomes \cup {"second"} : PutChannels(p, k, o)

Wizard ==
    \/ WizardOpens
    \/ WizardAborts
    \/ \E region \in Regions, connect \in {<<1, "">>, <<2, "password">>,
          <<2, "key">>}, o \in {"saved", "lost"} :
          WizardWrites(Answers(region, connect[1], connect[2]), o)

Next == \/ Routes
        \/ Wizard
        \/ BootFails
        \/ \E o \in Outcomes : Boot(o)
        \/ Stop

Spec == Init /\ [][Next]_vars

-----------------------------------------------------------------------------
\* The types of the variables.
ConfigTypeOK ==
    /\ DOMAIN file = Fields /\ DOMAIN mem = Fields /\ DOMAIN copy = Fields
    /\ DOMAIN saved = Fields
    /\ svc \in {"down", "up", "failed"}
    /\ wizard \in {"closed", "open"}
    /\ requests \in 0..MaxRequests
    /\ wizards \in 0..MaxWizards
    /\ boots \in 0..MaxBoots
    /\ astray \subseteq Fields /\ apart \subseteq Fields
    /\ restartDue \in BOOLEAN
    /\ rt.crypto \subseteq {"club", "family"}
    /\ DOMAIN rt = DOMAIN Off

\* A setting that was stored stays in local.yaml, whatever the other routes,
\* TxService and the wizard store later, unless a write was cut short or the
\* wizard had read the file before (save_section_to_yaml, _deep_merge).
SavedStays == \A f \in Fields \ astray : file[f] = saved[f]

\* The settings the dashboard shows from memory are those a restart loads,
\* but for the radio's, which wait for the restart, and for the fields of
\* requests that failed half-way (update_mqtt and the other routes).
MemoryIsSaved ==
    svc = "up" =>
        \A f \in Fields \ (apart \cup {"region", "preset", "frequency"}) :
            mem[f] = Load(file)[f]

\* While no answer has asked for a restart, a restart would change nothing
\* of the radio, the node id, the decoders' keys and the broadcaster; the
\* radio is excepted whenever the stored frequency is the default of its
\* region, which is where a request naming only the current region puts it
\* (restart_required of the routes, the hot reload of keys and interval).
\* The duty-cycle limit and the MQTT publisher are not compared.
RunningIsSaved ==
    (svc = "up" /\ ~restartDue) =>
        LET next == Started(Load(file))
            plan == rt.plan = next.plan /\ rt.tx_hz = next.tx_hz
        IN  /\ rt.tx = next.tx
            /\ rt.node_id = next.node_id
            /\ rt.crypto = next.crypto
            /\ rt.broadcaster = "on" => rt.interval = next.interval
            /\ plan \/ file.frequency = RegionFrequency[Load(file).region]

\* The node id other nodes know survives every restart, unless the user has
\* set another one or the file was lost (_resolve_node_id,
\* _persist_derived_node_id_if_needed, _step_device_id).
IdentityStable ==
    [][(svc # "up" /\ svc' = "up" /\ rt'.node_id # "none"
        /\ onAir \notin {"none", "random"}) => rt'.node_id = onAir]_vars

\* Every enabled channel of a running concentrator lies within the 1.6 MHz
\* its radio chain receives (_configure_if_channels).
ReachesEveryChannel ==
    rt.plan # NoPlan =>
        \A d \in Offsets(rt.plan) : -737500 <= d /\ d <= 737500

\* docs/CONFIGURATION.md:42 of a frequency outside the band: the service
\* "will reject it at startup".  A running transmitter is then in its band.
TransmitsInBand ==
    (svc = "up" /\ rt.broadcaster = "on") => InBand(mem.region, rt.tx_hz)
=============================================================================
