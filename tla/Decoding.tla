-------------------------------- MODULE Decoding --------------------------------
(***************************************************************************)
(* From what a source captures to the packet the pipeline works on:        *)
(* src/decode.  A frame is kept as what the decoders can tell apart: who   *)
(* captured it, whether it has more than a header, the channel whose key   *)
(* enciphers it and what is inside.  The ciphers are taken for perfect     *)
(* with one exception, which the decoders are exposed to: a key that is    *)
(* not the right one gives noise, and noise may happen to parse.           *)
(***************************************************************************)
EXTENDS Integers, Sequences, FiniteSets

Nodes == {"n1", "n2", "m1"}

\* The channels: the default one, two that are configured when the service
\* starts, one added to a running service, and one it has no key for.
DefaultChannel == "LongFast"
Configured == <<"Club", "chess">>
KeyRings == {Configured, Append(Configured, "Late")}
Channels == {DefaultChannel, "Club", "chess", "Late", "Other"}

Air(source, channel, body, src) ==
    [source |-> source, size |-> "full", channel |-> channel, body |-> body,
     src |-> src, noise |-> "silent"]
Event(body, src) == Air("meshcore_usb", "MeshCore", body, src)

\* The frames the runs choose from.
Frame == [
    text      |-> Air("concentrator", "LongFast", "text", "n1"),
    position  |-> Air("concentrator", "LongFast", "position", "n1"),
    waypoint  |-> Air("concentrator", "LongFast", "waypoint", "n1"),
    telemetry |-> Air("concentrator", "LongFast", "telemetry", "n1"),
    no_metric |-> Air("concentrator", "Club", "no_metric", "n2"),
    nodeinfo  |-> Air("concentrator", "Club", "nodeinfo", "n2"),
    chess     |-> Air("concentrator", "chess", "text", "n2"),
    late      |-> Air("concentrator", "Late", "text", "n2"),
    other     |-> Air("concentrator", "Other", "text", "n2"),
    parses    |-> [Air("concentrator", "Other", "text", "n2")
                      EXCEPT !.noise = "portnum"],
    meshcore  |-> [Air("serial", "Other", "text", "n2")
                      EXCEPT !.noise = "msg_type"],
    malformed |-> Air("serial", "LongFast", "malformed", "n2"),
    header    |-> [Air("serial", "LongFast", "text", "n1")
                      EXCEPT !.size = "header"],
    short     |-> [Air("concentrator", "LongFast", "text", "n1")
                      EXCEPT !.size = "short"],
    contact   |-> Event("contact_message", "m1"),
    channel   |-> Event("channel_message", "m1"),
    advert    |-> Event("advertisement", "m1"),
    raw       |-> Event("raw_data", "m1"),
    log       |-> Event("rx_log_data", "m1"),
    strange   |-> Event("battery", "m1")]

-----------------------------------------------------------------------------
(* The payload handlers.  Meaning(type, keys) is a payload that was        *)
(* understood: its packet type and the keys of its dictionary; the empty   *)
(* dictionary of a telemetry message without metrics is understood too.    *)
Meaning(type, keys) == [ok |-> TRUE, type |-> type, keys |-> keys]
Nothing(type) == [ok |-> FALSE, type |-> type, keys |-> {}]

TextOf(body) == Meaning("TEXT", {"text"})
PositionOf(body) == IF body = "malformed" THEN Nothing("POSITION")
                    ELSE Meaning("POSITION", {"latitude", "longitude"})
NodeinfoOf(body) == Meaning("NODEINFO", {"long_name", "short_name"})
TelemetryOf(body) ==
    Meaning("TELEMETRY", IF body = "no_metric" THEN {}
                         ELSE {"battery_level", "temperature"})
OtherPortOf(body) == Meaning("WAYPOINT", {"name", "latitude", "longitude"})
UnmappedPort == Meaning("UNKNOWN", {"portnum", "raw_hex"})

\* dispatch_portnum
Dispatch(body) == CASE body = "text" -> TextOf(body)
                    [] body \in {"position", "malformed"} -> PositionOf(body)
                    [] body = "nodeinfo" -> NodeinfoOf(body)
                    [] body \in {"telemetry", "no_metric"} -> TelemetryOf(body)
                    [] body = "waypoint" -> OtherPortOf(body)
                    [] OTHER -> UnmappedPort

\* The deciphered bytes of a frame under the key of a channel, understood.
Opened(f, channel) ==
    IF f.size = "header" THEN Nothing("UNKNOWN")
    ELSE IF channel = f.channel THEN Dispatch(f.body)
    ELSE IF f.noise = "portnum" THEN UnmappedPort
    ELSE Nothing("UNKNOWN")

\* get_all_keys: the default key is the first, and the first to fit wins.
AllKeys(keys) == <<DefaultChannel>> \o keys
Fitting(f, keys) == SelectSeq(AllKeys(keys), LAMBDA c : Opened(f, c).ok)

Packet(f, proto, meaning, cipher, noise) ==
    [proto |-> proto, type |-> meaning.type, keys |-> meaning.keys,
     decrypted |-> meaning.ok, cipher |-> cipher, noise |-> noise,
     channel |-> f.channel, src |-> f.src, early |-> FALSE]
NoPacket == [proto |-> "none", type |-> "UNKNOWN", keys |-> {},
             decrypted |-> FALSE, cipher |-> FALSE, noise |-> FALSE,
             channel |-> "none", src |-> "n1", early |-> FALSE]

\* MeshtasticDecoder.decode: what no key opens is kept as it came, with its
\* size and channel hash for a payload, unless there is nothing to keep.
MeshtasticDecode(f, keys) ==
    LET fits == Fitting(f, keys)
        mark == [ok |-> FALSE, type |-> "ENCRYPTED",
                 keys |-> {"encrypted", "payload_size", "channel_hash"}]
    IN  CASE f.size = "short" -> NoPacket
          [] f.size # "short" /\ fits # <<>> ->
                Packet(f, "meshtastic", Opened(f, Head(fits)), FALSE,
                       Head(fits) # f.channel)
          [] f.size = "header" /\ fits = <<>> ->
                Packet(f, "meshtastic", Nothing("UNKNOWN"), FALSE, FALSE)
          [] OTHER -> Packet(f, "meshtastic", mark, TRUE, FALSE)

\* MeshcoreDecoder.decode of a frame that is not one of MeshCore: noise under
\* the default key, understood when its first byte is a message type.
MeshcoreDecode(f) ==
    LET heard == f.noise = "msg_type"
    IN  IF f.size = "short" THEN NoPacket
        ELSE Packet(f, "meshcore",
                    IF heard THEN TextOf(f.body) ELSE Nothing("UNKNOWN"),
                    ~heard, TRUE)

\* PacketRouter.decode: the concentrator names the protocol, the serial
\* source leaves it to the first decoder that can decipher the frame.
Route(f, keys) ==
    LET mesh == MeshtasticDecode(f, keys)
        core == MeshcoreDecode(f)
    IN  IF f.source = "concentrator" \/ mesh.decrypted THEN mesh
        ELSE IF core.decrypted \/ mesh = NoPacket THEN core
        ELSE mesh

\* The builders of adapt_event.  An advertisement and a raw frame are not marked
\* decrypted.
Built(f) == CASE f.body = "contact_message" ->
                    Meaning("TEXT", {"text", "long_name"})
              [] f.body = "channel_message" ->
                    Meaning("TEXT", {"text", "channel", "long_name"})
              [] f.body = "advertisement" ->
                    [Nothing("NODEINFO") EXCEPT !.keys =
                       {"long_name", "short_name", "public_key"}]
              [] f.body = "raw_data" ->
                    [Nothing("UNKNOWN") EXCEPT !.keys = {"raw_hex"}]
              [] f.body = "rx_log_data" ->
                    [Nothing("UNKNOWN") EXCEPT !.keys =
                       {"raw_hex", "payload_length"}]
              [] OTHER -> Nothing("none")

\* adapt_event.  The time is the sender's: a device whose clock was never set
\* puts its messages before everything else.
AdaptEvent(f) ==
    IF Built(f).type = "none" THEN NoPacket
    ELSE [Packet(f, "meshcore", Built(f), FALSE, FALSE)
            EXCEPT !.early = f.body = "contact_message"]

\* The source keeps the radio log to itself: it is no capture.
Wrapped(f) == ~(f.source = "meshcore_usb" /\ f.body = "rx_log_data")

Decode(f, keys) == IF f.source = "meshcore_usb" THEN AdaptEvent(f)
                   ELSE Route(f, keys)

-----------------------------------------------------------------------------
(* What the pipeline extracts from a packet for the tables.                *)
NodeUpdate(p) ==
    IF p.keys = {} THEN "none"
    ELSE IF p.type = "POSITION" /\ "latitude" \in p.keys THEN "located"
    ELSE "heard"
HasTelemetry(p) == p.type = "TELEMETRY" /\ p.keys # {}
=============================================================================
