----------------------------- MODULE MqttPublisher -----------------------------
(***************************************************************************)
(* The MQTT publisher of src/relay/mqtt_publisher.py with its channel      *)
(* resolver and formatters.  The network thread of the client library      *)
(* calls back on every connection and disconnection; the pipeline offers   *)
(* each packet once, in one call without an await.  A topic is kept as the *)
(* name of its channel, a payload as its keys.                             *)
(*                                                                         *)
(* A packet does not name its channel: it carries one byte, the XOR of the *)
(* name and the key.  The publisher turns it back into a name, and two     *)
(* channels may have the same byte.                                        *)
(***************************************************************************)
EXTENDS Decoding, FiniteSetsExt

CONSTANTS
    Hashings,   \* the functions that _xor_hash may be on the channels
    AllowLists, \* the publish_channels lists to start with; {} means "all"
    Modes       \* of auth and broker: "api_key", "public", "local"

VARIABLES
    conn,       \* "off" without a client, "down", "up"
    hash,       \* what _xor_hash makes of the name and the key of a channel
    known,      \* the channels registered with the resolver, in that order
    allow,      \* the channels of publish_channels
    mode,
    named,      \* _identity_cache: node -> its names that were published
    sent        \* the messages of the packet published last

mqttVars == <<conn, hash, known, allow, mode, named, sent>>

ASSUME MqttAssumption == Hashings \subseteq [Channels -> 0..255]

IdentityKeys == {"long_name", "short_name"}

-----------------------------------------------------------------------------
(* The resolver.  _hash_to_name has one name for a hash: the presets are   *)
(* entered first (the default channel stands for the eight, whose hashes   *)
(* differ), then each channel there is a key for, in the place of what had *)
(* its hash before.                                                        *)
Entered == <<DefaultChannel>> \o known
WithHash(h) == {i \in DOMAIN Entered : hash[Entered[i]] = h}

\* Mutant: what is entered first keeps its hash.
NameOfFirst(h) == CASE h = 0 -> "LongFast"
                    [] h # 0 /\ WithHash(h) # {} -> Entered[Min(WithHash(h))]
                    [] OTHER -> "ch??"
NameOf(h) == CASE h = 0 -> "LongFast"
               [] h # 0 /\ WithHash(h) # {} -> Entered[Max(WithHash(h))]
               [] OTHER -> "ch??"

Resolve(p) == IF p.proto = "meshcore" THEN "MeshCore"
              ELSE NameOf(hash[p.channel])

-----------------------------------------------------------------------------
(* The gates.  A hash nobody knows is resolved to "ch" and its number; so  *)
(* a name that starts with "ch" is taken for one that was not resolved.    *)
AllowAll == allow = {}
Allowed == allow \cup {DefaultChannel}
StartsWithCh(name) == name \in {"ch??", "chess"}

PassesGatesMeshtastic(p) ==
    /\ p.type # "ENCRYPTED"
    /\ p.decrypted \/ ~p.cipher
    /\ AllowAll \/ Resolve(p) \in Allowed \/ p.proto = "meshtastic"

PassesGates(p) ==
    /\ p.type # "ENCRYPTED"
    /\ p.decrypted \/ ~p.cipher
    /\ \/ AllowAll
       \/ Resolve(p) \in Allowed
       \/ p.proto = "meshtastic" /\ StartsWithCh(Resolve(p))

-----------------------------------------------------------------------------
(* The messages of one packet.                                             *)

\* _enrich_packet: names once published are added to what the node sends.
Identity(p) == p.keys \cap IdentityKeys
Enriched(p) == [p EXCEPT !.keys = @ \cup named[p.src] \cup Identity(p)]

\* _encode_portnum_payload: the types that can be turned back into protobuf.
Encodable(p) ==
    p.type \in {"TEXT", "POSITION", "NODEINFO", "TELEMETRY", "ROUTING"}
    /\ p.keys # {}

Forms(p) == IF p.proto = "meshcore" THEN {"meshcore"}
            ELSE {f \in {"protobuf", "json"} :
                    \/ f = "protobuf" /\ mode # "api_key" /\ Encodable(p)
                    \/ f = "json" /\ mode # "public"}

Messages(p) == [form : Forms(p), packet : {p}, topic : {Resolve(p)}]

-----------------------------------------------------------------------------
Nobody == [n \in Nodes |-> {}]

\* _setup_mqtt: the publisher is built from the configuration of the start.
\* Without a broker to connect to it is thrown away until the next start.
Starts(channels) ==
    /\ conn' \in {"off", "down"}
    /\ known' = channels
    /\ named' = Nobody
    /\ sent' = {}

MqttInit == /\ conn = "down"
            /\ hash \in Hashings
            /\ known = Configured
            /\ allow \in AllowLists
            /\ mode \in Modes
            /\ named = Nobody
            /\ sent = {}

\* _on_connect with rc 0.
OnConnect == /\ conn = "down"
             /\ conn' = "up"
             /\ UNCHANGED <<hash, known, allow, mode, named, sent>>

\* _on_disconnect; the library reconnects by itself.
OnDisconnect == /\ conn = "up"
                /\ conn' = "down"
                /\ UNCHANGED <<hash, known, allow, mode, named, sent>>

\* What the client does not accept at once it keeps and sends later.
Publish(p) ==
    /\ UNCHANGED <<conn, hash, known, allow, mode>>
    /\ IF conn = "up" /\ PassesGates(p)
       THEN /\ named' = [named EXCEPT ![p.src] = @ \cup Identity(p)]
            /\ sent' = Messages(Enriched(p))
       ELSE sent' = {} /\ UNCHANGED named

MqttTypeOK ==
    /\ conn \in {"off", "down", "up"}
    /\ hash \in Hashings /\ known \in Seq(Channels)
    /\ allow \in AllowLists /\ mode \in Modes
    /\ named \in [Nodes -> SUBSET IdentityKeys]
    /\ \A m \in sent : m.form \in {"protobuf", "json", "meshcore"}

-----------------------------------------------------------------------------
(* The publisher by itself, offered any packet at any time: what the       *)
(* decoders have a key for may not be registered until the next start.     *)
Restart == /\ \E keys \in KeyRings : Starts(keys) /\ Len(keys) >= Len(known)
           /\ UNCHANGED <<hash, allow, mode>>

Offered(f, keys) == /\ Wrapped(Frame[f]) /\ Len(keys) >= Len(known)
                    /\ Decode(Frame[f], keys) # NoPacket
                    /\ Publish(Decode(Frame[f], keys))

MqttNext == \/ OnConnect \/ OnDisconnect \/ Restart
            \/ \E f \in DOMAIN Frame, keys \in KeyRings : Offered(f, keys)

MqttSpec == MqttInit /\ [][MqttNext]_mqttVars

\* What was understood of a channel other than the default one.
PrivateText(m) == /\ m.packet.proto = "meshtastic"
                  /\ ~m.packet.noise
                  /\ m.packet.channel # DefaultChannel

\* c is taken for a channel of the list: its hash is 0, or one on the list has
\* the same hash and was registered after it.
TakenForAllowed(c) ==
    \/ hash[c] = 0
    \/ \E i \in DOMAIN Entered :
          /\ Entered[i] \in Allowed /\ hash[Entered[i]] = hash[c]
          /\ \A j \in DOMAIN Entered : Entered[j] = c => j < i

\* With a list of channels to publish, the text of a channel that is not on
\* it is published only when the publisher takes it for one that is, its hash
\* being 0 or overwritten, or when its name cannot be told from an unknown
\* hash; with or without a list, nothing still enciphered ever is.
PublishedAsAllowed ==
    \A m \in sent :
        /\ ~m.packet.cipher
        /\ ~AllowAll /\ PrivateText(m) =>
              \/ m.packet.channel \in allow
              \/ TakenForAllowed(m.packet.channel)
              \/ StartsWithCh(m.topic)

\* mqtt_publisher.py:4 says that with a list only packets from the channels
\* on it are published, and :252 that a name of the form "chNN" is excepted.
ListedChannelsOnly ==
    \A m \in sent : ~AllowAll /\ PrivateText(m) =>
        m.packet.channel \in allow \/ StartsWithCh(m.topic)
=============================================================================
