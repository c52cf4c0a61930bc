----------------------------- MODULE MCMqttPublisher -----------------------------
(* The instance of MqttPublisher that is model-checked: every way in which *)
(* the channels may share the hash of the default one and another.        *)
EXTENDS MqttPublisher

MCHashings == {h \in [Channels -> {8, 17}] : h[DefaultChannel] = 8}
=============================================================================
