---- MODULE MCMqttListen ----
\* Instances of MqttListen for TLC.
EXTENDS MqttListen

\* A command, a sensor value, a message at the size of a buffer, one that is
\* too long and one on a topic nobody listens to.
MCLen == [m \in Msgs |-> CASE m = "val" -> 1 [] m = "full" -> Ring - 1
                           [] m = "long" -> Ring [] OTHER -> 2]
MCTopic == [m \in Msgs |-> CASE m = "val" -> "sensor" [] m = "other" -> NoMsg
                             [] OTHER -> "command"]
====
