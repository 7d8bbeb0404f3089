---- MODULE MqttProofs ----
(***************************************************************************)
(* What is proved about the MQTT client, for any number of topics,         *)
(* components, networks and failures.                                      *)
(***************************************************************************)
EXTENDS Mqtt, TLAPS

\* The client has marked its first c.sub topics.
Marked(c, t) == c \in Config /\ c.sub <= count /\ t = 1..c.sub

\* On a connection that has been configured anew, what the client has marked the
\* broker has.
Believed == conn = "up" /\ ~cfg.fresh => topics \subseteq broker

MqttInv ==
    /\ MqttTypeOK
    /\ count >= 1
    /\ Marked(cfg, topics)
    /\ broker \subseteq 1..count
    /\ Believed
    /\ UpIsKnown

\* The parts of the types that are not about the connection.
SameConfig == UNCHANGED <<cfg, topics, count, cmps>>

----
\* The invariant holds at first.
LEMMA MqttInvInit == MqttInit => MqttInv
<1> SUFFICES ASSUME MqttInit PROVE MqttInv
  OBVIOUS
<1>1. cfg \in Config
  BY MqttAssumption DEF MqttInit, Config
<1>2. WifiTypeOK
  <2>1. net \in 0..NNets /\ faults \in 0..MaxFaults
    BY WifiAssumption DEF MqttInit, WifiInit
  <2> QED
    BY <2>1, Zenon DEF MqttInit, WifiInit, WifiTypeOK
<1>3. MqttTypeOK
  <2>1. /\ errs \in 0..(ErrWrap - 1) /\ topics \subseteq 1..MaxTopics
        /\ count \in 0..MaxTopics /\ cmps \in 0..MaxComps /\ broker \subseteq 1..MaxTopics
    BY MqttAssumption DEF MqttInit
  <2> QED
    BY <1>1, <1>2, <2>1, Zenon DEF MqttInit, MqttTypeOK
<1> QED
  BY <1>1, <1>3, MqttAssumption DEF MqttInit, MqttInv, Marked, Believed, UpIsKnown

\* The steps of the driver and of sys_wifi_connect() keep the types of WiFi.
LEMMA WifiTypes ==
    ASSUME WifiTypeOK, WifiRun \/ LinkUp \/ LinkDown
    PROVE  WifiTypeOK'
<1>1. link' \in BOOLEAN /\ connecting' \in BOOLEAN
  BY Zenon
  DEF WifiTypeOK, WifiRun, WifiConnected, WifiTryNext, WifiTimeout, WifiWait, wifiVars,
      LinkUp, LinkDown
<1>2. reconnect' \in BOOLEAN
  BY Zenon
  DEF WifiTypeOK, WifiRun, WifiConnected, WifiTryNext, WifiTimeout, WifiWait, wifiVars,
      LinkUp, LinkDown
<1>3. net' \in 0..NNets /\ faults' \in 0..MaxFaults
  BY WifiAssumption
  DEF WifiTypeOK, WifiRun, WifiConnected, WifiTryNext, WifiTimeout, WifiWait, wifiVars,
      LinkUp, LinkDown, Fault
<1> QED
  BY <1>1, <1>2, <1>3 DEF WifiTypeOK

\* A failure is counted up to the bound.
LEMMA FaultType ==
    ASSUME WifiTypeOK, Fault \/ UNCHANGED faults, UNCHANGED <<link, net, connecting>>,
           reconnect' \in BOOLEAN
    PROVE  WifiTypeOK'
BY WifiAssumption DEF WifiTypeOK, Fault

\* Steps that leave the configuration alone: the connection does not come up
\* and the broker gets nothing new.
LEMMA ConnectionKeeps ==
    ASSUME MqttInv, WifiTypeOK', SameConfig,
           mqState' \in {"init", "disconnected", "connecting", "connected"},
           ip' \in {"not_resolved", "resolving", "resolved"},
           addr' \in {"none", "server", "junk"},
           mqDns' \in BOOLEAN,
           conn' \in {"down", "trying", "astray", "up"},
           errs' \in 0..(ErrWrap - 1),
           turn' \in {"reconnect", "wifi", "mqtt", "others"},
           \/ conn' # "up" /\ broker' \in {{}, broker}
           \/ conn' = conn /\ mqState' = mqState /\ broker' = broker
    PROVE  MqttInv'
<1>1. MqttTypeOK'
  BY DEF MqttInv, MqttTypeOK, SameConfig, Config
<1>2. count' >= 1 /\ Marked(cfg, topics)' /\ (broker \subseteq 1..count)'
  BY DEF MqttInv, Marked, SameConfig, Config
<1>3. Believed' /\ UpIsKnown'
  BY DEF MqttInv, Believed, UpIsKnown, SameConfig
<1> QED
  BY <1>1, <1>2, <1>3 DEF MqttInv

\* mqtt_hook() with an accepted connection: everything is to be configured anew.
LEMMA AcceptedKeeps == MqttInv /\ Accepted => MqttInv'
<1> SUFFICES ASSUME MqttInv, Accepted PROVE MqttInv'
  OBVIOUS
<1>1. cfg' \in Config /\ cfg'.fresh = TRUE /\ cfg'.sub = cfg.sub
  BY DEF Accepted, MqttInv, MqttTypeOK, Config
<1>2. UNCHANGED <<link, net, connecting, reconnect, faults, ip, addr, mqDns, topics, count, cmps, turn>>
  BY DEF Accepted, wifiVars
<1>3. conn' = "up" /\ mqState' = "connected" /\ errs' = 0 /\ broker' = {}
  BY DEF Accepted
<1>4. errs' \in 0..(ErrWrap - 1)
  BY <1>3, MqttAssumption
<1>5. WifiTypeOK'
  BY <1>2 DEF MqttInv, MqttTypeOK, WifiTypeOK
<1>6. MqttTypeOK'
  BY <1>1, <1>2, <1>3, <1>4, <1>5 DEF MqttInv, MqttTypeOK
<1> QED
  BY <1>1, <1>2, <1>3, <1>6 DEF MqttInv, Marked, Believed, UpIsKnown

----
\* The connection.

\* sys_mqtt_reconnect(), also when the server accepts in the middle of it.
LEMMA ReconnectKeeps ==
    ASSUME MqttInv, Reconnect
    PROVE  /\ SameConfig /\ UNCHANGED <<addr, mqDns>>
           /\ mqState' \in {"init", "disconnected", "connecting", "connected"}
           /\ ip' \in {"not_resolved", "resolving", "resolved"}
           /\ conn' \in {"down", "trying", "astray", "up"}
           /\ errs' \in 0..(ErrWrap - 1)
           /\ conn' # "up" /\ broker' \in {{}, broker}
<1>1. errs' \in 0..(ErrWrap - 1)
  BY MqttAssumption DEF Reconnect
<1>2. mqState = "init" => conn # "up"
  BY DEF MqttInv, UpIsKnown
<1> QED
  BY <1>1, <1>2, Zenon DEF Reconnect, SameConfig, MqttInv, MqttTypeOK

\* mqtt_client_connect() does not bring the connection up at once.
LEMMA StartKeeps ==
    ASSUME MqttInv, NEW a \in {"none", "server", "junk"}, StartConnect(a), conn # "up"
    PROVE  /\ mqState' \in {"init", "disconnected", "connecting", "connected"}
           /\ conn' \in {"down", "trying", "astray"}
           /\ Fault \/ UNCHANGED faults
           /\ broker' = {}
BY DEF StartConnect, MqttInv, MqttTypeOK

\* The query for the name of the server, and what follows its answer, keep the invariant.
LEMMA ResolveKeeps ==
    ASSUME MqttInv, conn # "up", turn' = "others",
           NEW s \in {"init", "disconnected", "connecting", "connected"}, Resolve(s),
           UNCHANGED <<link, net, connecting, reconnect>>
    PROVE  MqttInv'
<1>1. Fault \/ UNCHANGED faults
  BY StartKeeps DEF Resolve
<1>2. WifiTypeOK'
  BY <1>1, FaultType, Zenon DEF MqttInv, MqttTypeOK, WifiTypeOK
<1>3. /\ mqState' \in {"init", "disconnected", "connecting", "connected"}
      /\ conn' \in {"down", "trying", "astray"}
      /\ broker' \in {{}, broker}
  BY StartKeeps DEF Resolve
<1>4. /\ ip' \in {"not_resolved", "resolving", "resolved"}
      /\ addr' \in {"none", "server", "junk"}
  BY DEF Resolve, MqttInv, MqttTypeOK
<1>5. mqDns' \in BOOLEAN
  BY Zenon DEF Resolve, MqttInv, MqttTypeOK
<1>6. errs' \in 0..(ErrWrap - 1) /\ SameConfig
  BY DEF Resolve, SameConfig, MqttInv, MqttTypeOK
<1> QED
  BY <1>2, <1>3, <1>4, <1>5, <1>6, ConnectionKeeps

\* A visit of mqtt_connect().
LEMMA ConnectKeeps == MqttInv /\ (Connect \/ Timeout) => MqttInv'
<1> SUFFICES ASSUME MqttInv, Connect \/ Timeout PROVE MqttInv'
  OBVIOUS
<1>0. turn' = "others" /\ UNCHANGED <<link, net, connecting, reconnect>>
  BY DEF Connect, Timeout, MqttVisit
<1>t. /\ mqState \in {"init", "disconnected", "connecting", "connected"}
      /\ ip \in {"not_resolved", "resolving", "resolved"}
      /\ addr \in {"none", "server", "junk"}
      /\ mqDns \in BOOLEAN
      /\ conn \in {"down", "trying", "astray", "up"}
      /\ errs \in 0..(ErrWrap - 1)
      /\ WifiTypeOK /\ reconnect \in BOOLEAN
  BY DEF MqttInv, MqttTypeOK, WifiTypeOK
<1>w. UNCHANGED faults => WifiTypeOK'
  BY <1>0, <1>t, FaultType
<1>1. CASE (ConnectNoWifi /\ conn = "up") \/ ConnectErrors
  <2>1. Reconnect /\ UNCHANGED faults
    BY <1>1 DEF ConnectNoWifi, ConnectErrors
  <2> QED
    BY <1>0, <1>t, <1>w, <2>1, ReconnectKeeps, ConnectionKeeps
<1>2. CASE (ConnectNoWifi /\ conn # "up") \/ ConnectWait
  <2>1. UNCHANGED <<clientVars, faults>>
    BY <1>2 DEF ConnectNoWifi, ConnectWait
  <2>2. SameConfig /\ UNCHANGED <<mqState, ip, addr, mqDns, conn, errs, broker>>
    BY <2>1 DEF clientVars, SameConfig
  <2> QED
    BY <1>0, <1>t, <1>w, <2>1, <2>2, ConnectionKeeps
<1>3. CASE ConnectResolve
  BY <1>0, <1>3, <1>t, ResolveKeeps DEF ConnectResolve
<1>4. CASE ConnectTimeout
  BY <1>0, <1>4, <1>t, ResolveKeeps DEF ConnectTimeout
<1>5. CASE ResolveTimeout
  <2>1. SameConfig /\ UNCHANGED <<faults, mqState, addr, mqDns, conn, errs, broker>>
    BY <1>5 DEF ResolveTimeout, SameConfig
  <2>2. ip' = "not_resolved"
    BY <1>5 DEF ResolveTimeout
  <2> QED
    BY <1>0, <1>t, <1>w, <2>1, <2>2, ConnectionKeeps
<1>6. CASE ConnectStart
  <2>1. /\ mqState' \in {"init", "disconnected", "connecting", "connected"}
        /\ conn' \in {"down", "trying", "astray"}
        /\ Fault \/ UNCHANGED faults
        /\ broker' = {}
    BY <1>6, <1>t, StartKeeps DEF ConnectStart
  <2>2. SameConfig /\ UNCHANGED <<ip, addr, mqDns, errs>>
    BY <1>6 DEF ConnectStart, SameConfig
  <2>3. WifiTypeOK'
    BY <1>0, <1>t, <2>1, FaultType
  <2> QED
    BY <1>0, <1>t, <2>1, <2>2, <2>3, ConnectionKeeps
<1> QED
  BY <1>1, <1>2, <1>3, <1>4, <1>5, <1>6 DEF Connect, Timeout

----
\* The configuration.

\* What mqtt_config_send() begins with: the marks are as they are, or none is left.
LEMMA DueMarked ==
    ASSUME MqttInv, NEW hour \in BOOLEAN
    PROVE  LET d == Due(hour) IN
           /\ Marked(d.cfg, d.topics)
           /\ d.cfg.fresh = cfg.fresh
           /\ d.topics = {} \/ (~cfg.fresh /\ d.topics = topics)
<1>1. cfg \in Config /\ count \in Nat /\ count >= 1 /\ Marked(cfg, topics)
  BY DEF MqttInv, MqttTypeOK
<1>2. CASE Due(hour) = [cfg |-> cfg, topics |-> topics] /\ ~cfg.fresh
  BY <1>1, <1>2
<1>3. CASE Due(hour) = Refreshed(cfg)
  <2> DEFINE c == [cfg EXCEPT !.dev = TRUE, !.comp = @ \/ cmps > 0,
                              !.idx = IF cmps > 0 THEN 0 ELSE @,
                              !.status = TRUE, !.sub = IF count > 0 THEN 0 ELSE @]
  <2>1. Due(hour).cfg = c /\ Due(hour).topics = {}
    BY <1>1, <1>3 DEF Refreshed
  <2>2. (cfg.comp \/ cmps > 0) \in BOOLEAN
    OBVIOUS
  <2>3. (IF cmps > 0 THEN 0 ELSE cfg.idx) \in 0..MaxComps
    BY <1>1, MqttAssumption DEF Config
  <2>4. (IF count > 0 THEN 0 ELSE cfg.sub) = 0 /\ 0 \in 0..MaxTopics
    BY <1>1, MqttAssumption
  <2>5. c \in Config /\ c.sub = 0 /\ c.fresh = cfg.fresh
    BY <1>1, <2>2, <2>3, <2>4 DEF Config
  <2> HIDE DEF c
  <2> QED
    BY <1>1, <2>1, <2>5 DEF Marked
<1> QED
  BY <1>2, <1>3 DEF Due

\* A visit that changes what the client believes: the marks stay in order, and those
\* left on a connection were made on it.
LEMMA BeliefKeeps ==
    ASSUME MqttInv, turn' = "others", UNCHANGED <<link, net, connecting, reconnect>>,
           Fault \/ UNCHANGED faults,
           UNCHANGED <<mqState, ip, addr, mqDns, conn, count, cmps>>,
           errs' \in 0..(ErrWrap - 1),
           Marked(cfg', topics'),
           broker' \subseteq 1..count,
           ~cfg'.fresh => topics' \subseteq broker'
    PROVE  MqttInv'
<1>1. WifiTypeOK'
  BY FaultType, Zenon DEF MqttInv, MqttTypeOK, WifiTypeOK
<1>2. cfg' \in Config /\ cfg'.sub <= count /\ topics' = 1..cfg'.sub
  BY DEF Marked
<1>n. MaxTopics \in Nat /\ count \in 0..MaxTopics /\ cfg'.sub \in 0..MaxTopics
  BY <1>2, MqttAssumption DEF MqttInv, MqttTypeOK, Config
<1>s. topics' \subseteq 1..MaxTopics /\ broker' \subseteq 1..MaxTopics
  BY <1>2, <1>n
<1>3. MqttTypeOK'
  BY <1>1, <1>2, <1>s DEF MqttInv, MqttTypeOK
<1> QED
  BY <1>3 DEF MqttInv, Marked, Believed, UpIsKnown

\* A message is sent, or not.
LEMMA SentKeeps ==
    ASSUME MqttInv, MqttVisit, NEW c, NEW t, Sent(c, t) \/ SendFailed(c, t),
           Marked(c, t), ~c.fresh => t \subseteq broker
    PROVE  MqttInv'
<1>1. errs' \in 0..(ErrWrap - 1)
  BY MqttAssumption DEF Sent, SendFailed, MqttInv, MqttTypeOK
<1>2. /\ cfg' = c /\ topics' = t
      /\ UNCHANGED <<mqState, ip, addr, mqDns, conn, count, cmps, broker>>
      /\ Fault \/ UNCHANGED faults
  BY DEF Sent, SendFailed
<1>3. broker' \subseteq 1..count
  BY <1>2 DEF MqttInv
<1> QED
  BY <1>1, <1>2, <1>3, BeliefKeeps DEF MqttVisit

\* A visit of mqtt_config_send().
LEMMA ConfigKeeps == MqttInv /\ ConfigSend => MqttInv'
<1> SUFFICES ASSUME MqttInv, ConfigSend PROVE MqttInv'
  OBVIOUS
<1>0. MqttVisit
  BY DEF ConfigSend
<1>t. /\ cfg \in Config /\ Marked(cfg, topics) /\ count \in 0..MaxTopics
      /\ cmps \in 0..MaxComps /\ broker \subseteq 1..count
      /\ errs \in 0..(ErrWrap - 1)
  BY DEF MqttInv, MqttTypeOK
<1>b. Sending /\ ~cfg.fresh => topics \subseteq broker
  BY DEF MqttInv, Believed, Sending
<1>1. ASSUME NEW hour \in BOOLEAN, SendStatus(hour) PROVE MqttInv'
  <2>c. PICK c : c = Due(hour).cfg
    OBVIOUS
  <2>s. PICK t : t = Due(hour).topics
    OBVIOUS
  <2>1. Marked(c, t) /\ c.fresh = cfg.fresh /\ (t = {} \/ (~cfg.fresh /\ t = topics))
    BY <2>c, <2>s, DueMarked
  <2>2. t \subseteq broker
    BY <1>1, <1>b, <2>1 DEF SendStatus
  <2>3. CASE SendFailed(c, t)
    BY <1>0, <2>1, <2>2, <2>3, SentKeeps
  <2>4. CASE Sent([c EXCEPT !.status = FALSE, !.fresh = FALSE], t)
    <3>1. Marked([c EXCEPT !.status = FALSE, !.fresh = FALSE], t)
      BY <2>1 DEF Marked, Config
    <3> QED
      BY <1>0, <2>2, <2>4, <3>1, SentKeeps
  <2> QED
    BY <1>1, <2>c, <2>s, <2>3, <2>4 DEF SendStatus
<1>2. CASE SendDevice
  <2>1. topics \subseteq broker
    BY <1>2, <1>b DEF SendDevice
  <2>2. Marked([cfg EXCEPT !.dev = FALSE], topics)
    BY <1>t DEF Marked, Config
  <2> QED
    BY <1>0, <1>2, <1>t, <2>1, <2>2, SentKeeps DEF SendDevice
<1>3. CASE SendComponent
  <2> DEFINE i == cfg.idx + 1
             c == [cfg EXCEPT !.idx = IF i >= cmps THEN 0 ELSE i,
                              !.comp = i < cmps, !.fresh = FALSE]
  <2>1. topics \subseteq broker
    BY <1>3, <1>b DEF SendComponent
  <2>2. (IF i >= cmps THEN 0 ELSE i) \in 0..MaxComps /\ (i < cmps) \in BOOLEAN
    BY <1>t, MqttAssumption DEF Config
  <2>3. Marked(c, topics)
    <3> HIDE DEF i
    <3> QED
      BY <1>t, <2>2 DEF Marked, Config
  <2>4. Sent(c, topics) \/ SendFailed(cfg, topics)
    BY <1>3 DEF SendComponent
  <2> HIDE DEF c
  <2> QED
    BY <1>0, <1>t, <2>1, <2>3, <2>4, SentKeeps
<1>4. CASE SendSubscribe
  <2>1. /\ UNCHANGED <<mqState, ip, addr, mqDns, conn, errs, count, cmps>>
        /\ topics \subseteq broker /\ cfg.sub < count
        /\ Fault \/ UNCHANGED faults
    BY <1>4, <1>b DEF SendSubscribe
  <2>2. CASE UNCHANGED <<topics, broker, cfg>>
    BY <1>0, <1>t, <2>1, <2>2, BeliefKeeps DEF MqttVisit
  <2>3. CASE /\ \E t \in (1..count) \ topics :
                   /\ \A u \in (1..count) \ topics : t <= u
                   /\ topics' = topics \cup {t}
                   /\ broker' = broker \cup {t}
             /\ cfg' = [cfg EXCEPT !.sub = @ + 1, !.fresh = FALSE]
    <3>1. PICK t \in (1..count) \ topics :
              /\ \A u \in (1..count) \ topics : t <= u
              /\ topics' = topics \cup {t}
              /\ broker' = broker \cup {t}
      BY <2>3
    <3>2. cfg.sub \in Nat /\ topics = 1..cfg.sub /\ count \in Nat
      BY <1>t DEF Marked, Config
    <3>3. t = cfg.sub + 1
      BY <2>1, <3>1, <3>2
    <3>4. topics' = 1..(cfg.sub + 1)
      BY <3>1, <3>2, <3>3
    <3>5. cfg.sub + 1 \in 0..MaxTopics /\ cfg.sub + 1 <= count
      <4>1. MaxTopics \in Nat /\ count <= MaxTopics
        BY <1>t, MqttAssumption
      <4> QED
        BY <2>1, <3>2, <4>1
    <3>6. cfg' \in Config /\ cfg'.sub = cfg.sub + 1
      BY <1>t, <2>3, <3>5 DEF Config
    <3>7. Marked(cfg', topics')
      BY <3>4, <3>5, <3>6 DEF Marked
    <3>8. topics' \subseteq broker' /\ broker' \subseteq 1..count
      BY <1>t, <2>1, <3>1
    <3> QED
      BY <1>0, <1>t, <2>1, <3>7, <3>8, BeliefKeeps DEF MqttVisit
  <2> QED
    BY <1>4, <2>2, <2>3 DEF SendSubscribe
<1>5. CASE SendNothing
  <2>1. /\ UNCHANGED <<mqState, ip, addr, mqDns, conn, errs, cfg, topics, count, cmps, broker>>
        /\ Fault \/ UNCHANGED faults
    BY <1>5 DEF SendNothing, clientVars
  <2>2. ~cfg.fresh => topics \subseteq broker
    BY <1>5, <1>b DEF SendNothing
  <2> QED
    BY <1>0, <1>t, <2>1, <2>2, BeliefKeeps DEF MqttVisit
<1> QED
  BY <1>1, <1>2, <1>3, <1>4, <1>5 DEF ConfigSend

----
\* The invariant is inductive.

\* The flag of the WiFi service: sys_mqtt_reconnect(), also when the server
\* accepts in the middle of it.
LEMMA VisitReconnectKeeps == MqttInv /\ VisitReconnect => MqttInv'
<1> SUFFICES ASSUME MqttInv, VisitReconnect PROVE MqttInv'
  OBVIOUS
<1>0. turn' = "wifi" /\ reconnect' = FALSE /\ UNCHANGED <<link, net, connecting, faults>>
  BY DEF VisitReconnect
<1>w. WifiTypeOK'
  BY <1>0, FaultType DEF MqttInv, MqttTypeOK
<1>t. /\ mqState \in {"init", "disconnected", "connecting", "connected"}
      /\ ip \in {"not_resolved", "resolving", "resolved"}
      /\ addr \in {"none", "server", "junk"}
      /\ mqDns \in BOOLEAN
      /\ conn \in {"down", "trying", "astray", "up"}
      /\ errs \in 0..(ErrWrap - 1)
  BY DEF MqttInv, MqttTypeOK
<1>1. CASE Reconnect
  BY <1>0, <1>w, <1>t, <1>1, ReconnectKeeps, ConnectionKeeps
<1>2. CASE Interrupted
  <2>1. cfg' \in Config /\ cfg'.sub = cfg.sub
    BY <1>2 DEF Interrupted, MqttInv, MqttTypeOK, Config
  <2>2. /\ mqState' = "connected" /\ ip' = "not_resolved" /\ conn' = "down" /\ errs' = 0
        /\ UNCHANGED <<addr, mqDns, topics, count, cmps, broker>>
    BY <1>2 DEF Interrupted
  <2>3. errs' \in 0..(ErrWrap - 1)
    BY <2>2, MqttAssumption
  <2>4. MqttTypeOK'
    BY <1>0, <1>w, <2>1, <2>2, <2>3 DEF MqttInv, MqttTypeOK
  <2> QED
    BY <2>1, <2>2, <2>4 DEF MqttInv, Marked, Believed, UpIsKnown
<1>3. CASE UNCHANGED clientVars
  <2>1. SameConfig /\ UNCHANGED <<mqState, ip, addr, mqDns, conn, errs, broker>>
    BY <1>3 DEF clientVars, SameConfig
  <2> QED
    BY <1>0, <1>w, <1>t, <2>1, ConnectionKeeps
<1> QED
  BY <1>1, <1>2, <1>3 DEF VisitReconnect

\* A component or a topic that is registered late.
LEMMA VisitOthersKeeps == MqttInv /\ VisitOthers => MqttInv'
<1> SUFFICES ASSUME MqttInv, VisitOthers PROVE MqttInv'
  OBVIOUS
<1>0. /\ turn' = "reconnect"
      /\ UNCHANGED <<link, net, connecting, reconnect, faults, mqState, ip, addr, mqDns, conn,
                     errs, topics, broker>>
  BY DEF VisitOthers, wifiVars
<1>w. WifiTypeOK'
  BY <1>0 DEF MqttInv, MqttTypeOK, WifiTypeOK
<1>1. /\ cfg' \in Config /\ cfg'.sub = cfg.sub
      /\ cfg' = cfg \/ cfg'.fresh = TRUE
  BY DEF VisitOthers, MqttInv, MqttTypeOK, Config
<1>2. /\ count' \in 0..MaxTopics /\ count' >= count /\ cmps' \in 0..MaxComps
      /\ count \in Nat
  BY MqttAssumption DEF VisitOthers, MqttInv, MqttTypeOK
<1>3. MqttTypeOK'
  BY <1>0, <1>1, <1>2, <1>w DEF MqttInv, MqttTypeOK
<1>4. cfg.sub \in Nat /\ cfg.sub <= count /\ topics = 1..cfg.sub /\ broker \subseteq 1..count
  BY DEF MqttInv, Marked, Config
<1>5. count' >= 1 /\ cfg'.sub <= count' /\ broker' \subseteq 1..count'
  BY <1>0, <1>1, <1>2, <1>4 DEF MqttInv
<1>6. Marked(cfg, topics)'
  BY <1>0, <1>1, <1>4, <1>5 DEF Marked
<1>7. Believed' /\ UpIsKnown'
  BY <1>0, <1>1 DEF MqttInv, Believed, UpIsKnown
<1> QED
  BY <1>3, <1>5, <1>6, <1>7 DEF MqttInv

\* Every step keeps the invariant of the client.
LEMMA MqttInvNext == MqttInv /\ [MqttNext]_mqttVars => MqttInv'
<1> SUFFICES ASSUME MqttInv, [MqttNext]_mqttVars PROVE MqttInv'
  OBVIOUS
<1>t. /\ mqState \in {"init", "disconnected", "connecting", "connected"}
      /\ ip \in {"not_resolved", "resolving", "resolved"}
      /\ addr \in {"none", "server", "junk"}
      /\ mqDns \in BOOLEAN
      /\ conn \in {"down", "trying", "astray", "up"}
      /\ errs \in 0..(ErrWrap - 1)
      /\ turn \in {"reconnect", "wifi", "mqtt", "others"}
      /\ WifiTypeOK /\ reconnect \in BOOLEAN
  BY DEF MqttInv, MqttTypeOK, WifiTypeOK
<1>w. UNCHANGED <<link, net, connecting, reconnect>> /\ (Fault \/ UNCHANGED faults) => WifiTypeOK'
  BY <1>t, FaultType
<1>1. CASE VisitReconnect
  BY <1>1, VisitReconnectKeeps
<1>2. CASE VisitWifi \/ Driver
  <2>1. SameConfig /\ UNCHANGED <<mqState, ip, addr, mqDns, conn, errs, broker>>
    BY <1>2 DEF VisitWifi, Driver, clientVars, SameConfig
  <2>2. WifiTypeOK'
    BY <1>2, <1>t, WifiTypes DEF VisitWifi, Driver
  <2>3. turn' \in {"reconnect", "wifi", "mqtt", "others"}
    BY <1>2, <1>t DEF VisitWifi, Driver
  <2> QED
    BY <1>t, <2>1, <2>2, <2>3, ConnectionKeeps
<1>3. CASE Connect \/ Timeout
  BY <1>3, ConnectKeeps
<1>4. CASE ConfigSend
  BY <1>4, ConfigKeeps
<1>5. CASE VisitOthers
  BY <1>5, VisitOthersKeeps
<1>6. CASE Accepted
  BY <1>6, AcceptedKeeps
<1>7. CASE Disconnected
  <2>1. /\ SameConfig /\ UNCHANGED <<ip, addr, mqDns, turn>>
        /\ conn' = "down" /\ mqState' = "disconnected" /\ errs' = 0 /\ broker' = {}
    BY <1>7 DEF Disconnected, SameConfig
  <2>2. WifiTypeOK'
    BY <1>7, <1>w DEF Disconnected
  <2>3. errs' \in 0..(ErrWrap - 1)
    BY <2>1, MqttAssumption
  <2> QED
    BY <1>t, <2>1, <2>2, <2>3, ConnectionKeeps
<1>8. CASE ServerFound
  <2>1. /\ SameConfig /\ UNCHANGED <<mqState, conn, errs, broker, turn>>
        /\ ip' = "resolved" /\ addr' \in {"none", "server", "junk"}
    BY <1>8 DEF ServerFound, SameConfig
  <2>2. mqDns' \in BOOLEAN
    BY <1>8, Zenon DEF ServerFound
  <2>3. WifiTypeOK'
    BY <1>8, <1>w DEF ServerFound
  <2> QED
    BY <1>t, <2>1, <2>2, <2>3, ConnectionKeeps
<1>9. CASE PublishFailed
  <2>1. SameConfig /\ UNCHANGED <<mqState, ip, addr, mqDns, conn, broker, turn>>
    BY <1>9 DEF PublishFailed, SameConfig
  <2>2. errs' \in 0..(ErrWrap - 1)
    BY <1>9, <1>t, MqttAssumption DEF PublishFailed
  <2>3. WifiTypeOK'
    BY <1>9, <1>w DEF PublishFailed
  <2> QED
    BY <1>t, <2>1, <2>2, <2>3, ConnectionKeeps
<1>10. CASE UNCHANGED mqttVars
  <2>1. SameConfig /\ UNCHANGED <<mqState, ip, addr, mqDns, conn, errs, broker, turn>>
    BY <1>10 DEF mqttVars, SameConfig
  <2>2. WifiTypeOK'
    BY <1>10, <1>w DEF mqttVars
  <2> QED
    BY <1>t, <2>1, <2>2, ConnectionKeeps
<1> QED
  BY <1>1, <1>2, <1>3, <1>4, <1>5, <1>6, <1>7, <1>8, <1>9, <1>10 DEF MqttNext, MainLoop

\* The invariant of the client always holds.
LEMMA MqttInvAlways == MqttSpec => []MqttInv
BY MqttInvInit, MqttInvNext, PTL DEF MqttSpec

----
\* What the client and lwIP keep is of its type: the error counter stays within a
\* byte, the marks and the indices within their arrays, however many components and
\* topics are registered late.
THEOREM MqttTypes == MqttSpec => []MqttTypeOK
<1>1. MqttInv => MqttTypeOK
  BY DEF MqttInv
<1> QED
  BY <1>1, MqttInvAlways, PTL

\* Once mqtt_config_send() has nothing left to send, the broker has every topic the
\* modules listen to, for any number of them, registered at any time, and whatever
\* was marked on an earlier connection.
THEOREM SubscribedWhenConfigured == MqttSpec => []ConfiguredIsSubscribed
<1>1. MqttInv => ConfiguredIsSubscribed
  <2> SUFFICES ASSUME MqttInv, conn = "up", ~cfg.fresh, ~Pending(cfg)
               PROVE  broker = 1..count
    BY DEF ConfiguredIsSubscribed
  <2>1. count \in Nat /\ cfg.sub \in Nat /\ cfg.sub <= count /\ topics = 1..cfg.sub
    BY DEF MqttInv, MqttTypeOK, Marked, Config
  <2>2. cfg.sub = count
    BY <2>1 DEF Pending
  <2>3. topics \subseteq broker /\ broker \subseteq 1..count
    BY DEF MqttInv, Believed
  <2> QED
    BY <2>1, <2>2, <2>3
<1> QED
  BY <1>1, MqttInvAlways, PTL

\* Where lwIP's connection is up, the client's state says so, also when the server
\* accepts in the middle of sys_mqtt_reconnect().
THEOREM ConnectionKnown == MqttSpec => []UpIsKnown
<1>1. MqttInv => UpIsKnown
  BY DEF MqttInv
<1> QED
  BY <1>1, MqttInvAlways, PTL
====
