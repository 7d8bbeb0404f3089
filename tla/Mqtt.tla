---- MODULE Mqtt ----
(***************************************************************************)
(* The MQTT client (mqtt_client.c, mqtt_listen.c, mqtt_publish.c) on top   *)
(* of the WiFi service: the resolution of the server's name, the           *)
(* connection, and what is sent on every new connection and every hour:    *)
(* the status, the discovery messages of the components and the            *)
(* subscriptions to the topics the modules listen to.                      *)
(*                                                                         *)
(* The main loop visits the reconnect flag, wifi, mqtt and the other       *)
(* modules in this order; turn is the next of them.  A visit is one step,  *)
(* with lwIP's callbacks between two visits.  A callback that interrupts a *)
(* visit is an alternative of the visit where the result is one of its     *)
(* own (Resolve, Interrupted); else it is the same as the callback right   *)
(* before or after the visit.                                              *)
(*                                                                         *)
(* The messages that are received are modelled in MqttListen.              *)
(***************************************************************************)
EXTENDS Wifi

CONSTANTS
    MaxTopics,  \* MQTT_MAX_TOPICS
    MaxComps,   \* MQTT_DISCOVERY_MAX_COUNT
    Comps0,     \* components registered by sys_modules_init()
    MaxErrs,    \* MAX_CONN_ERR
    ErrWrap     \* send_err_count is a uint8_t

ASSUME MqttAssumption ==
    /\ MaxTopics \in Nat \ {0}
    /\ MaxComps \in Nat
    /\ Comps0 \in 0..MaxComps
    /\ MaxErrs \in Nat \ {0}
    /\ ErrWrap \in Nat /\ ErrWrap > MaxErrs

VARIABLES
    mqState,    \* mqtt_context_t.state
    ip,         \* sever_ip_state
    addr,       \* server_addr: the server's address, or what is at address 0
    mqDns,      \* lwIP: a name query is in flight
    conn,       \* lwIP: the connection; astray is an attempt at a wrong address
    errs,       \* send_err_count
    cfg,        \* config and discovery.send_idx
    topics,     \* the topics listened to that are marked as subscribed
    count,      \* listen.count
    cmps,       \* cmp_count
    broker,     \* the subscriptions the broker has for this connection
    turn        \* what the main loop visits next

clientVars == <<mqState, ip, addr, mqDns, conn, errs, cfg, topics, count, cmps, broker>>
mqttVars == <<link, net, connecting, reconnect, faults,
          mqState, ip, addr, mqDns, conn, errs, cfg, topics, count, cmps, broker, turn>>

\* mqtt_config_send_context_t.  fresh is last_send = 0.
Config == [fresh : BOOLEAN, status : BOOLEAN, dev : BOOLEAN, comp : BOOLEAN,
           idx : 0..MaxComps, sub : 0..MaxTopics]

MqttTypeOK ==
    /\ WifiTypeOK
    /\ mqState \in {"init", "disconnected", "connecting", "connected"}
    /\ ip \in {"not_resolved", "resolving", "resolved"}
    /\ addr \in {"none", "server", "junk"}
    /\ mqDns \in BOOLEAN
    /\ conn \in {"down", "trying", "astray", "up"}
    /\ errs \in 0..(ErrWrap - 1)
    /\ cfg \in Config
    /\ topics \subseteq 1..MaxTopics
    /\ count \in 0..MaxTopics
    /\ cmps \in 0..MaxComps
    /\ broker \subseteq 1..MaxTopics
    /\ turn \in {"reconnect", "wifi", "mqtt", "others"}

\* sys_mqtt_init() listens to the topic of the commands.
MqttInit ==
    /\ WifiInit
    /\ mqState = "init" /\ ip = "not_resolved" /\ addr = "none"
    /\ mqDns = FALSE /\ conn = "down" /\ errs = 0
    /\ cfg = [fresh |-> TRUE, status |-> FALSE, dev |-> FALSE, comp |-> FALSE,
              idx |-> 0, sub |-> 0]
    /\ topics = {} /\ count = 1 /\ cmps = Comps0 /\ broker = {}
    /\ turn = "reconnect"

----
\* lwIP's callbacks.

\* Mutant: the configuration of the last connection is taken as still valid.
Accepted_KeepsConfig ==
    /\ conn = "trying" /\ link
    /\ conn' = "up" /\ mqState' = "connected" /\ errs' = 0
    /\ broker' = {}
    /\ UNCHANGED <<wifiVars, ip, addr, mqDns, cfg, topics, count, cmps, turn>>

\* mqtt_hook(): MQTT_CONNECT_ACCEPTED.  The broker starts a clean session.
Accepted ==
    /\ conn = "trying" /\ link
    /\ conn' = "up" /\ mqState' = "connected" /\ errs' = 0
    /\ cfg' = [cfg EXCEPT !.fresh = TRUE]
    /\ broker' = {}
    /\ UNCHANGED <<wifiVars, ip, addr, mqDns, topics, count, cmps, turn>>

\* mqtt_hook(): the connection is refused, or ends.
Disconnected ==
    /\ conn # "down" /\ Fault
    /\ conn' = "down" /\ mqState' = "disconnected" /\ errs' = 0
    /\ broker' = {}
    /\ UNCHANGED <<link, net, connecting, reconnect, ip, addr, mqDns, cfg, topics, count, cmps, turn>>

\* mqtt_server_found(): a name that does not resolve is stored as well.
ServerFound ==
    /\ mqDns
    /\ mqDns' = FALSE
    /\ ip' = "resolved"
    /\ \/ addr' = "server" /\ UNCHANGED faults
       \/ addr' = "junk" /\ Fault
    /\ UNCHANGED <<link, net, connecting, reconnect, mqState, conn, errs, cfg, topics, count, cmps, broker, turn>>

\* mqtt_publish_cb() with an error.
PublishFailed ==
    /\ conn = "up" /\ Fault
    /\ errs' = (errs + 1) % ErrWrap
    /\ UNCHANGED <<link, net, connecting, reconnect, mqState, ip, addr, mqDns, conn, cfg, topics, count, cmps, broker, turn>>

----
\* The main loop: mqtt_connect().

\* Mutant: the connection is not closed.
Reconnect_KeepsConnection ==
    /\ errs' = 0
    /\ IF mqState = "init" THEN UNCHANGED <<mqState, ip>>
       ELSE mqState' = "disconnected" /\ ip' = "not_resolved"
    /\ UNCHANGED <<addr, mqDns, conn, cfg, topics, count, cmps, broker>>

\* sys_mqtt_reconnect().
Reconnect ==
    /\ errs' = 0
    /\ IF mqState = "init" THEN UNCHANGED <<mqState, ip, conn, broker>>
       ELSE mqState' = "disconnected" /\ ip' = "not_resolved" /\ conn' = "down" /\ broker' = {}
    /\ UNCHANGED <<addr, mqDns, cfg, topics, count, cmps>>

\* No WiFi.
ConnectNoWifi ==
    /\ ~link
    /\ IF conn = "up" THEN Reconnect ELSE UNCHANGED clientVars
    /\ UNCHANGED faults

\* Too many errors, CONN_ERR_TIME_MSEC after the last message that was sent.
ConnectErrors ==
    /\ link /\ conn = "up" /\ errs >= MaxErrs
    /\ Reconnect
    /\ UNCHANGED faults

\* mqtt_client_new() once, and mqtt_client_connect() to address a: both may
\* fail at once.
StartConnect(a) ==
    /\ \/ /\ mqState' = "connecting"
          /\ conn' = IF a = "server" THEN "trying" ELSE "astray"
          /\ UNCHANGED faults
       \/ mqState' = "disconnected" /\ conn' = "down" /\ Fault
       \/ mqState = "init" /\ Fault /\ UNCHANGED <<mqState, conn>>
    /\ broker' = {}

\* dns_gethostbyname(), with the connection in state s: the answer may come
\* later, or comes at once and its state is overwritten; it may be known
\* already, or the query fails.
Resolve(s) ==
    /\ \/ /\ ip' = "resolving" /\ mqState' = s /\ conn' = "down"
          /\ \/ mqDns' = TRUE /\ UNCHANGED <<addr, faults>>
             \/ mqDns' = FALSE /\ addr' \in {"server", "junk"} /\ Fault
          /\ UNCHANGED broker
       \/ /\ ip' = "resolved" /\ addr' = "server"
          /\ StartConnect("server")
          /\ UNCHANGED mqDns
       \/ /\ ip' = "not_resolved" /\ mqState' = s /\ conn' = "down" /\ Fault
          /\ UNCHANGED <<addr, mqDns, broker>>
    /\ UNCHANGED <<errs, cfg, topics, count, cmps>>

\* The name of the server is asked for.
ConnectResolve == link /\ conn # "up" /\ mqState # "connecting" /\ ip = "not_resolved" /\ Resolve(mqState)

\* IP_TIMEOUT_MS without an answer of the server: start again with its name.
ConnectTimeout == link /\ conn # "up" /\ mqState = "connecting" /\ Resolve("disconnected")

ConnectWait ==
    /\ link /\ conn # "up" /\ (mqState = "connecting" \/ ip = "resolving")
    /\ UNCHANGED <<clientVars, faults>>

\* IP_TIMEOUT_MS without an answer of the name server.
ResolveTimeout ==
    /\ link /\ conn # "up" /\ mqState # "connecting" /\ ip = "resolving"
    /\ ip' = "not_resolved"
    /\ UNCHANGED <<faults, mqState, addr, mqDns, conn, errs, cfg, topics, count, cmps, broker>>

ConnectStart ==
    /\ link /\ conn # "up" /\ mqState # "connecting" /\ ip = "resolved"
    /\ StartConnect(addr)
    /\ UNCHANGED <<ip, addr, mqDns, errs, cfg, topics, count, cmps>>

----
\* The main loop: mqtt_config_send() on a connection.

Sending == link /\ conn = "up"

Pending(c) == c.status \/ c.dev \/ c.comp \/ c.sub < count

\* On a new connection and every CONFIG_INTERVAL_MSEC everything is to be sent.
Refreshed(c) ==
    [cfg |-> [c EXCEPT !.dev = TRUE, !.comp = @ \/ cmps > 0,
                       !.idx = IF cmps > 0 THEN 0 ELSE @,
                       !.status = TRUE, !.sub = IF count > 0 THEN 0 ELSE @],
     topics |-> IF count > 0 THEN {} ELSE topics]

\* An hour after the last of these messages.  With something left to send
\* that is an hour of failures, and ends in ConnectErrors long before.
Due(hour) == IF cfg.fresh \/ (hour /\ ~Pending(cfg)) THEN Refreshed(cfg)
             ELSE [cfg |-> cfg, topics |-> topics]

\* The send fails: its flag stays, the error is counted.
SendFailed(c, t) ==
    /\ Fault
    /\ cfg' = c /\ topics' = t
    /\ errs' = (errs + 1) % ErrWrap
    /\ UNCHANGED <<mqState, ip, addr, mqDns, conn, count, cmps, broker>>

\* The message is sent: mqtt_msg_send().
Sent(c, t) ==
    /\ cfg' = c /\ topics' = t
    /\ errs' = 0
    /\ UNCHANGED <<faults, mqState, ip, addr, mqDns, conn, count, cmps, broker>>

SendStatus(hour) ==
    LET d == Due(hour)
    IN  /\ Sending /\ d.cfg.status
        /\ \/ Sent([d.cfg EXCEPT !.status = FALSE, !.fresh = FALSE], d.topics)
           \/ SendFailed(d.cfg, d.topics)

SendDevice ==
    /\ Sending /\ ~cfg.fresh /\ ~cfg.status /\ cfg.dev
    /\ \/ Sent([cfg EXCEPT !.dev = FALSE], topics)
       \/ SendFailed(cfg, topics)

\* mqtt_msg_discovery_send() for the next component.
SendComponent ==
    LET i == cfg.idx + 1
    IN  /\ Sending /\ ~cfg.fresh /\ ~cfg.status /\ ~cfg.dev /\ cfg.comp
        /\ \/ Sent([cfg EXCEPT !.idx = IF i >= cmps THEN 0 ELSE i,
                               !.comp = i < cmps, !.fresh = FALSE], topics)
           \/ SendFailed(cfg, topics)

\* mqtt_send_subscribe(): the first topic that is not marked.
SendSubscribe ==
    /\ Sending /\ ~cfg.fresh /\ ~cfg.status /\ ~cfg.dev /\ ~cfg.comp
    /\ cfg.sub < count
    /\ \/ /\ \E t \in (1..count) \ topics :
                /\ \A u \in (1..count) \ topics : t <= u
                /\ topics' = topics \cup {t}
                /\ broker' = broker \cup {t}
          /\ cfg' = [cfg EXCEPT !.sub = @ + 1, !.fresh = FALSE]
          /\ UNCHANGED faults
       \/ Fault /\ UNCHANGED <<topics, broker, cfg>>
    /\ UNCHANGED <<mqState, ip, addr, mqDns, conn, errs, count, cmps>>

\* Nothing to send, or mqtt_incoming_ready() had a message in this visit.
SendNothing ==
    /\ Sending
    /\ \/ ~cfg.fresh /\ ~Pending(cfg) /\ UNCHANGED faults
       \/ Fault
    /\ UNCHANGED clientVars

----
\* The main loop.

\* The server accepts after sys_mqtt_reconnect() has stored the new state and
\* before it closes the connection.
Interrupted ==
    /\ conn = "trying" /\ link
    /\ mqState' = "connected" /\ ip' = "not_resolved" /\ conn' = "down" /\ errs' = 0
    /\ cfg' = [cfg EXCEPT !.fresh = TRUE]
    /\ UNCHANGED <<addr, mqDns, topics, count, cmps, broker>>

VisitReconnect ==
    /\ turn = "reconnect" /\ turn' = "wifi"
    /\ \/ reconnect /\ (Reconnect \/ Interrupted)
       \/ ~reconnect /\ UNCHANGED clientVars
    /\ reconnect' = FALSE
    /\ UNCHANGED <<link, net, connecting, faults>>

VisitWifi == turn = "wifi" /\ turn' = "mqtt" /\ WifiRun /\ UNCHANGED clientVars

MqttVisit == turn = "mqtt" /\ turn' = "others" /\ UNCHANGED <<link, net, connecting, reconnect>>

Connect ==
    /\ MqttVisit
    /\ \/ ConnectNoWifi \/ ConnectErrors \/ ConnectResolve
       \/ ConnectWait \/ ConnectStart

Timeout == MqttVisit /\ (ConnectTimeout \/ ResolveTimeout)

ConfigSend ==
    /\ MqttVisit
    /\ \/ \E hour \in BOOLEAN : SendStatus(hour)
       \/ SendDevice \/ SendComponent \/ SendSubscribe \/ SendNothing

\* Mutant: the components are registered without a limit.
VisitOthers_NoLimit ==
    /\ turn = "others" /\ turn' = "reconnect"
    /\ cmps' = cmps + 1
    /\ cfg' = [cfg EXCEPT !.fresh = TRUE]
    /\ UNCHANGED <<wifiVars, mqState, ip, addr, mqDns, conn, errs, topics, count, broker>>

\* The other modules: mqtt_msg_component_register() of a sensor that is
\* found late, mqtt_topic_listen() of a remote sensor, or neither.
VisitOthers ==
    /\ turn = "others" /\ turn' = "reconnect"
    /\ \/ /\ cmps < MaxComps /\ cmps' = cmps + 1
          /\ cfg' = [cfg EXCEPT !.fresh = TRUE]
          /\ UNCHANGED count
       \/ /\ count < MaxTopics /\ count' = count + 1
          /\ UNCHANGED <<cmps, cfg>>
       \/ UNCHANGED <<cmps, count, cfg>>
    /\ UNCHANGED <<wifiVars, mqState, ip, addr, mqDns, conn, errs, topics, broker>>

MainLoop == VisitReconnect \/ VisitWifi \/ Connect \/ Timeout \/ ConfigSend \/ VisitOthers

Driver == (LinkUp \/ LinkDown) /\ UNCHANGED <<clientVars, turn>>

MqttNext == MainLoop \/ Driver \/ Accepted \/ Disconnected \/ ServerFound \/ PublishFailed

\* The main loop goes on, timeouts run out, a network in reach is joined in
\* one of the attempts, a name query is answered, and the server answers one
\* of the attempts made while the link is up.
MqttSpec ==
    /\ MqttInit /\ [][MqttNext]_mqttVars
    /\ WF_mqttVars(MainLoop)
    /\ SF_mqttVars(Timeout)
    /\ SF_mqttVars(VisitWifi /\ WifiTimeout)
    /\ SF_mqttVars(LinkUp /\ UNCHANGED <<clientVars, turn>>)
    /\ WF_mqttVars(ServerFound)
    /\ SF_mqttVars(Accepted)

----
\* Once nothing is left to send, the broker has the subscriptions of all the
\* topics the modules listen to, the one of the commands among them: what
\* the client believes of an earlier connection never stands for this one.
ConfiguredIsSubscribed ==
    conn = "up" /\ ~cfg.fresh /\ ~Pending(cfg) => broker = 1..count

\* A connection that is up is known to be up: mqtt_msg_publish() and
\* mqtt_send_subscribe() look at the state the client keeps, mqtt_connect()
\* at lwIP's, and nothing would ever bring the first back to the second.
UpIsKnown == conn = "up" => mqState = "connected"

\* When failures end, the device is connected for good and listens to all
\* its topics, whichever of its networks is in reach.
EventuallyServing == <>[](conn = "up" /\ broker = 1..count)
====
