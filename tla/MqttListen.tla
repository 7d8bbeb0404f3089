---- MODULE MqttListen ----
(***************************************************************************)
(* The messages the MQTT client receives (mqtt_listen.c): lwIP hands a     *)
(* message over in fragments, in the network interrupt; they are collected *)
(* in one of MQTT_LISTEN_BUFFERS buffers, and mqtt_incoming_ready() calls  *)
(* the hooks of the topic from the main loop.                              *)
(*                                                                         *)
(* A callback of lwIP is one step.  mqtt_incoming_ready() is split between *)
(* its stores, as the interrupt may come between any two of them: step is  *)
(* what it does next to buffer rd.                                         *)
(***************************************************************************)
EXTENDS Naturals

CONSTANTS
    NBufs,      \* MQTT_LISTEN_BUFFERS
    Ring,       \* MQTT_OUTPUT_RINGBUF_SIZE
    Msgs,       \* messages of the broker
    MsgLen,     \* the length of a message
    MsgTopic,   \* the topic it is published on; NoMsg for one nobody listens to
    MaxLost,    \* how often the connection is lost; a bound of the model
    NoMsg       \* no topic, no message

Topics == {MsgTopic[m] : m \in Msgs} \ {NoMsg}
MixedMsg == "mixed" \* bytes that do not start a message

ASSUME ListenAssumption ==
    /\ NBufs \in Nat \ {0}
    /\ Ring \in Nat /\ Ring > 1
    /\ MsgLen \in [Msgs -> Nat \ {0}]
    /\ MaxLost \in Nat
    /\ {NoMsg, MixedMsg} \cap Msgs = {}

VARIABLES
    bufs,       \* mqtt_listen_t.buffers
    current,    \* mqtt_listen_t.current; 0 for NULL
    stream,     \* lwIP: the message coming in, and how much of it has come
    lost,       \* connections lost so far
    rd,         \* the buffer mqtt_incoming_ready() has found; 0 for none
    step        \* where mqtt_incoming_ready() is

listenVars == <<bufs, current, stream, lost, rd, step>>

Bufs == 1..NBufs

\* mqtt_listen_buff_t.  msg is the message whose first `size` bytes are there.
Buffer == [inProgress : BOOLEAN, ready : BOOLEAN, topic : Topics \cup {NoMsg},
           msg : Msgs \cup {NoMsg, MixedMsg}, size : 0..(Ring - 2)]

FreeBuffer == [inProgress |-> FALSE, ready |-> FALSE, topic |-> NoMsg,
               msg |-> NoMsg, size |-> 0]

NoStream == [msg |-> NoMsg, got |-> 0]

ListenTypeOK ==
    /\ bufs \in [Bufs -> Buffer]
    /\ current \in Bufs \cup {0}
    /\ \/ stream = NoStream
       \/ stream.msg \in Msgs /\ stream.got \in 0..(MsgLen[stream.msg] - 1)
    /\ lost \in 0..MaxLost
    /\ rd \in Bufs \cup {0}
    /\ step \in {"idle", "hooks", "ready", "rest"}

ListenInit ==
    /\ bufs = [i \in Bufs |-> FreeBuffer]
    /\ current = 0
    /\ stream = NoStream
    /\ lost = 0
    /\ rd = 0
    /\ step = "idle"

----
\* The network interrupt.

Idle(i) == ~bufs[i].inProgress

FirstIn(S) == CHOOSE i \in S : \A j \in S : i <= j

\* mqtt_incoming_publish(): a message begins.  It gets the first buffer that
\* is not in progress; a message that gets none leaves `current` as it is.
Publish(m) ==
    /\ stream = NoStream
    /\ stream' = [msg |-> m, got |-> 0]
    /\ LET free == {i \in Bufs : Idle(i)}
           fits == MsgLen[m] < Ring /\ MsgTopic[m] # NoMsg
       IN  \/ /\ free # {} /\ fits
              /\ current' = FirstIn(free)
              /\ bufs' = [bufs EXCEPT ![FirstIn(free)] =
                            [@ EXCEPT !.inProgress = TRUE, !.ready = FALSE,
                                      !.size = 0, !.topic = MsgTopic[m]]]
           \/ /\ free = {} \/ ~fits
              /\ UNCHANGED <<bufs, current>>
    /\ UNCHANGED <<lost, rd, step>>

\* n bytes of the message coming in are put behind the ones in buffer b.
Appended(b, n) ==
    [b EXCEPT !.size = @ + n,
              !.msg = IF b.size = 0 /\ stream.got = 0 THEN stream.msg
                      ELSE IF @ = stream.msg /\ b.size = stream.got THEN @
                      ELSE MixedMsg]

\* Mutant: the place of the terminating zero is not kept.
Taken_NoRoomForZero(b, n) == IF b.size + n < Ring THEN Appended(b, n) ELSE b

\* The copy of mqtt_incoming_data(), left out when there is no room.
Taken(b, n) == IF b.size + n < Ring - 1 THEN Appended(b, n) ELSE b

\* Mutant: `current` goes on pointing to the complete message.
Payload_KeepsCurrent(n) ==
    /\ stream # NoStream /\ stream.got + n <= MsgLen[stream.msg]
    /\ LET last == stream.got + n = MsgLen[stream.msg]
           b == Taken(bufs[current], n)
       IN  /\ stream' = IF last THEN NoStream ELSE [stream EXCEPT !.got = @ + n]
           /\ IF current # 0 /\ bufs[current].inProgress
              THEN bufs' = [bufs EXCEPT ![current] =
                              [b EXCEPT !.ready = b.ready \/ last]]
              ELSE UNCHANGED bufs
    /\ UNCHANGED <<current, lost, rd, step>>

\* mqtt_incoming_data(): the next n bytes, the last ones with
\* MQTT_DATA_FLAG_LAST.
Payload(n) ==
    /\ stream # NoStream /\ stream.got + n <= MsgLen[stream.msg]
    /\ LET last == stream.got + n = MsgLen[stream.msg]
           b == Taken(bufs[current], n)
       IN  /\ stream' = IF last THEN NoStream ELSE [stream EXCEPT !.got = @ + n]
           /\ IF current # 0 /\ bufs[current].inProgress
              THEN /\ bufs' = [bufs EXCEPT ![current] =
                                 [b EXCEPT !.ready = b.ready \/ last]]
                   /\ current' = IF last THEN 0 ELSE current
              ELSE UNCHANGED <<bufs, current>>
    /\ UNCHANGED <<lost, rd, step>>

\* The connection is lost, the rest of the message never comes.  mqtt_hook()
\* does not look at the buffers.
Lost ==
    /\ lost < MaxLost
    /\ lost' = lost + 1
    /\ stream' = NoStream
    /\ UNCHANGED <<bufs, current, rd, step>>

----
\* The main loop: mqtt_incoming_ready().

\* The first message that is ready, and the hooks of its topic.
CallHooks ==
    /\ step = "idle" /\ \E i \in Bufs : bufs[i].ready
    /\ rd' = FirstIn({i \in Bufs : bufs[i].ready})
    /\ step' = "hooks"
    /\ UNCHANGED <<bufs, current, stream, lost>>

\* The hooks have returned: in_progress ...
ClearInProgress ==
    /\ step = "hooks"
    /\ bufs' = [bufs EXCEPT ![rd].inProgress = FALSE]
    /\ step' = "ready"
    /\ UNCHANGED <<current, stream, lost, rd>>

\* ... ready ...
ClearReady ==
    /\ step = "ready"
    /\ bufs' = [bufs EXCEPT ![rd].ready = FALSE]
    /\ step' = "rest"
    /\ UNCHANGED <<current, stream, lost, rd>>

\* ... size and topic are cleared, in this order.
ClearRest ==
    /\ step = "rest"
    /\ bufs' = [bufs EXCEPT ![rd].size = 0, ![rd].topic = NoMsg]
    /\ rd' = 0
    /\ step' = "idle"
    /\ UNCHANGED <<current, stream, lost>>

----
ListenNext ==
    \/ \E m \in Msgs : Publish(m)
    \/ \E n \in 1..Ring : Payload(n)
    \/ Lost
    \/ CallHooks
    \/ ClearInProgress
    \/ ClearReady
    \/ ClearRest

ListenSpec == ListenInit /\ [][ListenNext]_listenVars

----
\* While the hooks of a topic read their message, no late fragment and no
\* other message is written into its buffer, although the interrupt goes on
\* receiving: the complete message is `current` no more, and in_progress
\* keeps mqtt_incoming_publish() away.
HooksReadStable ==
    [][step = "hooks" /\ step' = "hooks" => bufs'[rd] = bufs[rd]]_listenVars

\* Two messages are never collected in one buffer at a time, and a message
\* that is complete is not the one being collected.
CurrentIsFilling == current # 0 => ~bufs[current].ready

\* A hook gets what was published on its topic: all of one message, and
\* nothing else.
HooksGetMessage ==
    [][step = "idle" /\ step' = "hooks" =>
         LET b == bufs[rd']
         IN  /\ b.msg \in Msgs
             /\ b.size = MsgLen[b.msg]
             /\ b.topic = MsgTopic[b.msg]]_listenVars
====
