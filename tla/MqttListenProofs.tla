---- MODULE MqttListenProofs ----
(***************************************************************************)
(* Proofs about MqttListen, for any number of buffers, any buffer size and *)
(* any messages.                                                           *)
(***************************************************************************)
EXTENDS MqttListen, WellFoundedInduction, TLAPS

\* The scan for a buffer finds one when there is one.
LEMMA FirstInType == ASSUME NEW S \in SUBSET Bufs, S # {} PROVE FirstIn(S) \in S
<1> DEFINE R == OpToRel(<, Nat)
<1>1. S \subseteq Nat
  BY ListenAssumption DEF Bufs
<1>2. \A x, y \in Nat : y < x => <<y, x>> \in R
  BY Zenon DEF OpToRel
<1>3. IsWellFoundedOn(R, Nat)
  BY NatLessThanWellFounded, Zenon
<1> HIDE DEF R
<1>4. PICK x \in S : \A y \in S : <<y, x>> \notin R
  BY <1>1, <1>3, WFMin
<1>5. \A y \in S : ~(y < x)
  BY <1>1, <1>2, <1>4
<1>6. \A y \in S : x <= y
  BY <1>1, <1>5
<1> QED
  BY <1>6 DEF FirstIn

\* mqtt_incoming_data() never writes behind a buffer: what it copies leaves
\* room for the terminating zero.
LEMMA TakenType ==
    ASSUME NEW b \in Buffer, NEW n \in Nat \ {0}, stream.msg \in Msgs
    PROVE  Taken(b, n) \in Buffer
<1>1. CASE b.size + n < Ring - 1
  <2>1. b.size + n \in 0..(Ring - 2)
    BY <1>1, ListenAssumption DEF Buffer
  <2> QED
    BY <1>1, <2>1 DEF Taken, Appended, Buffer
<1>2. CASE ~(b.size + n < Ring - 1)
  BY <1>2 DEF Taken
<1> QED
  BY <1>1, <1>2

\* Every step of the interrupt and of the main loop keeps the types.
LEMMA TypeStep == ListenTypeOK /\ [ListenNext]_listenVars => ListenTypeOK'
<1> SUFFICES ASSUME ListenTypeOK, [ListenNext]_listenVars PROVE ListenTypeOK'
  OBVIOUS
<1> USE ListenAssumption DEF ListenTypeOK
<1>1. CASE \E m \in Msgs : Publish(m)
  <2>1. PICK m \in Msgs : Publish(m)
    BY <1>1
  <2> DEFINE free == {i \in Bufs : Idle(i)}
  <2>2. stream' \in [msg : Msgs, got : {0}] /\ stream'.got \in 0..(MsgLen[stream'.msg] - 1)
    BY <2>1 DEF Publish
  <2>3. bufs' \in [Bufs -> Buffer] /\ current' \in Bufs \cup {0}
    <3>1. CASE free # {} /\ MsgLen[m] < Ring /\ MsgTopic[m] # NoMsg
      <4>1. FirstIn(free) \in Bufs
        BY <3>1, FirstInType
      <4>2. 0 \in 0..(Ring - 2) /\ MsgTopic[m] \in Topics
        BY <3>1 DEF Topics
      <4>3. /\ bufs' = [bufs EXCEPT ![FirstIn(free)] =
                          [@ EXCEPT !.inProgress = TRUE, !.ready = FALSE,
                                    !.size = 0, !.topic = MsgTopic[m]]]
            /\ current' = FirstIn(free)
        BY <2>1, <3>1 DEF Publish
      <4>4. [bufs[FirstIn(free)] EXCEPT !.inProgress = TRUE, !.ready = FALSE,
                                        !.size = 0, !.topic = MsgTopic[m]] \in Buffer
        BY <4>1, <4>2 DEF Buffer
      <4> HIDE DEF free
      <4> QED
        BY <4>1, <4>3, <4>4
    <3>2. CASE ~(free # {} /\ MsgLen[m] < Ring /\ MsgTopic[m] # NoMsg)
      BY <2>1, <3>2 DEF Publish
    <3> QED
      BY <3>1, <3>2
  <2> QED
    BY <2>1, <2>2, <2>3 DEF Publish
<1>2. CASE \E n \in 1..Ring : Payload(n)
  <2>1. PICK n \in 1..Ring : Payload(n)
    BY <1>2
  <2>2. stream.msg \in Msgs /\ stream.got \in 0..(MsgLen[stream.msg] - 1)
    BY <2>1 DEF Payload
  <2>3. \/ stream' = NoStream
        \/ stream'.msg \in Msgs /\ stream'.got \in 0..(MsgLen[stream'.msg] - 1)
    <3>1. CASE stream.got + n = MsgLen[stream.msg]
      BY <2>1, <3>1 DEF Payload
    <3>2. CASE stream.got + n # MsgLen[stream.msg]
      <4>1. stream' = [stream EXCEPT !.got = @ + n]
        BY <2>1, <3>2 DEF Payload
      <4>2. stream.got + n \in 0..(MsgLen[stream.msg] - 1)
        BY <2>1, <2>2, <3>2 DEF Payload
      <4> QED
        BY <2>2, <4>1, <4>2
    <3> QED
      BY <3>1, <3>2
  <2>4. bufs' \in [Bufs -> Buffer] /\ current' \in Bufs \cup {0}
    <3>1. CASE current # 0 /\ bufs[current].inProgress
      <4>1. Taken(bufs[current], n) \in Buffer
        BY <2>2, <3>1, TakenType
      <4>2. PICK r \in BOOLEAN :
              bufs' = [bufs EXCEPT ![current] = [Taken(bufs[current], n) EXCEPT !.ready = r]]
        BY <2>1, <3>1, <4>1 DEF Payload, Buffer
      <4>3. [Taken(bufs[current], n) EXCEPT !.ready = r] \in Buffer
        BY <4>1 DEF Buffer
      <4>4. current' \in Bufs \cup {0}
        BY <2>1, <3>1 DEF Payload
      <4> QED
        BY <4>2, <4>3, <4>4
    <3>2. CASE ~(current # 0 /\ bufs[current].inProgress)
      BY <2>1, <3>2 DEF Payload
    <3> QED
      BY <3>1, <3>2
  <2> QED
    BY <2>1, <2>3, <2>4 DEF Payload
<1>3. CASE Lost
  BY <1>3 DEF Lost
<1>4. CASE CallHooks
  <2>1. rd' \in Bufs
    BY <1>4, FirstInType DEF CallHooks
  <2> QED
    BY <1>4, <2>1 DEF CallHooks
<1>5. CASE ClearInProgress
  BY <1>5 DEF ClearInProgress, Buffer
<1>6. CASE ClearReady
  BY <1>6 DEF ClearReady, Buffer
<1>7. CASE ClearRest
  <2>1. 0 \in 0..(Ring - 2)
    OBVIOUS
  <2> QED
    BY <1>7, <2>1 DEF ClearRest, Buffer
<1>8. CASE UNCHANGED listenVars
  BY <1>8 DEF listenVars
<1> QED
  BY <1>1, <1>2, <1>3, <1>4, <1>5, <1>6, <1>7, <1>8 DEF ListenNext

\* Who owns a buffer: the message being collected is not complete, and the
\* hooks run on a complete message that is still in progress.
Owned ==
    /\ CurrentIsFilling
    /\ step = "hooks" => /\ rd \in Bufs
                         /\ bufs[rd].ready /\ bufs[rd].inProgress
    /\ step # "idle" => rd \in Bufs

\* A complete message is in progress, but for the buffer whose flags
\* mqtt_incoming_ready() is clearing.
ReadyInProgress ==
    \A i \in Bufs : bufs[i].ready => bufs[i].inProgress \/ (step = "ready" /\ rd = i)

ListenInv == ListenTypeOK /\ Owned /\ ReadyInProgress

\* Every step keeps the owners of the buffers.
LEMMA OwnedStep == ListenInv /\ [ListenNext]_listenVars => (Owned /\ ReadyInProgress)'
<1> SUFFICES ASSUME ListenInv, [ListenNext]_listenVars PROVE (Owned /\ ReadyInProgress)'
  OBVIOUS
<1> USE DEF ListenInv, Owned, ReadyInProgress, CurrentIsFilling
<1>t. bufs \in [Bufs -> Buffer] /\ current \in Bufs \cup {0} /\ 0 \notin Bufs
  BY ListenAssumption DEF ListenTypeOK, Bufs
<1>1. CASE \E m \in Msgs : Publish(m)
  <2>1. PICK m \in Msgs : Publish(m)
    BY <1>1
  <2> DEFINE free == {i \in Bufs : Idle(i)}
             k == FirstIn(free)
  <2>2. CASE free # {} /\ MsgLen[m] < Ring /\ MsgTopic[m] # NoMsg
    <3>1. k \in Bufs /\ ~bufs[k].inProgress
      BY <2>2, FirstInType DEF Idle
    <3>2. /\ bufs' = [bufs EXCEPT ![k] = [@ EXCEPT !.inProgress = TRUE, !.ready = FALSE,
                                            !.size = 0, !.topic = MsgTopic[m]]]
          /\ current' = k /\ rd' = rd /\ step' = step
      <4>1. MsgLen[m] \in Nat /\ Ring \in Nat
        BY ListenAssumption
      <4> QED
        BY <2>1, <2>2, <4>1 DEF Publish
    <3> HIDE DEF k, free
    <3>3. /\ \A i \in Bufs : i # k => bufs'[i] = bufs[i]
          /\ bufs'[k].inProgress /\ ~bufs'[k].ready
      BY <3>1, <3>2, <1>t DEF Buffer
    <3> QED
      BY <3>1, <3>2, <3>3, <1>t
  <2>3. CASE ~(free # {} /\ MsgLen[m] < Ring /\ MsgTopic[m] # NoMsg)
    BY <2>1, <2>3 DEF Publish
  <2> QED
    BY <2>2, <2>3
<1>2. CASE \E n \in 1..Ring : Payload(n)
  <2>1. PICK n \in 1..Ring : Payload(n)
    BY <1>2
  <2>2. CASE current # 0 /\ bufs[current].inProgress
    <3> DEFINE last == stream.got + n = MsgLen[stream.msg]
    <3>1. /\ bufs' = [bufs EXCEPT ![current] =
                        [Taken(bufs[current], n) EXCEPT
                           !.ready = Taken(bufs[current], n).ready \/ last]]
          /\ current' = (IF last THEN 0 ELSE current) /\ rd' = rd /\ step' = step
      BY <2>1, <2>2 DEF Payload
    <3>2. Taken(bufs[current], n) \in Buffer
      BY <2>1, <2>2, <1>t, TakenType DEF Payload, ListenTypeOK
    <3>3. /\ Taken(bufs[current], n).inProgress
          /\ ~Taken(bufs[current], n).ready
      BY <2>2, <1>t DEF Taken, Appended, Buffer
    <3> HIDE DEF last
    <3>4. /\ \A i \in Bufs : i # current => bufs'[i] = bufs[i]
          /\ bufs'[current].inProgress /\ (bufs'[current].ready <=> last)
      BY <2>2, <3>1, <3>2, <3>3, <1>t DEF Buffer
    <3> QED
      BY <2>2, <3>1, <3>4, <1>t
  <2>3. CASE ~(current # 0 /\ bufs[current].inProgress)
    BY <2>1, <2>3 DEF Payload
  <2> QED
    BY <2>2, <2>3
<1>3. CASE Lost
  BY <1>3 DEF Lost
<1>4. CASE CallHooks
  <2>1. rd' \in Bufs /\ bufs[rd'].ready
    BY <1>4, FirstInType DEF CallHooks
  <2> QED
    BY <1>4, <2>1 DEF CallHooks
<1>5. CASE ClearInProgress
  <2>1. /\ \A i \in Bufs : bufs'[i].ready = bufs[i].ready
        /\ \A i \in Bufs \ {rd} : bufs'[i] = bufs[i]
    BY <1>5, <1>t DEF ClearInProgress, Buffer
  <2> QED
    BY <1>5, <2>1, <1>t DEF ClearInProgress
<1>6. CASE ClearReady
  <2>1. /\ ~bufs'[rd].ready
        /\ \A i \in Bufs \ {rd} : bufs'[i] = bufs[i]
    BY <1>6, <1>t DEF ClearReady, Buffer
  <2> QED
    BY <1>6, <2>1, <1>t DEF ClearReady
<1>7. CASE ClearRest
  <2>1. \A i \in Bufs : /\ bufs'[i].ready = bufs[i].ready
                        /\ bufs'[i].inProgress = bufs[i].inProgress
    BY <1>7, <1>t DEF ClearRest, Buffer
  <2> QED
    BY <1>7, <2>1, <1>t DEF ClearRest
<1>8. CASE UNCHANGED listenVars
  BY <1>8 DEF listenVars
<1> QED
  BY <1>1, <1>2, <1>3, <1>4, <1>5, <1>6, <1>7, <1>8 DEF ListenNext

\* The invariant holds at first.
LEMMA InitInv == ListenInit => ListenInv
BY ListenAssumption DEF ListenInit, ListenInv, ListenTypeOK, Owned, CurrentIsFilling,
   ReadyInProgress, FreeBuffer, Buffer, NoStream, Bufs

\* The invariant of the received messages always holds.
LEMMA ListenInvariant == ListenSpec => []ListenInv
<1>1. ListenInv /\ [ListenNext]_listenVars => ListenInv'
  BY TypeStep, OwnedStep DEF ListenInv
<1> QED
  BY <1>1, InitInv, PTL DEF ListenSpec

\* The buffers keep their types: no message is copied behind the end of a
\* buffer by mqtt_incoming_data(), whatever its length and its fragments.
THEOREM BufferBound == ListenSpec => []ListenTypeOK
<1>1. ListenInv => ListenTypeOK
  BY DEF ListenInv
<1> QED
  BY <1>1, ListenInvariant, PTL

\* mqtt_incoming_data() never goes on writing to a complete message.
THEOREM CurrentFills == ListenSpec => []CurrentIsFilling
<1>1. ListenInv => CurrentIsFilling
  BY DEF ListenInv, Owned
<1> QED
  BY <1>1, ListenInvariant, PTL

\* No step of the interrupt touches the message the hooks are reading.
THEOREM HooksAreAlone == ListenSpec => HooksReadStable
<1> DEFINE A == step = "hooks" /\ step' = "hooks" => bufs'[rd] = bufs[rd]
<1>1. ListenInv /\ [ListenNext]_listenVars => [A]_listenVars
  <2> SUFFICES ASSUME ListenInv, ListenNext, step = "hooks", step' = "hooks"
               PROVE  bufs'[rd] = bufs[rd]
    OBVIOUS
  <2>t. /\ bufs \in [Bufs -> Buffer] /\ rd \in Bufs
        /\ bufs[rd].ready /\ bufs[rd].inProgress
        /\ current # 0 => current # rd
    BY DEF ListenInv, Owned, CurrentIsFilling, ListenTypeOK
  <2>1. CASE \E m \in Msgs : Publish(m)
    <3>1. PICK m \in Msgs : Publish(m)
      BY <2>1
    <3> DEFINE free == {i \in Bufs : Idle(i)}
    <3>2. CASE free # {} /\ MsgLen[m] < Ring /\ MsgTopic[m] # NoMsg
      <4>1. FirstIn(free) # rd
        BY <3>2, <2>t, FirstInType DEF Idle
      <4> QED
        BY <3>1, <3>2, <4>1, <2>t DEF Publish
    <3>3. CASE ~(free # {} /\ MsgLen[m] < Ring /\ MsgTopic[m] # NoMsg)
      BY <3>1, <3>3 DEF Publish
    <3> QED
      BY <3>2, <3>3
  <2>2. CASE \E n \in 1..Ring : Payload(n)
    BY <2>2, <2>t DEF Payload
  <2> QED
    BY <2>1, <2>2 DEF ListenNext, Lost, CallHooks, ClearInProgress, ClearReady, ClearRest
<1> QED
  BY <1>1, ListenInvariant, PTL DEF ListenSpec, HooksReadStable
----
\* When the hooks get their messages.

\* No connection is lost while a message is collected, and no message begins in a buffer
\* whose flags mqtt_incoming_ready() is clearing.
Undisturbed ==
    [][/\ lost' # lost => current = 0
       /\ step \in {"ready", "rest"} => current' # rd]_listenVars

\* No message for a hook has the one length that is let in and does not fit.
ZeroFits == \A m \in Msgs : MsgTopic[m] # NoMsg => MsgLen[m] # Ring - 1

\* The buffer holds all of the message it is of.
WholeMessage(b) ==
    b.msg \in Msgs /\ b.size = MsgLen[b.msg] /\ b.topic = MsgTopic[b.msg]

\* Buffer b has all that has come of the message that comes in.
Collects(b) ==
    /\ stream.msg \in Msgs /\ MsgLen[stream.msg] < Ring - 1
    /\ b.inProgress /\ ~b.ready
    /\ b.size = stream.got /\ b.topic = MsgTopic[stream.msg]
    /\ b.size > 0 => b.msg = stream.msg

\* What is collected is the beginning of the message that comes in, what is complete is a
\* whole message, and the buffer that is read or given back is not collected into.
MessageInv ==
    /\ current # 0 => Collects(bufs[current])
    /\ \A i \in Bufs : bufs[i].ready => WholeMessage(bufs[i])
    /\ step # "idle" => current # rd
    /\ step = "rest" => ~bufs[rd].ready

\* A fragment of the message that is collected goes behind what is there.
LEMMA TakesFragment ==
    ASSUME NEW b \in Buffer, Collects(b), NEW n \in Nat \ {0}, stream.got \in Nat,
           stream.got + n <= MsgLen[stream.msg]
    PROVE  /\ Taken(b, n).size = stream.got + n /\ Taken(b, n).msg = stream.msg
           /\ Taken(b, n).topic = b.topic /\ Taken(b, n).inProgress /\ ~Taken(b, n).ready
           /\ Taken(b, n) \in Buffer
<1>1. MsgLen[stream.msg] \in Nat /\ Ring \in Nat /\ stream.msg \in Msgs
  BY ListenAssumption DEF Collects
<1>2. b.size = stream.got /\ b.size + n < Ring - 1
  BY <1>1 DEF Collects
<1>3. Taken(b, n) = Appended(b, n)
  BY <1>2 DEF Taken
<1>4. b.size = 0 \/ b.msg = stream.msg
  BY <1>2 DEF Collects
<1>5. Appended(b, n).msg = stream.msg
  BY <1>2, <1>4 DEF Appended, Buffer
<1>6. /\ Appended(b, n).size = stream.got + n /\ Appended(b, n).topic = b.topic
      /\ Appended(b, n).inProgress = b.inProgress /\ Appended(b, n).ready = b.ready
  BY <1>2 DEF Appended, Buffer
<1> QED
  BY <1>1, <1>3, <1>5, <1>6, TakenType DEF Collects

\* Without a lost connection or a new message in the way, every step keeps the messages
\* whole.
LEMMA MessageStep ==
    ASSUME ZeroFits, ListenInv, MessageInv, [ListenNext]_listenVars,
           [/\ lost' # lost => current = 0
            /\ step \in {"ready", "rest"} => current' # rd]_listenVars
    PROVE  MessageInv'
<1>t. /\ bufs \in [Bufs -> Buffer] /\ current \in Bufs \cup {0} /\ 0 \notin Bufs
      /\ rd \in Bufs \cup {0} /\ (step # "idle" => rd \in Bufs)
      /\ step \in {"idle", "hooks", "ready", "rest"}
      /\ step = "hooks" => bufs[rd].inProgress
  BY ListenAssumption DEF ListenInv, ListenTypeOK, Owned, Bufs
<1>m. /\ current # 0 => Collects(bufs[current])
      /\ \A i \in Bufs : bufs[i].ready => WholeMessage(bufs[i])
      /\ step # "idle" => current # rd
      /\ step = "rest" => ~bufs[rd].ready
  BY DEF MessageInv
<1>1. CASE UNCHANGED listenVars
  BY <1>1, <1>m DEF listenVars, MessageInv, Collects, WholeMessage
<1>2. ASSUME NEW m \in Msgs, Publish(m), ~UNCHANGED listenVars PROVE MessageInv'
  <2> DEFINE free == {i \in Bufs : Idle(i)}
             k == FirstIn(free)
  <2>1. UNCHANGED <<lost, rd, step>> /\ stream = NoStream /\ stream' = [msg |-> m, got |-> 0]
    BY <1>2 DEF Publish
  <2>2. current = 0
    BY <1>m, <2>1, ListenAssumption DEF Collects, NoStream
  <2>3. CASE free # {} /\ MsgLen[m] < Ring /\ MsgTopic[m] # NoMsg
    <3>1. k \in Bufs /\ ~bufs[k].inProgress
      BY <2>3, FirstInType DEF Idle
    <3>2. /\ bufs' = [bufs EXCEPT ![k] = [@ EXCEPT !.inProgress = TRUE, !.ready = FALSE,
                                            !.size = 0, !.topic = MsgTopic[m]]]
          /\ current' = k
      <4>1. MsgLen[m] \in Nat /\ Ring \in Nat
        BY ListenAssumption
      <4> QED
        BY <1>2, <2>3, <4>1 DEF Publish
    <3>3. k # rd \/ step = "idle"
      BY <1>2, <1>t, <3>1, <3>2
    <3> HIDE DEF k, free
    <3>4. \A i \in Bufs \ {k} : bufs'[i] = bufs[i]
      BY <1>t, <3>1, <3>2
    <3>5. /\ bufs'[k].inProgress /\ ~bufs'[k].ready
          /\ bufs'[k].size = 0 /\ bufs'[k].topic = MsgTopic[m]
      BY <1>t, <3>1, <3>2 DEF Buffer
    <3>6. MsgLen[m] < Ring - 1
      BY <2>3, ListenAssumption DEF ZeroFits
    <3>7. Collects(bufs[current])'
      BY <2>1, <3>2, <3>5, <3>6 DEF Collects
    <3>8. \A i \in Bufs : bufs'[i].ready => WholeMessage(bufs'[i])
      BY <1>m, <3>4, <3>5
    <3>9. (step # "idle" => current # rd)' /\ (step = "rest" => ~bufs[rd].ready)'
      BY <1>m, <1>t, <2>1, <3>2, <3>3, <3>4
    <3> QED
      BY <3>7, <3>8, <3>9 DEF MessageInv, WholeMessage
  <2>4. CASE ~(free # {} /\ MsgLen[m] < Ring /\ MsgTopic[m] # NoMsg)
    <3>1. UNCHANGED <<bufs, current>>
      BY <1>2, <2>4 DEF Publish
    <3> QED
      BY <1>m, <2>1, <2>2, <3>1 DEF MessageInv, WholeMessage
  <2> QED
    BY <2>3, <2>4
<1>3. ASSUME NEW n \in 1..Ring, Payload(n) PROVE MessageInv'
  <2>1. UNCHANGED <<lost, rd, step>> /\ stream.got + n <= MsgLen[stream.msg]
    BY <1>3 DEF Payload
  <2>2. CASE current # 0
    <3> DEFINE last == stream.got + n = MsgLen[stream.msg]
               b == Taken(bufs[current], n)
    <3>1. stream.got \in Nat /\ n \in Nat \ {0} /\ stream.msg \in Msgs
      <4>1. stream.msg \in Msgs /\ MsgLen[stream.msg] \in Nat
        BY <1>m, <2>2, ListenAssumption DEF Collects
      <4>2. stream # NoStream
        BY <4>1, ListenAssumption DEF NoStream
      <4> QED
        BY <4>1, <4>2, ListenAssumption DEF ListenInv, ListenTypeOK
    <3>2. /\ b.size = stream.got + n /\ b.msg = stream.msg /\ b.topic = MsgTopic[stream.msg]
          /\ b.inProgress /\ ~b.ready /\ b \in Buffer
      BY <1>m, <1>t, <2>1, <2>2, <3>1, TakesFragment DEF Collects
    <3>3. /\ bufs' = [bufs EXCEPT ![current] = [b EXCEPT !.ready = b.ready \/ last]]
          /\ current' = (IF last THEN 0 ELSE current)
          /\ stream' = IF last THEN NoStream ELSE [stream EXCEPT !.got = @ + n]
      BY <1>3, <1>m, <2>2 DEF Payload, Collects
    <3> HIDE DEF last, b
    <3>4. \A i \in Bufs \ {current} : bufs'[i] = bufs[i]
      BY <1>t, <2>2, <3>3
    <3>5. /\ bufs'[current].size = stream.got + n /\ bufs'[current].msg = stream.msg
          /\ bufs'[current].topic = MsgTopic[stream.msg] /\ bufs'[current].inProgress
          /\ bufs'[current].ready <=> last
      BY <1>t, <2>2, <3>2, <3>3 DEF Buffer
    <3>6. (step # "idle" => current # rd)' /\ (step = "rest" => ~bufs[rd].ready)'
      BY <1>m, <1>t, <2>1, <3>3, <3>4
    <3>7. CASE last
      <4>1. WholeMessage(bufs'[current])
        BY <3>1, <3>5, <3>7 DEF WholeMessage, last
      <4>2. \A i \in Bufs : bufs'[i].ready => WholeMessage(bufs'[i])
        BY <1>m, <3>4, <4>1
      <4> QED
        BY <3>3, <3>6, <3>7, <4>2 DEF MessageInv, WholeMessage
    <3>8. CASE ~last
      <4>1. current' = current /\ stream'.msg = stream.msg /\ stream'.got = stream.got + n
        BY <3>1, <3>3, <3>8
      <4>2. Collects(bufs[current])'
        BY <1>m, <2>2, <3>1, <3>5, <3>8, <4>1 DEF Collects
      <4>3. \A i \in Bufs : bufs'[i].ready => WholeMessage(bufs'[i])
        BY <1>m, <3>4, <3>5, <3>8
      <4> QED
        BY <3>6, <4>2, <4>3 DEF MessageInv, WholeMessage
    <3> QED
      BY <3>7, <3>8
  <2>3. CASE current = 0
    BY <1>3, <1>m, <2>1, <2>3 DEF Payload, MessageInv, WholeMessage
  <2> QED
    BY <2>2, <2>3
<1>4. CASE Lost /\ ~UNCHANGED listenVars
  <2>1. lost' # lost
    BY <1>4, ListenAssumption DEF Lost, ListenInv, ListenTypeOK
  <2>2. current = 0
    BY <1>4, <2>1
  <2> QED
    BY <1>4, <1>m, <2>2 DEF Lost, MessageInv, WholeMessage
<1>5. CASE CallHooks
  <2>1. rd' \in Bufs /\ bufs[rd'].ready /\ step' = "hooks" /\ UNCHANGED <<bufs, current, stream>>
    BY <1>5, FirstInType DEF CallHooks
  <2>2. current # rd'
    BY <1>m, <1>t, <2>1 DEF Collects
  <2> QED
    BY <1>m, <2>1, <2>2 DEF MessageInv, WholeMessage, Collects
<1>6. ASSUME step # "idle", UNCHANGED <<current, stream>>,
             \A i \in Bufs \ {rd} : bufs'[i] = bufs[i],
             bufs'[rd].ready => WholeMessage(bufs'[rd]),
             rd' = rd \/ step' = "idle", step' = "rest" => ~bufs'[rd].ready
      PROVE  MessageInv'
  <2>1. current # rd /\ (current # 0 => bufs'[current] = bufs[current])
    BY <1>6, <1>m, <1>t
  <2>2. (current # 0 => Collects(bufs[current]))'
    BY <1>6, <1>m, <2>1 DEF Collects
  <2>3. \A i \in Bufs : bufs'[i].ready => WholeMessage(bufs'[i])
    BY <1>6, <1>m
  <2> QED
    BY <1>6, <2>1, <2>2, <2>3 DEF MessageInv, WholeMessage
<1>7. CASE ClearInProgress
  <2>1. /\ bufs'[rd].ready = bufs[rd].ready /\ bufs'[rd].msg = bufs[rd].msg
        /\ bufs'[rd].size = bufs[rd].size /\ bufs'[rd].topic = bufs[rd].topic
        /\ \A i \in Bufs \ {rd} : bufs'[i] = bufs[i]
    BY <1>7, <1>t DEF ClearInProgress, Buffer
  <2>2. step # "idle" /\ step' = "ready" /\ UNCHANGED <<current, stream, rd>>
    BY <1>7 DEF ClearInProgress
  <2>3. bufs'[rd].ready => WholeMessage(bufs'[rd])
    BY <1>m, <1>t, <2>1, <2>2 DEF WholeMessage
  <2> QED
    BY <1>6, <2>1, <2>2, <2>3
<1>8. CASE ClearReady
  <2>1. ~bufs'[rd].ready /\ \A i \in Bufs \ {rd} : bufs'[i] = bufs[i]
    BY <1>8, <1>t DEF ClearReady, Buffer
  <2>2. step # "idle" /\ UNCHANGED <<current, stream, rd>>
    BY <1>8 DEF ClearReady
  <2> QED
    BY <1>6, <2>1, <2>2
<1>9. CASE ClearRest
  <2>1. bufs'[rd].ready = bufs[rd].ready /\ \A i \in Bufs \ {rd} : bufs'[i] = bufs[i]
    BY <1>9, <1>t DEF ClearRest, Buffer
  <2>2. step = "rest" /\ step' = "idle" /\ UNCHANGED <<current, stream>>
    BY <1>9 DEF ClearRest
  <2> QED
    BY <1>6, <1>m, <2>1, <2>2
<1> QED
  BY <1>1, <1>2, <1>3, <1>4, <1>5, <1>7, <1>8, <1>9 DEF ListenNext

\* There are three ways in which a hook gets anything but one whole message of its topic:
\* a connection lost within a message, a message that begins in the buffer whose flags
\* mqtt_incoming_ready() is clearing, and a message whose terminating zero has no room.
\* Without them HooksGetMessage holds, for any number and size of buffers, for any
\* messages, fragments, full tables and foreign topics.
THEOREM OnlyThreeSpoilMessages ==
    ASSUME ZeroFits
    PROVE  ListenSpec /\ Undisturbed => HooksGetMessage
<1> DEFINE Got == step = "idle" /\ step' = "hooks" => WholeMessage(bufs[rd'])
<1>1. ListenInit => MessageInv
  BY DEF ListenInit, MessageInv, FreeBuffer
<1>2. /\ ListenInv /\ MessageInv /\ [ListenNext]_listenVars
      /\ [/\ lost' # lost => current = 0
          /\ step \in {"ready", "rest"} => current' # rd]_listenVars
      => MessageInv'
  BY MessageStep
<1>3. MessageInv /\ [ListenNext]_listenVars => [Got]_listenVars
  <2> SUFFICES ASSUME MessageInv, ListenNext, step = "idle", step' = "hooks"
               PROVE  WholeMessage(bufs[rd'])
    OBVIOUS
  <2>1. CallHooks
    BY DEF ListenNext, Publish, Payload, Lost, ClearInProgress, ClearReady, ClearRest
  <2>2. rd' \in Bufs /\ bufs[rd'].ready
    BY <2>1, FirstInType DEF CallHooks
  <2> QED
    BY <2>2 DEF MessageInv
<1>4. [][Got]_listenVars => HooksGetMessage
  <2>1. [Got]_listenVars =>
          [step = "idle" /\ step' = "hooks" =>
             LET b == bufs[rd']
             IN  /\ b.msg \in Msgs
                 /\ b.size = MsgLen[b.msg]
                 /\ b.topic = MsgTopic[b.msg]]_listenVars
    BY DEF WholeMessage
  <2> QED
    BY <2>1, PTL DEF HooksGetMessage
<1> HIDE DEF Got
<1> QED
  BY <1>1, <1>2, <1>3, <1>4, ListenInvariant, PTL DEF ListenSpec, Undisturbed
====
