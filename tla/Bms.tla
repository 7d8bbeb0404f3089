---- MODULE Bms ----
(***************************************************************************)
(* A battery behind Bluetooth: the wrapper of the Bluetooth stack (bt.c),  *)
(* which finds the device, connects and discovers its services, and the    *)
(* reader of a JK BMS (bms_jk.c), which asks for frames and assembles them *)
(* from the chunks it is notified of.                                      *)
(*                                                                         *)
(* The modules run in the main loop, step by step of pc; the events of the *)
(* stack come in an interrupt, between any two of these steps (the locks   *)
(* of bt.c are compiled out).  The stack, the link and the battery are     *)
(* external.  Frames are numbered; a frame is NChunks chunks.  Time is     *)
(* left out: a timer may have run out whenever the code looks at it, but   *)
(* for the optional restart of BMS_TIMEOUT_SEC, which is not modelled.     *)
(***************************************************************************)
EXTENDS Naturals, Sequences

CONSTANTS
    NChunks,    \* chunks of a frame: NOTIFY_PACKET_SIZE over the payload of a notification
    NServices,  \* services of the battery, the terminal the last of them
    MaxFrames,  \* bound on the frames sent
    MaxDrops    \* bound on the lost connections

ASSUME BmsAssumption ==
    NChunks \in Nat \ {0, 1} /\ NServices \in Nat \ {0} /\ MaxFrames \in Nat /\ MaxDrops \in Nat

VARIABLES
    bt,         \* struct bt_device_t; cur is svc_current + 1
    link,       \* the stack: is the link up, is a connect pending, the query under way
    jk,         \* struct jk_bms_dev_t: state, terminal found (valid), notify, wait_reply
    nbuff,      \* its buffer: the chunks, nbuff_curr, nbuff_ready
    cells,      \* cell_info, read from the buffer in two parts, and how often
    air,        \* chunks on their way; read: the answer of a read is
    peer,       \* the battery: the last frame, and the requests it is to answer
    bpc         \* where the main loop is

bmsVars == <<bt, link, jk, nbuff, cells, air, peer, bpc>>

Chunk == [f : 1..MaxFrames, i : 1..NChunks]
NoChunk == [f |-> 0, i |-> 0]
Discovering == {"primary", "secondary", "chars"}

BmsTypeOK ==
    /\ bt \in [state : {"off", "connected", "ready"} \cup Discovering,
               busy : BOOLEAN, svcs : 0..NServices, cur : 0..(NServices + 1)]
    /\ link \in [up : BOOLEAN, pending : BOOLEAN, drops : 0..MaxDrops,
                 query : {"none", "primary", "secondary", "chars"}, left : 0..NServices]
    /\ jk \in [state : {"off", "connected", "ready"},
               valid : BOOLEAN, notify : BOOLEAN, wait : BOOLEAN]
    /\ nbuff \in [data : [1..NChunks -> Chunk \cup {NoChunk}], curr : 0..NChunks, ready : BOOLEAN]
    /\ cells \in [first : 0..MaxFrames, second : 0..MaxFrames, n : 0..MaxFrames]
    /\ air \in [chunks : Seq(Chunk), read : BOOLEAN]
    /\ peer \in [frame : 0..MaxFrames, asked : BOOLEAN]
    /\ bpc \in {"bt", "primary", "secondary", "ready", "callback", "jk", "reset", "frame",
                "second", "free"}

BmsInit ==
    /\ bt = [state |-> "off", busy |-> FALSE, svcs |-> 0, cur |-> 0]
    /\ link = [up |-> FALSE, pending |-> FALSE, drops |-> 0, query |-> "none", left |-> 0]
    /\ jk = [state |-> "off", valid |-> FALSE, notify |-> FALSE, wait |-> FALSE]
    /\ nbuff = [data |-> [i \in 1..NChunks |-> NoChunk], curr |-> 0, ready |-> FALSE]
    /\ cells = [first |-> 0, second |-> 0, n |-> 0]
    /\ air = [chunks |-> <<>>, read |-> FALSE]
    /\ peer = [frame |-> 0, asked |-> FALSE]
    /\ bpc = "bt"

----
(* The interrupt: bt_packet_handler(), handle_gatt_client_event()          *)

\* charc_reset() with the new state of jk_bt_event()
JkReset(s) == [jk EXCEPT !.state = s, !.valid = FALSE, !.notify = FALSE, !.wait = FALSE]
BufReset == [nbuff EXCEPT !.curr = 0, !.ready = FALSE]

\* GAP_EVENT_ADVERTISING_REPORT
Advertised ==
    /\ ~link.up /\ ~link.pending
    /\ bt.state = "off"
    /\ link' = [link EXCEPT !.pending = TRUE]
    /\ UNCHANGED <<bt, jk, nbuff, cells, air, peer, bpc>>

\* HCI_SUBEVENT_LE_CONNECTION_COMPLETE; BT_CONNECTED
LinkConnected ==
    /\ link.pending
    /\ link' = [link EXCEPT !.pending = FALSE, !.up = TRUE]
    /\ bt' = [bt EXCEPT !.state = "connected", !.svcs = 0]
    /\ jk' = JkReset("connected")
    /\ nbuff' = BufReset
    /\ UNCHANGED <<cells, air, peer, bpc>>

\* HCI_EVENT_DISCONNECTION_COMPLETE; bt_reset_device(), BT_DISCONNECTED
LinkDropped ==
    /\ link.up /\ link.drops < MaxDrops
    /\ link' = [link EXCEPT !.up = FALSE, !.drops = @ + 1, !.query = "none", !.left = 0]
    /\ bt' = [state |-> "off", busy |-> FALSE, svcs |-> 0, cur |-> 0]
    /\ jk' = JkReset("off")
    /\ nbuff' = BufReset
    /\ air' = [chunks |-> <<>>, read |-> FALSE]
    /\ peer' = [peer EXCEPT !.asked = FALSE]
    /\ UNCHANGED <<cells, bpc>>

\* bt_new_service()
ServiceFound ==
    /\ link.query \in {"primary", "secondary"} /\ link.left > 0
    /\ link' = [link EXCEPT !.left = @ - 1]
    /\ bt' = IF bt.busy /\ bt.svcs < NServices /\ bt.state \in {"primary", "secondary"}
             THEN [bt EXCEPT !.svcs = @ + 1] ELSE bt
    /\ UNCHANGED <<jk, nbuff, cells, air, peer, bpc>>

\* bt_new_characteristic(), charc_new(): the terminal is looked for.  The service
\* asked for is the one left was set to.
CharFound ==
    /\ link.query = "chars" /\ link.left > 0
    /\ link' = [link EXCEPT !.left = 0]
    /\ jk' = IF bt.busy /\ bt.cur = NServices /\ link.left = NServices
             THEN [jk EXCEPT !.valid = TRUE] ELSE jk
    /\ UNCHANGED <<bt, nbuff, cells, air, peer, bpc>>

\* GATT_EVENT_QUERY_COMPLETE
QueryComplete ==
    /\ link.query # "none" /\ link.left = 0
    /\ link' = [link EXCEPT !.query = "none"]
    /\ bt' = [bt EXCEPT !.busy = FALSE]
    /\ UNCHANGED <<jk, nbuff, cells, air, peer, bpc>>

\* The position of a chunk: one that begins as a frame does begins a frame.
At(c) == IF c.i = 1 THEN 0 ELSE nbuff.curr

\* The chunk in the buffer, as much of it as there is room
BufData(c) == IF At(c) < NChunks THEN [nbuff.data EXCEPT ![At(c) + 1] = c] ELSE nbuff.data
Curr(c) == IF At(c) < NChunks THEN At(c) + 1 ELSE NChunks

\* The first bytes of the full buffer and its checksum: a mix of chunks has
\* another one.
IsFrame(data) ==
    \A i \in 1..NChunks : data[i] = [f |-> data[1].f, i |-> i]

Assembled(c) ==
    LET full == Curr(c) = NChunks
        ok == IsFrame(BufData(c))
    IN [data |-> BufData(c), curr |-> IF full /\ ~ok THEN 0 ELSE Curr(c), ready |-> full /\ ok]

\* The chunk is taken although the last frame is still to be handled.
Terminal_Overwrites(c) == [Assembled(c) EXCEPT !.ready = @ \/ nbuff.ready]

\* jk_bt_process_terminal()
Terminal(c) == IF nbuff.ready THEN nbuff ELSE Assembled(c)

\* BT_VALUE_RECEIVED: before BT_READY values are ignored.
ValueReceived(c) == IF jk.state = "ready" THEN Terminal(c) ELSE nbuff

\* A notification
Notified ==
    /\ air.chunks # <<>>
    /\ nbuff' = ValueReceived(Head(air.chunks))
    /\ air' = [air EXCEPT !.chunks = Tail(@)]
    /\ UNCHANGED <<bt, link, jk, cells, peer, bpc>>

\* The answer of a read is the value last notified, which comes in once more.
LastValue ==
    IF air.chunks = <<>> THEN [f |-> peer.frame, i |-> NChunks]
    ELSE IF Head(air.chunks).i > 1 THEN [Head(air.chunks) EXCEPT !.i = @ - 1]
    ELSE [f |-> peer.frame - 1, i |-> NChunks]

ReadAnswered ==
    /\ air.read /\ LastValue.f > 0
    /\ nbuff' = ValueReceived(LastValue)
    /\ air' = [air EXCEPT !.read = FALSE]
    /\ UNCHANGED <<bt, link, jk, cells, peer, bpc>>

\* The battery sends a frame; once it was asked, it may go on sending.
Answer ==
    /\ link.up /\ jk.notify /\ peer.asked /\ air.chunks = <<>> /\ peer.frame < MaxFrames
    /\ peer' = [peer EXCEPT !.frame = @ + 1]
    /\ air' = [air EXCEPT !.chunks = [i \in 1..NChunks |-> [f |-> peer.frame + 1, i |-> i]]]
    /\ UNCHANGED <<bt, link, jk, nbuff, cells, bpc>>

Events ==
    \/ Advertised \/ LinkConnected \/ LinkDropped
    \/ ServiceFound \/ CharFound \/ QueryComplete
    \/ Notified \/ ReadAnswered \/ Answer

----
(* The main loop: bt_device_state()                                        *)

BtGo(next) ==
    /\ bpc = "bt"
    /\ bpc' = next

\* The stack starts one query at a time, and only with the link up.
Query(q, n) ==
    /\ link.up /\ link.query = "none"
    /\ link' = [link EXCEPT !.query = q, !.left = n]

\* sys_bt_run(): an error or a timeout; bt_reset_device(BT_DEV_CONNECTED).  A
\* query may go on in the stack.
BtRestart ==
    /\ BtGo("jk")
    /\ bt.state = "connected" \/ bt.state \in Discovering
    /\ bt' = [state |-> "connected", busy |-> FALSE, svcs |-> 0, cur |-> 0]
    /\ UNCHANGED <<link, jk, nbuff, cells, air, peer>>

\* Disconnected, ready, or a query goes on
BtIdle ==
    /\ BtGo("jk")
    /\ bt.state \in {"off", "ready"} \/ bt.busy
    /\ UNCHANGED <<bt, link, jk, nbuff, cells, air, peer>>

\* BT_DEV_CONNECTED
DiscoverPrimary ==
    /\ BtGo("primary")
    /\ bt.state = "connected"
    /\ Query("primary", NServices)
    /\ bt' = [bt EXCEPT !.busy = FALSE]
    /\ UNCHANGED <<jk, nbuff, cells, air, peer>>

\* BT_DEV_DISCOVERING_PRIMARY, completed
DiscoverSecondary ==
    /\ BtGo("secondary")
    /\ bt.state = "primary" /\ ~bt.busy
    /\ Query("secondary", 0)
    /\ UNCHANGED <<bt, jk, nbuff, cells, air, peer>>

\* The state is set after the query has been started.
SetDiscovering ==
    /\ bpc \in {"primary", "secondary"}
    /\ bt' = [bt EXCEPT !.state = bpc, !.busy = TRUE]
    /\ bpc' = "jk"
    /\ UNCHANGED <<link, jk, nbuff, cells, air, peer>>

\* bt_discover_next_char()
NextCur == IF bt.state = "secondary" THEN 1 ELSE bt.cur + 1

DiscoverChars ==
    /\ BtGo("jk")
    /\ bt.state \in {"secondary", "chars"} /\ ~bt.busy
    /\ NextCur <= bt.svcs
    /\ Query("chars", NextCur)
    /\ bt' = [bt EXCEPT !.state = "chars", !.busy = TRUE, !.cur = NextCur]
    /\ UNCHANGED <<jk, nbuff, cells, air, peer>>

Discovered ==
    /\ BtGo("ready")
    /\ bt.state \in {"secondary", "chars"} /\ ~bt.busy
    /\ NextCur > bt.svcs
    /\ UNCHANGED <<bt, link, jk, nbuff, cells, air, peer>>

\* BT_DEV_READY; the device is told after that.
SetReady ==
    /\ bpc = "ready"
    /\ bt' = [bt EXCEPT !.state = "ready", !.cur = 0]
    /\ bpc' = "callback"
    /\ UNCHANGED <<link, jk, nbuff, cells, air, peer>>

\* BT_READY of jk_bt_event()
ReadyCallback ==
    /\ bpc = "callback"
    /\ jk' = [jk EXCEPT !.state = "ready"]
    /\ bpc' = "jk"
    /\ UNCHANGED <<bt, link, nbuff, cells, air, peer>>

----
(* The main loop: bms_jk_run()                                             *)

Active == jk.state = "ready" /\ jk.valid

\* bms_jk_send_request(): the write and the read fail if the link is down or the
\* characteristic is unknown.
JkRequest ==
    /\ bpc = "jk"
    /\ Active /\ ~jk.wait
    /\ \E ok \in BOOLEAN :
        /\ ok => link.up /\ bt.state # "off" /\ bt.svcs = NServices
        /\ jk' = [jk EXCEPT !.wait = TRUE, !.notify = @ \/ ok]
        /\ peer' = [peer EXCEPT !.asked = @ \/ ok]
        /\ air' = [air EXCEPT !.read = @ \/ ok]
    /\ bpc' = "frame"
    /\ UNCHANGED <<bt, link, nbuff, cells>>

\* No answer for CMD_TIMEOUT_MS: nbuff_curr is reset,
JkTimeout ==
    /\ bpc = "jk"
    /\ Active /\ jk.wait
    /\ nbuff' = [nbuff EXCEPT !.curr = 0]
    /\ bpc' = "reset"
    /\ UNCHANGED <<bt, link, jk, cells, air, peer>>

\* ... and then nbuff_ready and wait_reply.
JkTimeoutReset ==
    /\ bpc = "reset"
    /\ nbuff' = [nbuff EXCEPT !.ready = FALSE]
    /\ jk' = [jk EXCEPT !.wait = FALSE]
    /\ bpc' = "frame"
    /\ UNCHANGED <<bt, link, cells, air, peer>>

JkWait ==
    /\ bpc = "jk"
    /\ bpc' = "frame"
    /\ UNCHANGED <<bt, link, jk, nbuff, cells, air, peer>>

\* What is in the buffer is read, nbuff_ready or not.
FrameFirst_Unready ==
    /\ bpc = "frame"
    /\ cells' = [cells EXCEPT !.first = nbuff.data[1].f]
    /\ bpc' = "second"
    /\ UNCHANGED <<bt, link, jk, nbuff, air, peer>>

\* bms_jk_frame_process(): jk_bt_process_cell_frame() reads the buffer, which takes
\* a while;
FrameFirst ==
    /\ bpc = "frame"
    /\ IF nbuff.ready
       THEN cells' = [cells EXCEPT !.first = nbuff.data[1].f] /\ bpc' = "second"
       ELSE UNCHANGED cells /\ bpc' = "bt"
    /\ UNCHANGED <<bt, link, jk, nbuff, air, peer>>

FrameSecond ==
    /\ bpc = "second"
    /\ cells' = [cells EXCEPT !.second = nbuff.data[NChunks].f, !.n = @ + 1]
    /\ bpc' = "free"
    /\ UNCHANGED <<bt, link, jk, nbuff, air, peer>>

\* ... then the buffer is free for the next one.
FrameFree ==
    /\ bpc = "free"
    /\ nbuff' = [nbuff EXCEPT !.curr = 0, !.ready = FALSE]
    /\ jk' = [jk EXCEPT !.wait = FALSE]
    /\ bpc' = "bt"
    /\ UNCHANGED <<bt, link, cells, air, peer>>

MainLoop ==
    \/ BtRestart \/ BtIdle \/ DiscoverPrimary \/ DiscoverSecondary \/ SetDiscovering
    \/ DiscoverChars \/ Discovered \/ SetReady \/ ReadyCallback
    \/ JkRequest \/ JkTimeout \/ JkTimeoutReset \/ JkWait
    \/ FrameFirst \/ FrameSecond \/ FrameFree

BmsNext == Events \/ MainLoop

BmsSpec == BmsInit /\ [][BmsNext]_bmsVars

----
\* The readings come from one frame, although the connection may be lost and made
\* again, and other frames come in, while they are read: a frame that is not handled
\* yet keeps the buffer, and the buffer is taken again after BT_READY only, which
\* comes from the main loop.
CellsWhole ==
    bpc # "second" => cells.first = cells.second

\* The frames that are handled are frames of the battery, in their order, each at
\* most once, whatever the answers of reads and lost connections put between the
\* chunks.
Channel == INSTANCE FrameChannel WITH
    sent <- peer.frame, got <- cells.second, handled <- cells.n

ChannelSpec == Channel!ChSpec
====
