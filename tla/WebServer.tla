---- MODULE WebServer ----
(***************************************************************************)
(* The web server (webserv.c), the log (log.c) and the system commands     *)
(* that send the log to a web client (syscmd.c, commands.c).               *)
(*                                                                         *)
(* lwIP accepts clients, hands over their requests and reports their end   *)
(* in an interrupt of the core that runs the main loop: each of these is   *)
(* one action.  The main loop is interrupted anywhere but under the lock   *)
(* of lwIP, so its operations are split: main is where it is.  An          *)
(* interrupt that waits for a mutex of the main loop waits for ever, and   *)
(* the watchdog restarts the device.                                       *)
(***************************************************************************)
EXTENDS Naturals

CONSTANTS
    MaxClients,     \* MAX_CLIENTS
    Conns,          \* the connections of the clients
    NoConn          \* a pcb pointer that is NULL

ASSUME WebAssumption == MaxClients \in Nat \ {0} /\ NoConn \notin Conns

VARIABLES
    wslot,      \* struct webclient_t: tcp the connection; raced: it was accepted
                \* while the main loop was giving the slot free
    fwd,        \* client_log (0 for -1), http_log and status_log
    main        \* where the main loop is: it holds the log mutex at "log",
                \* "forward" and "written", and cl_lock at "window"

webVars == <<wslot, fwd, main>>

WebSlots == 1..MaxClients
Idle0 == [at |-> "idle"]
FreeSlot == [tcp |-> NoConn, init |-> FALSE, sending |-> FALSE, close |-> FALSE, raced |-> FALSE]
Fwd0 == [client |-> 0, http |-> FALSE, status |-> FALSE]

WebTypeOK ==
    /\ wslot \in [WebSlots -> [tcp : Conns \cup {NoConn}, init : BOOLEAN, sending : BOOLEAN,
                           close : BOOLEAN, raced : BOOLEAN]]
    /\ fwd \in [client : 0..MaxClients, http : BOOLEAN, status : BOOLEAN]
    /\ main \in [at : {"idle", "log", "forward", "unhook", "hung"}]
                \cup [at : {"closing", "window", "written", "unhook_close"}, s : WebSlots]

\* sys_webserv_init(), sys_log_init(), sys_commands_init()
WebInit ==
    /\ wslot = [s \in WebSlots |-> FreeSlot]
    /\ fwd = Fwd0
    /\ main = Idle0

----
\* The mutexes an interrupt may wait for.
LogLocked == main.at \in {"log", "forward", "written"}
ClientLocked(s) == main.at = "window" /\ main.s = s

\* The interrupt waits for a mutex the main loop holds.
Hang == main' = [at |-> "hung"] /\ UNCHANGED <<wslot, fwd>>

\* The watchdog restarts the device.
Watchdog ==
    /\ main.at = "hung"
    /\ wslot' = [s \in WebSlots |-> FreeSlot]
    /\ fwd' = Fwd0
    /\ main' = Idle0

\* webserv_accept(): the first slot without connection.
FreeWebSlots == {s \in WebSlots : wslot[s].tcp = NoConn}

WebAccept(c) ==
    /\ main.at # "hung" /\ FreeWebSlots # {}
    /\ \A s \in WebSlots : wslot[s].tcp # c
    /\ LET s == CHOOSE s \in FreeWebSlots : \A o \in FreeWebSlots : s <= o IN
       wslot' = [wslot EXCEPT ![s].tcp = c, ![s].init = TRUE, ![s].raced = ClientLocked(s)]
    /\ UNCHANGED <<fwd, main>>

\* debug_log_forward()
Forward(f, s) == [f EXCEPT !.client = s, !.http = s # 0]

\* ws_tcp_recv_cb() with a request, client_parse_incoming() and cmd_exec().
\* Every command makes its client the one that gets the log; log_on and status
\* keep the client, anything else closes it and ends the log.  What is sent
\* fits into the buffer of TCP or is left, as sending: it is not resumed, and
\* the first line of the status cannot be sent.
Request(s, cmd) ==
    /\ main.at # "hung" /\ wslot[s].tcp # NoConn
    /\ IF LogLocked \/ ClientLocked(s) THEN Hang
       ELSE /\ \E left \in {wslot[s].sending, TRUE} :
                 wslot' = [wslot EXCEPT ![s].sending = left,
                            ![s].close = @ \/ cmd \notin {"log_on", "status"}]
            /\ fwd' = IF cmd = "log_on" THEN Forward(fwd, s)
                      ELSE IF cmd = "status"
                      THEN [Forward(fwd, IF wslot'[s].sending THEN 0 ELSE s) EXCEPT !.status = TRUE]
                      ELSE Forward(fwd, 0)
            /\ UNCHANGED main

\* The rest of webclient_disconnect().
Released_KeepsTcp(sl) == [FreeSlot EXCEPT !.tcp = sl.tcp, !.raced = sl.raced]

Released(sl) == FreeSlot

\* ws_tcp_recv_cb() without data: the client has closed its connection.
\* webclient_disconnect() does nothing with a client that is not init.
RemoteClose(s) ==
    /\ main.at # "hung" /\ wslot[s].tcp # NoConn
    /\ IF wslot[s].init /\ ClientLocked(s) THEN Hang
       ELSE /\ wslot' = [wslot EXCEPT ![s] = IF @.init THEN Released(@) ELSE @]
            /\ UNCHANGED <<fwd, main>>

\* ws_tcp_err_cb(): the connection is gone already.
TcpErr(s) ==
    /\ main.at # "hung" /\ wslot[s].tcp # NoConn
    /\ IF ClientLocked(s) THEN Hang
       ELSE /\ wslot' = [wslot EXCEPT ![s] =
                          IF @.init THEN Released([@ EXCEPT !.tcp = NoConn])
                          ELSE [@ EXCEPT !.tcp = NoConn, !.raced = FALSE]]
            /\ UNCHANGED <<fwd, main>>

----
\* The main loop.

Go(next) == main.at = "idle" /\ main' = next

\* webclient_close_check() without its time limit.
CloseCheck_NoTimeout(s) ==
    /\ wslot[s].init /\ wslot[s].close
    /\ Go([at |-> "closing", s |-> s])
    /\ UNCHANGED <<wslot, fwd>>

\* webclient_close_check() finds a client to close, or one whose answer is not
\* sent in time.
CloseCheck(s) ==
    /\ wslot[s].init /\ (wslot[s].close \/ wslot[s].sending)
    /\ Go([at |-> "closing", s |-> s])
    /\ UNCHANGED <<wslot, fwd>>

\* sys_webserv_reconnect(): the WiFi is lost.
CloseAll(s) ==
    /\ Go([at |-> "closing", s |-> s])
    /\ UNCHANGED <<wslot, fwd>>

\* webclient_disconnect() closes the connection that has the slot now,
Disconnect ==
    /\ main.at = "closing"
    /\ UNCHANGED fwd
    /\ IF ~wslot[main.s].init THEN main' = Idle0 /\ UNCHANGED wslot
       ELSE /\ wslot' = [wslot EXCEPT ![main.s].tcp = NoConn, ![main.s].raced = FALSE]
            /\ main' = [at |-> "window", s |-> main.s]

\* ... and then clears the rest, also when lwIP has accepted a client into the
\* slot meanwhile.
Release ==
    /\ main.at = "window"
    /\ wslot' = [wslot EXCEPT ![main.s] = [FreeSlot EXCEPT !.tcp = wslot[main.s].tcp,
                                                         !.raced = wslot[main.s].raced]]
    /\ main' = Idle0
    /\ UNCHANGED fwd

\* hlog_any(): the console, the remote server,
LogLine ==
    /\ Go([at |-> "log"])
    /\ UNCHANGED <<wslot, fwd>>

\* ... the web client, if there is one that gets the log,
LogWeb ==
    /\ main.at = "log"
    /\ main' = IF fwd.http THEN [at |-> "forward"] ELSE Idle0
    /\ UNCHANGED <<wslot, fwd>>

\* ... which syscmd_log_send() forgets when webserv_client_send_data() cannot
\* take the line.
LogForward ==
    /\ main.at = "forward"
    /\ LET s == fwd.client IN
       IF s # 0 /\ wslot[s].tcp # NoConn /\ ~wslot[s].sending
       THEN /\ wslot' = [wslot EXCEPT ![s].sending = TRUE]
            /\ main' = [at |-> "written", s |-> s]
            /\ UNCHANGED fwd
       ELSE /\ fwd' = Forward(fwd, 0)
            /\ main' = Idle0
            /\ UNCHANGED wslot

\* ws_tcp_send(): all of it is sent, or a part.
LogWritten ==
    /\ main.at = "written"
    /\ \E left \in {wslot[main.s].sending, FALSE} :
         wslot' = [wslot EXCEPT ![main.s].sending = left]
    /\ main' = Idle0
    /\ UNCHANGED fwd

\* sys_commands_run(): the status is sent, its client is to be closed.
StatusDone ==
    /\ fwd.status
    /\ fwd' = [fwd EXCEPT !.status = FALSE]
    /\ Go(IF fwd.client # 0 /\ wslot[fwd.client].tcp # NoConn
          THEN [at |-> "unhook_close", s |-> fwd.client] ELSE Idle0)
    /\ UNCHANGED wslot

\* webserv_client_close(), of whoever has the slot now.
StatusClose ==
    /\ main.at = "unhook_close"
    /\ wslot' = [wslot EXCEPT ![main.s].close = TRUE]
    /\ fwd' = [fwd EXCEPT !.client = 0]
    /\ main' = [at |-> "unhook"]

\* debug_log_forward(-1) goes on: hlog_web_enable(false).
StatusUnhook ==
    /\ main.at = "unhook"
    /\ fwd' = [fwd EXCEPT !.http = FALSE]
    /\ main' = Idle0
    /\ UNCHANGED wslot

----
Interrupt ==
    \/ \E c \in Conns : WebAccept(c)
    \/ \E s \in WebSlots :
         \/ \E cmd \in {"log_on", "status", "other"} : Request(s, cmd)
         \/ RemoteClose(s) \/ TcpErr(s)

WebMain ==
    \/ \E s \in WebSlots : CloseCheck(s) \/ CloseAll(s)
    \/ Disconnect \/ Release
    \/ LogLine \/ LogWeb \/ LogForward \/ LogWritten
    \/ StatusDone \/ StatusClose \/ StatusUnhook

WebNext == Interrupt \/ WebMain \/ Watchdog

\* The main loop goes on and looks at every client; what is not sent in time is
\* given up; the watchdog bites.
WebFairness ==
    /\ WF_webVars(main.at # "idle" /\ WebMain)
    /\ WF_webVars(Watchdog)
    /\ \A s \in WebSlots : SF_webVars(CloseCheck(s))

WebSpec == WebInit /\ [][WebNext]_webVars /\ WebFairness

----
\* A connection is in a slot the main loop looks at, unless it was accepted
\* while that slot was given free (webserv_accept, webclient_disconnect): only
\* then its end, and its place among MAX_CLIENTS, are forgotten.
ServedIsInit ==
    \A s \in WebSlots : wslot[s].tcp # NoConn /\ ~wslot[s].init => wslot[s].raced

\* A client that is to be closed is closed and a send that is stuck ends
\* (webclient_close_check), whatever lwIP does meanwhile.
NothingPends ==
    \A s \in WebSlots :
        /\ []<>(wslot[s].init => ~wslot[s].close)
        /\ []<>(wslot[s].init => ~wslot[s].sending)
====
