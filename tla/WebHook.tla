---- MODULE WebHook ----
(***************************************************************************)
(* The web hook (webhook.c): one connection to one server, kept open, over *)
(* which notifications are sent.                                           *)
(*                                                                         *)
(* The answers of lwIP come in an interrupt of the core of the main loop.  *)
(* The lock of the hook is not recursive: whoever asks for it while the    *)
(* main loop holds it waits for ever, and the watchdog restarts the        *)
(* device.  Timeouts are not timed: they may fire in any pass.             *)
(***************************************************************************)
EXTENDS Naturals

CONSTANTS
    Addrs,          \* the addresses the server may have
    WhMaxFaults     \* how often something fails; a bound of the model

ASSUME WebHookAssumption == Addrs # {} /\ "junk" \notin Addrs /\ WhMaxFaults \in Nat

VARIABLES
    wh,         \* struct webhook_t; at: where the main loop is
    server,     \* the address the name of the server has now
    asked,      \* a name query is under way
    whFaults    \* failures so far

whVars == <<wh, server, asked, whFaults>>

WhTypeOK ==
    /\ wh \in [ip : {"no", "resolving", "yes"}, addr : Addrs \cup {"junk"},
               tcp : {"off", "connecting", "connected"}, sending : BOOLEAN,
               at : {"idle", "queried", "hung"}]
    /\ server \in Addrs
    /\ asked \in BOOLEAN
    /\ whFaults \in 0..WhMaxFaults

\* sys_webhook_init()
WhFresh == [ip |-> "no", addr |-> "junk", tcp |-> "off", sending |-> FALSE, at |-> "idle"]

WhInit ==
    /\ wh = WhFresh
    /\ server \in Addrs
    /\ asked = FALSE
    /\ whFaults = 0

WhFault == whFaults < WhMaxFaults /\ whFaults' = whFaults + 1

----
\* webhook_disconnect(): what is being sent stays so until its timeout.
WhClosed == [wh EXCEPT !.tcp = "off", !.ip = "no"]

\* The main loop waits for its own lock, or the interrupt for the one of the
\* main loop.
WhHang == wh' = [wh EXCEPT !.at = "hung"]

\* webhook_resolve(): the address is known, or asked for,
WhResolve ==
    /\ wh.at = "idle" /\ wh.ip = "no"
    /\ \/ /\ wh' = [wh EXCEPT !.ip = "yes", !.addr = server]
          /\ UNCHANGED asked
       \/ /\ wh' = [wh EXCEPT !.at = "queried"]
          /\ asked' = TRUE
    /\ UNCHANGED <<server, whFaults>>

\* ... which is stored when the answer may be there already.
WhResolving ==
    /\ wh.at = "queried"
    /\ wh' = [wh EXCEPT !.at = "idle", !.ip = "resolving"]
    /\ UNCHANGED <<server, asked, whFaults>>

\* webhook_resolve(): no answer in time.
WhResolveTimeout ==
    /\ wh.at = "idle" /\ wh.ip = "resolving"
    /\ IF asked THEN WhFault ELSE UNCHANGED whFaults
    /\ wh' = [wh EXCEPT !.ip = "no"]
    /\ UNCHANGED <<server, asked>>

\* webhook_connect(); one that fails at once is tried again in the next pass.
WhConnect ==
    /\ wh.at = "idle" /\ wh.ip = "yes" /\ wh.tcp = "off"
    /\ wh' = [wh EXCEPT !.tcp = "connecting"]
    /\ UNCHANGED <<server, asked, whFaults>>

\* altcp_abort() without its error callback: wh_abort() changes the connection
\* only.
WhConnectTimeout_NoCallback ==
    /\ wh.at = "idle" /\ wh.tcp = "connecting"
    /\ IF wh.addr = server THEN WhFault ELSE UNCHANGED whFaults
    /\ wh' = [wh EXCEPT !.tcp = "off"]
    /\ UNCHANGED <<server, asked>>

\* webhook_connect(): the server has not answered in time.  wh_abort() holds
\* the lock when altcp_abort() calls wh_tcp_err_cb(), which asks for it.
WhConnectTimeout ==
    /\ wh.at = "idle" /\ wh.tcp = "connecting"
    /\ IF wh.addr = server THEN WhFault ELSE UNCHANGED whFaults
    /\ WhHang
    /\ UNCHANGED <<server, asked>>

\* wh_tcp_send(): what TCP does not take at once is left, and not sent later.
WhWritten(left) == [wh EXCEPT !.sending = left]

\* webhook_send()
WhSend ==
    /\ wh.at = "idle" /\ ~wh.sending /\ wh.tcp = "connected"
    /\ \E left \in BOOLEAN : wh' = WhWritten(left)
    /\ UNCHANGED <<server, asked, whFaults>>

\* webhook_send() without a connection: webhook_connect() asks for the lock
\* webhook_send() holds.  A caller may not have asked webhook_connected(), or
\* the connection has ended since.
WhSendLate ==
    /\ WhFault
    /\ wh.at = "idle" /\ ~wh.sending
    /\ WhHang
    /\ UNCHANGED <<server, asked>>

\* webhook_timeout_check()
WhSendTimeout ==
    /\ wh.at = "idle" /\ wh.sending
    /\ wh' = [wh EXCEPT !.sending = FALSE]
    /\ UNCHANGED <<server, asked, whFaults>>

\* sys_webhook_run() without WiFi, sys_webhook_reconnect()
WhNoWifi ==
    /\ WhFault
    /\ wh.at = "idle"
    /\ wh' = WhClosed
    /\ UNCHANGED <<server, asked>>

\* A callback of lwIP comes while the main loop holds the lock.
WhInterrupted ==
    /\ WhFault
    /\ wh.at # "hung" /\ (asked \/ wh.tcp # "off")
    /\ WhHang
    /\ UNCHANGED <<server, asked>>

WhWatchdog ==
    /\ wh.at = "hung"
    /\ wh' = WhFresh
    /\ asked' = FALSE
    /\ UNCHANGED <<server, whFaults>>

----
\* wh_server_found(): also late; with no address junk is copied.  An answer
\* before WhResolving is overwritten by it.
WhFound ==
    /\ wh.at # "hung" /\ asked
    /\ asked' = FALSE
    /\ \/ /\ IF wh.at = "queried" THEN WhFault ELSE UNCHANGED whFaults
          /\ wh' = [wh EXCEPT !.ip = "yes", !.addr = server]
       \/ /\ WhFault
          /\ wh' = [wh EXCEPT !.ip = "yes", !.addr = "junk"]
    /\ UNCHANGED server

\* wh_tcp_connect_cb()
WhConnected ==
    /\ wh.at # "hung" /\ wh.tcp = "connecting" /\ wh.addr = server
    /\ wh' = [wh EXCEPT !.tcp = "connected"]
    /\ UNCHANGED <<server, asked, whFaults>>

\* wh_tcp_recv_cb() without data, wh_tcp_err_cb()
WhEnd ==
    /\ WhFault
    /\ wh.at # "hung" /\ wh.tcp # "off"
    /\ wh' = WhClosed
    /\ UNCHANGED <<server, asked>>

\* The server restarts with another address.
WhMoves ==
    /\ WhFault
    /\ wh.at # "hung"
    /\ \E a \in Addrs \ {server} : server' = a
    /\ wh' = IF wh.tcp = "connected" THEN WhClosed ELSE wh
    /\ UNCHANGED asked

----
WhNext ==
    \/ WhResolve \/ WhResolving \/ WhResolveTimeout \/ WhConnect \/ WhConnectTimeout
    \/ WhSend \/ WhSendLate \/ WhSendTimeout \/ WhNoWifi
    \/ WhInterrupted \/ WhWatchdog
    \/ WhFound \/ WhConnected \/ WhEnd \/ WhMoves

\* The steps of the main loop, the watchdog, the name server and the server.
WhProgress ==
    \/ WhResolve \/ WhResolving \/ WhConnect \/ WhConnectTimeout
    \/ WhWatchdog \/ WhFound \/ WhConnected

WhFairness ==
    /\ WF_whVars(wh.tcp = "off" /\ WhProgress)
    /\ WF_whVars(wh.tcp # "off" /\ WhProgress)
    /\ WF_whVars(WhResolveTimeout) /\ WF_whVars(WhFound)
    /\ WF_whVars(WhSendTimeout)

WhSpec == WhInit /\ [][WhNext]_whVars /\ WhFairness

----
\* Once the failures end the hook is connected for good, and what is being sent
\* never blocks the next notification for ever: after late and empty answers of
\* the name server, a server that moves and the deadlocks of the lock.
WhServes ==
    /\ <>[](wh.tcp = "connected")
    /\ []<>(~wh.sending)
====
