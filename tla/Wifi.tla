---- MODULE Wifi ----
(***************************************************************************)
(* The WiFi service (wifi.c) and the reconnect flag of the main loop       *)
(* (system.c): the configured networks are tried in turn, and a connection *)
(* that was waited for makes every module reconnect.                       *)
(*                                                                         *)
(* The link itself is external: the driver may bring it up at any time     *)
(* after a connect was started, also after its timeout, and it may go down *)
(* at any time.  Timeouts are not timed: they may fire in any pass.        *)
(***************************************************************************)
EXTENDS Naturals

CONSTANTS
    NNets,      \* networks configured, at most MAX_WIFI_NETS
    Reach,      \* the networks in reach
    MaxFaults   \* how often something fails; a bound of the model

ASSUME WifiAssumption ==
    /\ NNets \in Nat \ {0}
    /\ Reach \subseteq 1..NNets
    /\ MaxFaults \in Nat

VARIABLES
    link,       \* cyw43_tcpip_link_status() is CYW43_LINK_UP
    net,        \* net_id, from 1; 0 before the first connect
    connecting, \* connect_in_progress
    reconnect,  \* sys_context_t.reconnect
    faults      \* failures so far

wifiVars == <<link, net, connecting, reconnect, faults>>

WifiTypeOK ==
    /\ link \in BOOLEAN
    /\ net \in 0..NNets
    /\ connecting \in BOOLEAN
    /\ reconnect \in BOOLEAN
    /\ faults \in 0..MaxFaults

WifiInit ==
    /\ link = FALSE
    /\ net = 0
    /\ connecting = FALSE
    /\ reconnect = FALSE
    /\ faults = 0

Fault == faults < MaxFaults /\ faults' = faults + 1

----
\* The main loop: sys_wifi_connect().

\* Connected: the modules are told, if the connection was waited for.
WifiConnected ==
    /\ link
    /\ reconnect' = (reconnect \/ connecting)
    /\ connecting' = FALSE
    /\ UNCHANGED <<link, net, faults>>

\* Mutant: net_id does not go round.
WifiTryNext_Sticks ==
    /\ ~link /\ ~connecting
    /\ net' = IF net = NNets THEN net ELSE net + 1
    /\ \/ connecting' = TRUE /\ UNCHANGED faults
       \/ connecting' = FALSE /\ Fault
    /\ UNCHANGED <<link, reconnect>>

\* The next network is tried; the driver may refuse to start.
WifiTryNext ==
    /\ ~link /\ ~connecting
    /\ net' = IF net = NNets THEN 1 ELSE net + 1
    /\ \/ connecting' = TRUE /\ UNCHANGED faults
       \/ connecting' = FALSE /\ Fault
    /\ UNCHANGED <<link, reconnect>>

\* CONNECT_TIMEOUT_MS is over.
WifiTimeout ==
    /\ ~link /\ connecting
    /\ connecting' = FALSE
    /\ UNCHANGED <<link, net, reconnect, faults>>

\* It is not.
WifiWait == ~link /\ connecting /\ UNCHANGED wifiVars

WifiRun == WifiConnected \/ WifiTryNext \/ WifiTimeout \/ WifiWait

----
\* The driver.

LinkUp ==
    /\ ~link /\ net \in Reach
    /\ link' = TRUE
    /\ UNCHANGED <<net, connecting, reconnect, faults>>

LinkDown ==
    /\ link /\ Fault
    /\ link' = FALSE
    /\ UNCHANGED <<net, connecting, reconnect>>
====
