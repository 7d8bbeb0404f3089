---- MODULE Voltronic ----
(***************************************************************************)
(* The solar inverter behind USB: the USB host (usb.c) and the reader of a *)
(* Voltronic inverter (mppt_voltronic_usb.c), which asks one command after *)
(* the other.                                                              *)
(*                                                                         *)
(* Everything runs in the main loop: the callbacks are called by tuh_task(),*)
(* between two calls of mppt_solar_query().  TinyUSB, the bus and the      *)
(* inverter are external.  A reply is NReports reports, the last of them   *)
(* with CMD_END_CHAR.                                                      *)
(***************************************************************************)
EXTENDS Naturals, Sequences, FiniteSets

CONSTANTS
    NQueries,       \* the commands of voltron_commnds_handler are 1..NQueries
    OneTime,        \* those with one_time; not all of them
    NReports,
    VoRoom,         \* reports that fit in cmd_buff
    VoMaxFaults     \* bound on the faults of bus and inverter

ASSUME VoAssumption ==
    /\ NQueries \in Nat /\ NReports \in Nat \ {0} /\ VoMaxFaults \in Nat
    /\ VoRoom \in Nat /\ NReports <= VoRoom
    /\ OneTime \subseteq 1..NQueries /\ OneTime # 1..NQueries

VARIABLES
    usb,        \* the inverter: away, attached, deaf (attached, the mount has failed), mounted
    mppt,       \* mppt_context; query is cmd_idx, busy is send_in_progress
    toSend,     \* the commands with send set
    inBuf,      \* cmd_buff
    age,        \* of cmd_send_time: 0, 1 (SENT_MIN_TIME_MS) or 2 (SENT_WAIT_MS)
    reports,    \* the reports the inverter is to send
    vdata,      \* for every command, the command whose reply has been stored; 0: none
    vfault      \* how many faults, and whether a reply came after SENT_WAIT_MS

voVars == <<usb, mppt, toSend, inBuf, age, reports, vdata, vfault>>

Queries == 1..NQueries
Report == [q : Queries, i : 1..NReports]

VoTypeOK ==
    /\ usb \in {"away", "attached", "deaf", "mounted"}
    /\ mppt \in [connected : BOOLEAN, busy : BOOLEAN, query : Queries, next : 1..(NQueries + 1)]
    /\ toSend \in SUBSET Queries /\ toSend # {}
    /\ inBuf \in Seq(Report) /\ Len(inBuf) <= VoRoom
    /\ age \in 0..2
    /\ reports \in Seq(Report)
    /\ vdata \in [Queries -> {0} \cup Queries]
    /\ vfault \in [n : 0..VoMaxFaults, late : BOOLEAN]

VoInit ==
    /\ usb = "away"
    /\ mppt = [connected |-> FALSE, busy |-> FALSE, query |-> 1, next |-> 1]
    /\ toSend = Queries
    /\ inBuf = <<>>
    /\ age = 2
    /\ reports = <<>>
    /\ vdata = [q \in Queries |-> 0]
    /\ vfault = [n |-> 0, late |-> FALSE]

VoFault == vfault.n < VoMaxFaults /\ vfault' = [vfault EXCEPT !.n = @ + 1]

----
(* The bus and the inverter                                                *)

Attach ==
    /\ usb = "away"
    /\ usb' = "attached"
    /\ UNCHANGED <<mppt, toSend, inBuf, age, reports, vdata, vfault>>

\* The device is not recognised: it takes a reset of the bus.
MountFails ==
    /\ usb = "attached"
    /\ VoFault
    /\ usb' = "deaf"
    /\ UNCHANGED <<mppt, toSend, inBuf, age, reports, vdata>>

\* tuh_hid_mount_cb(), HID_MOUNT
Mount ==
    /\ usb = "attached"
    /\ usb' = "mounted"
    /\ mppt' = [mppt EXCEPT !.connected = TRUE, !.busy = FALSE]
    /\ toSend' = Queries
    /\ UNCHANGED <<inBuf, age, reports, vdata, vfault>>

\* tuh_hid_umount_cb(), HID_UNMOUNT.  Reports under way are lost, those in cmd_buff
\* stay there.
Unmount ==
    /\ usb # "away"
    /\ VoFault
    /\ usb' = "away"
    /\ reports' = <<>>
    /\ mppt' = [mppt EXCEPT !.connected = FALSE, !.busy = FALSE]
    /\ toSend' = Queries
    /\ UNCHANGED <<inBuf, age, vdata>>

\* A report is lost.
ReportLost ==
    /\ reports # <<>>
    /\ VoFault
    /\ reports' = Tail(reports)
    /\ UNCHANGED <<usb, mppt, toSend, inBuf, age, vdata>>

\* An inverter that is not late answers before the next command may be sent: what is
\* still to come is then the reply to the last command, and only while it is waited for.
VoInTime == Len(reports) <= IF age = 0 /\ mppt.busy THEN NReports ELSE 0

VoTick ==
    /\ age < 2 /\ VoInTime
    /\ age' = age + 1
    /\ UNCHANGED <<usb, mppt, toSend, inBuf, reports, vdata, vfault>>

\* The inverter is late.
VoSlow ==
    /\ age < 2 /\ ~VoInTime
    /\ vfault.n < VoMaxFaults
    /\ vfault' = [n |-> vfault.n + 1, late |-> TRUE]
    /\ age' = age + 1
    /\ UNCHANGED <<usb, mppt, toSend, inBuf, reports, vdata>>

----
(* mppt_usb_callback(), HID_REPORT                                         *)

\* mppt_verify_reply(): the start, the end and the CRC
Verified(b) ==
    /\ Len(b) = NReports
    /\ \A i \in 1..NReports : b[i] = [q |-> b[1].q, i |-> i]

\* The handlers of the commands: what the fields of a reply hold is left out, whose
\* reply they are from is kept.
Scanned(q, b) == [vdata EXCEPT ![q] = b[1].q]

\* Every command is sent once.
Remaining_Once == toSend \ {mppt.query}

\* The commands still to be sent, after a reply
Remaining == toSend \ (OneTime \cap {mppt.query})

\* mppt_cmd_process(): the reply is taken for that of the last command sent.  A
\* reply of another command may be long enough for it, and be scanned.
Process(b) ==
    \/ /\ Verified(b)
       /\ vdata' = Scanned(mppt.query, b)
       /\ toSend' = Remaining
    \/ /\ ~(Verified(b) /\ b[1].q = mppt.query)
       /\ UNCHANGED <<vdata, toSend>>

HidReport ==
    /\ usb = "mounted" /\ reports # <<>>
    /\ LET r == Head(reports)
           b == Append(inBuf, r)
       IN IF Len(b) > VoRoom THEN UNCHANGED <<mppt, toSend, inBuf, vdata>>
          ELSE IF r.i = NReports
          THEN /\ Process(b)
               /\ inBuf' = <<>>
               /\ mppt' = [mppt EXCEPT !.busy = FALSE]
          ELSE /\ inBuf' = b
               /\ UNCHANGED <<mppt, toSend, vdata>>
    /\ reports' = Tail(reports)
    /\ UNCHANGED <<usb, age, vfault>>

----
(* mppt_solar_query()                                                      *)

\* The bus is reset every USB_DISCOVERY_MS: usb_bus_restart()
BusRestart ==
    /\ ~mppt.connected
    /\ usb = "deaf"
    /\ usb' = "attached"
    /\ UNCHANGED <<mppt, toSend, inBuf, age, reports, vdata, vfault>>

\* mppt_solar_cmd_next(): from next on, in a circle
CmdNext ==
    LET Distance(q) == (q + NQueries - mppt.next) % NQueries
    IN CHOOSE q \in toSend : \A p \in toSend : Distance(q) <= Distance(p)

\* A reply that does not come is waited for without end.
MayAsk_NoTimeout == ~mppt.busy /\ age > 0

\* The next command is sent while the last one is waited for.
MayAsk_Busy == age > 0

MayAsk == (age = 2 \/ ~mppt.busy) /\ age > 0

\* cmd_get() and usb_send_to_device(): the inverter will reply.  If the send fails, or
\* the command needs the date and it is not known, the next command is tried the next
\* time; cmd_buff is emptied only if there was something to send.
Ask ==
    /\ mppt.connected
    /\ MayAsk
    /\ \/ /\ mppt' = [mppt EXCEPT !.query = CmdNext, !.next = CmdNext + 1, !.busy = TRUE]
          /\ inBuf' = <<>>
          /\ age' = 0
          /\ reports' = reports \o [i \in 1..NReports |-> [q |-> CmdNext, i |-> i]]
          /\ UNCHANGED vfault
       \/ /\ VoFault
          /\ mppt' = [mppt EXCEPT !.query = CmdNext, !.next = CmdNext + 1, !.busy = FALSE]
          /\ inBuf' \in {<<>>, inBuf}
          /\ UNCHANGED <<age, reports>>
    /\ UNCHANGED <<usb, toSend, vdata>>

VoNext ==
    \/ Attach \/ MountFails \/ Mount \/ Unmount \/ ReportLost \/ VoTick \/ VoSlow
    \/ HidReport \/ BusRestart \/ Ask

\* The main loop runs, time passes, and what is on the bus arrives.
VoFairness ==
    /\ WF_voVars(Ask)
    /\ WF_voVars(BusRestart)
    /\ WF_voVars(Mount)
    /\ WF_voVars(HidReport)
    /\ WF_voVars(VoTick)

VoSpec == VoInit /\ [][VoNext]_voVars /\ VoFairness

----
\* What is stored for a command is the reply to this command: replies are told apart
\* by the last command sent only, so this is lost with the first reply that comes
\* later than SENT_WAIT_MS, but not with lost reports, parts of replies left in the
\* buffer, or a device that is plugged in again.
ReplyMatches ==
    ~vfault.late => \A q \in Queries : vdata[q] \in {0, q}

\* A whole reply is taken for that of command q.
Stored(q) ==
    /\ mppt.query = q /\ HidReport
    /\ Head(reports).i = NReports /\ Verified(Append(inBuf, Head(reports)))

\* An inverter that stays plugged in is read completely, the commands that are asked
\* again and again in every round: no lost report, full buffer, failed send or failed
\* mount keeps the reader waiting or leaves a command out.
InverterRead ==
    <>[](usb # "away") =>
        /\ \A q \in Queries : <>(vdata[q] # 0)
        /\ \A q \in Queries \ OneTime : []<><<Stored(q)>>_voVars
====
