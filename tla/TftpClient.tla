---- MODULE TftpClient ----
(***************************************************************************)
(* The TFTP client service (libs/common/services/tftp_client): a table of  *)
(* MAX_CLIENT_JOBS jobs, run by the main loop, and the hooks lwIP's single *)
(* TFTP client calls from the network interrupt.                           *)
(*                                                                         *)
(* The firmware links pico_cyw43_arch_lwip_threadsafe_background: lwIP     *)
(* callbacks run in an interrupt that preempts the main loop and runs to   *)
(* completion.  So a callback is one step, and the main loop is split:     *)
(*   - in sys_tftp_client_job_run() where the LWIP lock is released: cur   *)
(*     is the slot whose tftp_get()/tftp_put() has returned and whose      *)
(*     `requested` is not stored yet;                                      *)
(*   - in tftp_clinet_new_job(), called by a command of MQTT or of a       *)
(*     script or by an automatic update, between its scan of the table     *)
(*     and its memset: claim is the slot it found free.                    *)
(* Called by a command of the web server, tftp_clinet_new_job() runs in    *)
(* the interrupt and is one step.                                          *)
(*                                                                         *)
(* The actions take the effect on the job table only; Ota conjoins them    *)
(* with what the hooks of the job's owner do.                              *)
(***************************************************************************)
EXTENDS Naturals, FiniteSets

CONSTANTS
    MaxJobs,    \* MAX_CLIENT_JOBS
    Owners,     \* the contexts that ask for transfers
    Sources,    \* what a server can send: the content of one file
    NBlocks,    \* blocks of a complete file
    Named,      \* the owners whose server is a domain name, not an address
    None        \* no owner, no address, no source

ASSUME TftpAssumption ==
    /\ MaxJobs \in Nat \ {0}
    /\ NBlocks \in Nat \ {0}
    /\ Named \subseteq Owners
    /\ None \notin Owners
    /\ None \notin Sources

VARIABLES
    jobs,   \* tftp_client_context_t.jobs
    xfer,   \* lwIP: the handle of the transfer, its content, its next block
    dns,    \* lwIP: the name queries in flight, <<job, owner at the query>>
    cur,    \* the job the main loop has requested but not marked; 0 for none
    claim   \* the slot the main loop has found free but not filled; 0 for none

tftpVars == <<jobs, xfer, dns, cur, claim>>

Slots == 1..MaxJobs

\* A name that resolves to no address: tftp_peer_found() copies from NULL.
Junk == "junk"

\* tftp_client_job_t.  `started` is owner # None; owner stands for the hooks,
\* the file and the user context, and also for the peer the file names.
Job == [owner : Owners \cup {None},
        ip    : {"not_resolved", "resolving", "resolved"},
        addr  : Owners \cup {None, Junk},
        requested : BOOLEAN]

Transfer == [handle : Slots \cup {0}, src : Sources \cup {None}, blk : 1..NBlocks]

FreeJob == [owner |-> None, ip |-> "not_resolved", addr |-> None, requested |-> FALSE]

NoTransfer == [handle |-> 0, src |-> None, blk |-> 1]

TftpTypeOK ==
    /\ jobs \in [Slots -> Job]
    /\ xfer \in Transfer
    /\ dns \in SUBSET (Slots \X Owners)
    /\ cur \in Slots \cup {0}
    /\ claim \in Slots \cup {0}

TftpInit ==
    /\ jobs = [i \in Slots |-> FreeJob]
    /\ xfer = NoTransfer
    /\ dns = {}
    /\ cur = 0
    /\ claim = 0

Started(i) == jobs[i].owner # None

----
\* The API: tftp_file_get() and tftp_file_put(), both tftp_clinet_new_job().

FreeSlots == {i \in Slots : ~Started(i)}

FirstFree == CHOOSE i \in FreeSlots : \A j \in FreeSlots : i <= j

\* The table once slot i is memset and filled with a new job of owner o.
WithNewJob(i, o) == [jobs EXCEPT ![i] = [FreeJob EXCEPT !.owner = o]]

\* In the interrupt.
NewJob(o) ==
    /\ FreeSlots # {}
    /\ jobs' = WithNewJob(FirstFree, o)
    /\ UNCHANGED <<xfer, dns, cur, claim>>

\* The main loop is at none of its split places.
MainIdle == cur = 0 /\ claim = 0

\* In the main loop: the scan ...
ScanJobs ==
    /\ MainIdle /\ FreeSlots # {}
    /\ claim' = FirstFree
    /\ UNCHANGED <<jobs, xfer, dns, cur>>

\* ... and the memset and the stores, whatever the slot holds by now.
FillJob(o) ==
    /\ claim # 0
    /\ jobs' = WithNewJob(claim, o)
    /\ claim' = 0
    /\ UNCHANGED <<xfer, dns, cur>>

----
\* The main loop: sys_tftp_client_job_run() on a started job.

\* The peer is an address, or its name is in lwIP's cache: ERR_OK.
JobResolved(i) ==
    /\ MainIdle /\ Started(i) /\ jobs[i].ip = "not_resolved"
    /\ jobs' = [jobs EXCEPT ![i].ip = "resolved", ![i].addr = jobs[i].owner]
    /\ UNCHANGED <<xfer, dns, cur, claim>>

\* ERR_INPROGRESS: the answer comes through tftp_peer_found().  It may come
\* before the main loop stores IP_RESOLVING, which then wipes out its state.
JobResolving(i) ==
    /\ MainIdle /\ Started(i) /\ jobs[i].ip = "not_resolved"
    /\ jobs[i].owner \in Named
    /\ jobs' = [jobs EXCEPT ![i].ip = "resolving"]
    /\ dns' \in {dns, dns \cup {<<i, jobs[i].owner>>}}
    /\ UNCHANGED <<xfer, cur, claim>>

\* tftp_get() or tftp_put() accepted the job: lwIP holds the job as its handle.
JobRequest(i, src) ==
    /\ MainIdle /\ Started(i) /\ jobs[i].ip = "resolved" /\ ~jobs[i].requested
    /\ xfer' = [handle |-> i, src |-> src, blk |-> 1]
    /\ cur' = i
    /\ UNCHANGED <<jobs, dns, claim>>

\* After LWIP_LOCK_END: job->requested = true.  The interrupt may have ended
\* the job meanwhile, the store is made all the same.
JobRequested(i) ==
    /\ cur = i
    /\ jobs' = [jobs EXCEPT ![i].requested = TRUE]
    /\ cur' = 0
    /\ UNCHANGED <<xfer, dns, claim>>

\* Mutant: the inactivity timeout is lost once the request is out.
JobFailed_KeepsRequested(i) ==
    /\ ~jobs[i].requested
    /\ MainIdle /\ Started(i)
    /\ jobs' = [jobs EXCEPT ![i] = FreeJob]
    /\ UNCHANGED <<xfer, dns, cur, claim>>

\* Every goto out_err: the name query refused, IP_TIMEOUT_MS, the request
\* refused, JOB_TIMEOUT_MSEC without activity.  A refused request may leave
\* the job as lwIP's handle.  The owner's error hook runs, then the memset:
\* sys_tftp_client_job_cancel().
JobFailed(i) ==
    /\ MainIdle /\ Started(i)
    /\ jobs' = [jobs EXCEPT ![i] = FreeJob]
    /\ \/ UNCHANGED xfer
       \/ /\ jobs[i].ip = "resolved" /\ ~jobs[i].requested
          /\ xfer' = [NoTransfer EXCEPT !.handle = i]
    /\ UNCHANGED <<dns, cur, claim>>

----
\* lwIP's callbacks.

\* tftp_peer_found(): stores into the job the query was made for, whatever
\* that slot holds now.  A name that does not resolve is stored as well.
PeerFound(q, found) ==
    /\ q \in dns
    /\ dns' = dns \ {q}
    /\ jobs' = [jobs EXCEPT ![q[1]].ip = "resolved",
                            ![q[1]].addr = IF found THEN q[2] ELSE Junk]
    /\ UNCHANGED <<xfer, cur, claim>>

\* Mutant: one block too many is asked for.
PacketNext_OneMore(i) ==
    /\ xfer.handle = i /\ Started(i) /\ xfer.src # None
    /\ xfer' = [xfer EXCEPT !.blk = @ + 1]
    /\ UNCHANGED <<jobs, dns, cur, claim>>

\* tftp_client_write() or tftp_client_read(): the hook took the block and
\* more blocks follow.
PacketNext(i) ==
    /\ xfer.handle = i /\ Started(i) /\ xfer.src # None
    /\ xfer.blk < NBlocks
    /\ xfer' = [xfer EXCEPT !.blk = @ + 1]
    /\ UNCHANGED <<jobs, dns, cur, claim>>

\* The transfer is over: the last block, a block the hook refused (lwIP then
\* calls tftp_client_close()), or an error packet (tftp_client_error()).
\* Either hook of the client ends in the memset of the job.
PacketEnd(i) ==
    /\ xfer.handle = i /\ Started(i)
    /\ jobs' = [jobs EXCEPT ![i] = FreeJob]
    /\ xfer' = NoTransfer
    /\ UNCHANGED <<dns, cur, claim>>

\* A packet for a handle whose job is gone: every hook returns at once, and
\* lwIP drops the transfer.
PacketOrphan ==
    /\ xfer.handle # 0 /\ ~Started(xfer.handle)
    /\ xfer' = NoTransfer
    /\ UNCHANGED <<jobs, dns, cur, claim>>

----
\* The client alone, its owners asking for any transfer at any time.

JobRun(i) ==
    \/ JobResolved(i)
    \/ JobResolving(i)
    \/ \E s \in Sources : JobRequest(i, s)
    \/ JobRequested(i)
    \/ JobFailed(i)

Network ==
    \/ \E q \in dns, found \in BOOLEAN : PeerFound(q, found)
    \/ \E i \in Slots : PacketNext(i) \/ PacketEnd(i)
    \/ PacketOrphan

TftpNext ==
    \/ \E o \in Owners : NewJob(o) \/ FillJob(o)
    \/ ScanJobs
    \/ \E i \in Slots : JobRun(i)
    \/ Network

\* The main loop comes back to every started job, and time passes: a visit
\* that finds the job still not done ends in one of the steps of JobRun.  What it
\* has begun it ends.
TftpSpec ==
    /\ TftpInit /\ [][TftpNext]_tftpVars
    /\ WF_tftpVars(\E o \in Owners : FillJob(o))
    /\ \A i \in Slots : SF_tftpVars(JobRun(i))

----
\* Every job ends: a slot of the table taken by tftp_file_get() or
\* tftp_file_put() becomes free again, whatever the network loses, delays or
\* answers late, and whatever slot lwIP still holds as its handle.  So does the slot
\* of a job that a command of the main loop has overwritten.
JobsEnd == \A i \in Slots : []<>(~Started(i))

\* A request goes to the server its file names: when tftp_get()/tftp_put()
\* is called, the address in the job is the one its own peer resolved to.
RequestToOwnPeer ==
    [][\A i \in Slots : cur = 0 /\ cur' = i => jobs[i].addr = jobs[i].owner]_tftpVars

====
