---- MODULE FileSystem ----
(***************************************************************************)
(* The files: the table of open files (fs.c) and the copies from and to a  *)
(* tftp server (fs_tftp.c).  There is one copy_job, the user context of    *)
(* every job the tftp client makes for it: a hook works with whatever copy *)
(* is in it by then.  The jobs are in the table of the tftp client         *)
(* (TftpClient), which others use too.                                     *)
(*                                                                         *)
(* Commands of the web server and the hooks of the network come in an      *)
(* interrupt and are one step.  In the main loop                           *)
(*   - a command of MQTT or of a script is interrupted between its check   *)
(*     of the copy_job, fs_cp_reset() and the parsing, the scan of the job *)
(*     table, the use of the job it found, and the last store: cmd;        *)
(*   - so is any other command that asks for a transfer, between the scan  *)
(*     and the use of the job;                                             *)
(*   - a script opens and reads its file, and is interrupted between the   *)
(*     scan for a free descriptor and its use: reader.                     *)
(***************************************************************************)
EXTENDS Naturals

CONSTANTS
    MaxOpen,    \* MAX_OPENED_FILES
    MaxTftp,    \* MAX_CLIENT_JOBS
    NCopies,    \* copies are numbered; a bound of the model
    FsBlocks    \* the blocks of a file

ASSUME FsAssumption ==
    /\ MaxOpen \in Nat \ {0} /\ MaxTftp \in Nat \ {0}
    /\ NCopies \in Nat /\ FsBlocks \in Nat \ {0}

VARIABLES
    copy,       \* fs_file_copy_t: the copy whose files it names and their direction
    tftp,       \* the jobs of the tftp client: whose, the blocks they moved
    open,       \* open_fd: who opened it, "none" for -1
    cmd,        \* the command in the main loop: where it is, the job it found
    reader,     \* the script in the main loop: scan the descriptor it has found
    copies      \* copies so far

fsVars == <<copy, tftp, open, cmd, reader, copies>>

Fds == 1..MaxOpen
Jobs == 1..MaxTftp

\* "none" and "local" name no tftp server.
Ways == {"none", "local", "get", "put"}

Copy == [id : 0..NCopies, way : Ways, started : BOOLEAN, fd : 0..MaxOpen, web : BOOLEAN]
NoCopy == [id |-> 0, way |-> "none", started |-> FALSE, fd |-> 0, web |-> FALSE]

\* tftp_client_job_t: id is the copy it was made for; out once its request is sent.
TftpJob == [for : {"none", "copy", "other"}, id : 0..NCopies, get : BOOLEAN,
            out : BOOLEAN, blk : 0..FsBlocks]
NoJob == [for |-> "none", id |-> 0, get |-> FALSE, out |-> FALSE, blk |-> 0]

CmdPlaces == {"idle", "checked", "parsed", "scanning", "claimed", "filled", "closing", "other"}
Command == [at : CmdPlaces, get : BOOLEAN, slot : 0..MaxTftp]
NoCommand == [at |-> "idle", get |-> FALSE, slot |-> 0]

FsTypeOK ==
    /\ copy \in Copy
    /\ tftp \in [Jobs -> TftpJob]
    /\ open \in [Fds -> {"none", "copy", "script"}]
    /\ cmd \in Command
    /\ cmd.at \in {"claimed", "other"} => cmd.slot # 0
    /\ reader \in [fd : 0..MaxOpen, scan : 0..MaxOpen]
    /\ copies \in 0..NCopies

\* sys_fs_init()
FsInit ==
    /\ copy = NoCopy
    /\ tftp = [j \in Jobs |-> NoJob]
    /\ open = [f \in Fds |-> "none"]
    /\ cmd = NoCommand
    /\ reader = [fd |-> 0, scan |-> 0]
    /\ copies = 0

----
\* fs_open(): the first free descriptor, 0 if there is none.
FreeFd ==
    LET free == {f \in Fds : open[f] = "none"} IN
    IF free = {} THEN 0 ELSE CHOOSE f \in free : \A g \in free : f <= g

\* fs_cp_reset() keeps the file open.
CpReset_KeepsFd ==
    /\ copy' = [NoCopy EXCEPT !.fd = copy.fd]
    /\ UNCHANGED open

\* fs_cp_reset()
CpReset ==
    /\ open' = IF copy.fd = 0 THEN open ELSE [open EXCEPT ![copy.fd] = "none"]
    /\ copy' = NoCopy

\* tftp_clinet_new_job(): the jobs its scan may find, and the one it then makes.
FreeJobs == {j \in Jobs : tftp[j].for = "none"}
CopyJob(c, get) == [NoJob EXCEPT !.for = "copy", !.id = c, !.get = get]
OtherJob == [NoJob EXCEPT !.for = "other"]

----
\* Commands of the web server.

\* fs?cp from or to a tftp server.
WebCp(get) ==
    /\ copies < NCopies
    /\ ~copy.started
    /\ copies' = copies + 1
    /\ \/ \E j \in FreeJobs :
            /\ tftp' = [tftp EXCEPT ![j] = CopyJob(copies + 1, get)]
            /\ copy' = [id |-> copies + 1, way |-> IF get THEN "get" ELSE "put",
                        started |-> TRUE, fd |-> 0, web |-> TRUE]
            /\ UNCHANGED open
       \/ /\ FreeJobs = {}
          /\ CpReset /\ UNCHANGED tftp
    /\ UNCHANGED <<cmd, reader>>

\* fs?cp while a copy is running is refused: the error path resets the copy_job.
WebCpRefused ==
    /\ copy.started
    /\ CpReset
    /\ UNCHANGED <<tftp, cmd, reader, copies>>

\* fs_cp_local() and a cp with wrong parameters: nothing is left.
WebCpLocal ==
    /\ ~copy.started
    /\ CpReset
    /\ UNCHANGED <<tftp, cmd, reader, copies>>

\* Any other user of the tftp client, an update for one.
OtherNew ==
    /\ \E j \in FreeJobs : tftp' = [tftp EXCEPT ![j] = OtherJob]
    /\ UNCHANGED <<copy, open, cmd, reader, copies>>

----
\* fs?cp in the main loop.

FsMainIdle == cmd.at = "idle" /\ reader.scan = 0

\* The check of copy_job.started; a refused command and one without parameters
\* leave through the reset.
CpCheck ==
    /\ FsMainIdle
    /\ cmd' \in [at : {"closing"} \cup (IF copy.started THEN {} ELSE {"checked"}),
                 get : {FALSE}, slot : {0}]
    /\ UNCHANGED <<copy, tftp, open, reader, copies>>

\* fs_cp_params_parse(): it resets the copy_job, whatever copy is in it by now.
CpParse ==
    /\ cmd.at = "checked"
    /\ open' = IF copy.fd = 0 THEN open ELSE [open EXCEPT ![copy.fd] = "none"]
    /\ \/ \E way \in {"local", "get", "put"} :
            /\ copies < NCopies
            /\ copy' = [id |-> copies + 1, way |-> way, started |-> FALSE, fd |-> 0,
                        web |-> FALSE]
            /\ copies' = copies + 1
            /\ cmd' = [cmd EXCEPT !.at = "parsed"]
       \/ /\ copy' = NoCopy
          /\ cmd' = [cmd EXCEPT !.at = "closing"]
          /\ UNCHANGED copies
    /\ UNCHANGED <<tftp, reader>>

\* copy_job.started is stored.  What the copy_job names by now is asked for, or
\* copied: fs_cp_local().
CpStart ==
    /\ cmd.at = "parsed"
    /\ copy' = [copy EXCEPT !.started = TRUE]
    /\ cmd' = [cmd EXCEPT !.at = IF copy.way \in {"get", "put"} THEN "scanning" ELSE "closing",
                          !.get = (copy.way = "get")]
    /\ UNCHANGED <<tftp, open, reader, copies>>

\* tftp_clinet_new_job(): the scan ...
CpScan ==
    /\ cmd.at = "scanning"
    /\ \/ \E j \in FreeJobs : cmd' = [cmd EXCEPT !.at = "claimed", !.slot = j]
       \/ FreeJobs = {} /\ cmd' = [cmd EXCEPT !.at = "closing"]
    /\ UNCHANGED <<copy, tftp, open, reader, copies>>

\* ... and the memset and the stores, whatever the job is used for by now.
CpFill ==
    /\ cmd.at = "claimed"
    /\ tftp' = [tftp EXCEPT ![cmd.slot] = CopyJob(copy.id, cmd.get)]
    /\ cmd' = [cmd EXCEPT !.at = "filled", !.slot = 0]
    /\ UNCHANGED <<copy, open, reader, copies>>

\* copy_job.web_idx: none, also if the copy is one of the web by now.
CpStored ==
    /\ cmd.at = "filled"
    /\ copy' = [copy EXCEPT !.web = FALSE]
    /\ cmd' = NoCommand
    /\ UNCHANGED <<tftp, open, reader, copies>>

\* out_close
CpClose ==
    /\ cmd.at = "closing"
    /\ CpReset
    /\ cmd' = NoCommand
    /\ UNCHANGED <<tftp, reader, copies>>

MainCp == CpCheck \/ CpParse \/ CpStart \/ CpScan \/ CpFill \/ CpStored \/ CpClose

\* The scan and the use of any other command of the main loop.
OtherScan ==
    /\ FsMainIdle
    /\ \E j \in FreeJobs : cmd' = [cmd EXCEPT !.at = "other", !.slot = j]
    /\ UNCHANGED <<copy, tftp, open, reader, copies>>

OtherFill ==
    /\ cmd.at = "other"
    /\ tftp' = [tftp EXCEPT ![cmd.slot] = OtherJob]
    /\ cmd' = NoCommand
    /\ UNCHANGED <<copy, open, reader, copies>>

----
\* The jobs.  sys_tftp_client_run() sends the request of every job.
JobSent(j) ==
    /\ FsMainIdle
    /\ tftp[j].for # "none" /\ ~tftp[j].out
    /\ tftp' = [tftp EXCEPT ![j].out = TRUE]
    /\ UNCHANGED <<copy, open, cmd, reader, copies>>

\* The network ends a transfer at any time, the main loop a job in its turn.
MayEnd(j) == tftp[j].out \/ FsMainIdle

OtherEnd(j) ==
    /\ tftp[j].for = "other" /\ MayEnd(j)
    /\ tftp' = [tftp EXCEPT ![j] = NoJob]
    /\ UNCHANGED <<copy, open, cmd, reader, copies>>

\* The hooks of a copy.  The end of a job calls close or error, which reset the
\* copy_job.
EndJob_Leaves(j) ==
    /\ tftp' = [tftp EXCEPT ![j] = NoJob]
    /\ IF copy.fd = 0 THEN UNCHANGED <<copy, open>> ELSE CpReset

EndJob(j) == tftp' = [tftp EXCEPT ![j] = NoJob] /\ CpReset

\* fs_tftp_close(), fs_tftp_error(), also of a job whose copy is not there any
\* more.
FsHookEnd(j) ==
    /\ tftp[j].for = "copy" /\ MayEnd(j)
    /\ EndJob(j)
    /\ UNCHANGED <<cmd, reader, copies>>

\* fs_tftp_open(): only in the direction of the copy.
FdOf(get) ==
    IF copy.fd # 0 THEN copy.fd
    ELSE IF get = (copy.way = "get") THEN FreeFd ELSE 0

\* Mutant: an empty read does not end the job.
FsHookBlock_EmptyRead(j) ==
    /\ tftp[j].for = "copy" /\ tftp[j].out
    /\ LET fd == FdOf(tftp[j].get) IN
       IF ~copy.started \/ fd = 0 \/ (tftp[j].blk = FsBlocks /\ tftp[j].get) THEN EndJob(j)
       ELSE /\ tftp[j].blk < FsBlocks
            /\ tftp' = [tftp EXCEPT ![j].blk = @ + 1]
            /\ copy' = [copy EXCEPT !.fd = fd]
            /\ open' = [open EXCEPT ![fd] = IF copy.fd = 0 THEN "copy" ELSE @]
    /\ UNCHANGED <<cmd, reader, copies>>

\* fs_tftp_read(), fs_tftp_write(): the file is opened with the first block.  If
\* that fails, or the file is full or at its end, the job ends.
FsHookBlock(j) ==
    /\ tftp[j].for = "copy" /\ tftp[j].out
    /\ LET fd == FdOf(tftp[j].get) IN
       IF ~copy.started \/ fd = 0 \/ tftp[j].blk = FsBlocks THEN EndJob(j)
       ELSE \/ /\ tftp' = [tftp EXCEPT ![j].blk = @ + 1]
               /\ copy' = [copy EXCEPT !.fd = fd]
               /\ open' = [open EXCEPT ![fd] = IF copy.fd = 0 THEN "copy" ELSE @]
            \/ EndJob(j)
    /\ UNCHANGED <<cmd, reader, copies>>

----
\* A script in the main loop: fs_open() finds a descriptor,
ScriptScan ==
    /\ FsMainIdle
    /\ reader.fd = 0 /\ FreeFd # 0
    /\ reader' = [reader EXCEPT !.scan = FreeFd]
    /\ UNCHANGED <<copy, tftp, open, cmd, copies>>

\* ... which an interrupt may have used meanwhile.
ScriptOpen ==
    /\ reader.scan # 0
    /\ open' = [open EXCEPT ![reader.scan] = "script"]
    /\ reader' = [fd |-> reader.scan, scan |-> 0]
    /\ UNCHANGED <<copy, tftp, cmd, copies>>

\* fs_close()
ScriptClose ==
    /\ FsMainIdle /\ reader.fd # 0
    /\ open' = [open EXCEPT ![reader.fd] = "none"]
    /\ reader' = [reader EXCEPT !.fd = 0]
    /\ UNCHANGED <<copy, tftp, cmd, copies>>

\* fs?close_all: whoever has a file finds it closed, or the file of another.
CloseAllFiles ==
    /\ open' = [f \in Fds |-> "none"]
    /\ UNCHANGED <<copy, tftp, cmd, reader, copies>>

----
FsHooks == \E j \in Jobs : JobSent(j) \/ OtherEnd(j) \/ FsHookEnd(j) \/ FsHookBlock(j)

FsNext ==
    \/ \E get \in BOOLEAN : WebCp(get)
    \/ WebCpRefused \/ WebCpLocal \/ OtherNew
    \/ MainCp \/ OtherScan \/ OtherFill
    \/ FsHooks
    \/ ScriptScan \/ ScriptOpen \/ ScriptClose \/ CloseAllFiles

\* The main loop ends what it has begun.
MainEnds == (cmd.at # "idle" /\ (MainCp \/ OtherFill)) \/ ScriptOpen

\* It sends the request of every job; from then on the tftp client ends the job
\* (TftpClient).
FsSpec ==
    /\ FsInit /\ [][FsNext]_fsVars
    /\ WF_fsVars(MainEnds)
    /\ \A j \in Jobs : SF_fsVars(JobSent(j)) /\ WF_fsVars(FsHookBlock(j))

----
\* When no copy runs nothing is kept for one: no file, no web client; every open
\* file has an owner that will close it, unless two took the same descriptor.
CopyLetsGo ==
    /\ ~copy.started => copy.fd = 0 /\ ~copy.web
    /\ \A f \in Fds : open[f] # "none" => f \in {copy.fd, reader.fd}

\* The job made for the copy is in the table.
CopyHasJob == \E j \in Jobs : tftp[j].for = "copy" /\ tftp[j].id = copy.id

\* The copy is started, and no command of the main loop is still on its way to ask
\* for its transfer or to give it up.
CopyRuns == copy.started /\ cmd.at \notin {"scanning", "claimed", "closing"}

\* Every copy ends, as long as it has its job (fs_tftp_close, fs_tftp_error).
CopyEnds == []<>(~(CopyRuns /\ CopyHasJob))

\* A copy that runs has its job, and loses it only to a command of the main loop
\* that found the job free before the copy took it (tftp_clinet_new_job).
CopyKeepsJob ==
    [][CopyRuns' /\ ~CopyHasJob' =>
         \/ CopyRuns /\ ~CopyHasJob
         \/ cmd.at = "other" /\ tftp[cmd.slot].for = "copy" /\ OtherFill]_fsVars

\* A copy ends with its own transfer: another command does not stop it
\* (fs_cp_file).  The code keeps this only if fs?cp is used one at a time.
RunningCopyGoesOn ==
    [][copy.started /\ CopyHasJob /\ ~(copy'.started /\ copy'.id = copy.id) =>
         \E j \in Jobs : /\ tftp[j].for = "copy" /\ tftp[j].id = copy.id
                         /\ tftp'[j].for # "copy"]_fsVars
====
