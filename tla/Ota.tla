---- MODULE Ota ----
(***************************************************************************)
(* The OTA service (libs/common/services/ota) on top of the TFTP client:   *)
(* the update download, the check for a new image and its automatic        *)
(* update, the commands, the flash slot of the boot loader, and the OTA    *)
(* job that pauses the other modules of the main loop.                     *)
(*                                                                         *)
(* The commands of the web server, and the hooks of the TFTP client, run   *)
(* in the network interrupt: each is one step, taken between any two steps *)
(* of the main loop.  The commands of MQTT and of scripts run in the main  *)
(* loop, as long as no update pauses those modules.  The main loop is      *)
(* split where a step of the interrupt changes what it goes on to use: pc  *)
(* is where it is.                                                         *)
(*                                                                         *)
(*   "loop"      between two modules (tftp and ota take turns)             *)
(*   "checked"   ota_update_validate(): both digests match                 *)
(*   "marked"    ota_update_validate(): the slot is marked as valid        *)
(*   "applying"  ota_update_apply() is called: an automatic update, or a   *)
(*               command that found a new version                          *)
(*   "updating"  ota_udate_start_cmd() found no update running             *)
(*   "checking"  ota_udate_check_run() found neither update nor check      *)
(*   "scanning"  the file is named, tftp_clinet_new_job() is called        *)
(*   "claiming"  tftp_clinet_new_job(): slot claim of the table was free   *)
(*   "filled"    the job is in the table, `started` is not stored yet      *)
(***************************************************************************)
EXTENDS TftpClient, Integers

CONSTANTS
    Files,      \* images on the servers
    Good,       \* the images with a correct digest of their own
    Metas,      \* meta files on the servers
    MetaFile,   \* the image a meta file names
    MetaSha,    \* the image whose digest it gives; None: not a digest
    MetaVer,    \* its version, a triple
    MetaTime,   \* its build time
    MetaValid,  \* the meta files of this image and this device architecture
    Factory,    \* the image the device is delivered with
    VerOf,      \* PROJECT_VERSION of an image
    TimeOf,     \* BUILD_DATE and BUILD_TIME of an image
    Retries,    \* APPLY_RETRIES
    Commands,   \* the commands in use
    LoopCommands,   \* those of them that also come by MQTT or from a script
    Strategies  \* the strategies set by check_strategy

Broken == "broken"  \* an image that is not one: the device does not boot
Mixed == "mixed"    \* the blocks in flash do not start a file

Version == Nat \X Nat \X Nat

ASSUME OtaAssumption ==
    /\ Owners = {"update", "check"}
    /\ Sources = Files \cup Metas
    /\ Good \subseteq Files
    /\ Files \cap Metas = {}
    /\ {None, Junk, Mixed, Broken, Factory} \cap (Files \cup Metas) = {}
    /\ None \notin {Junk, Mixed}
    /\ Broken \notin {Factory, None, Junk, Mixed}
    /\ MetaFile \in [Metas -> Files]
    /\ MetaSha \in [Metas -> Files \cup {None}]
    /\ MetaVer \in [Metas -> Version]
    /\ MetaTime \in [Metas -> Nat]
    /\ MetaValid \subseteq Metas
    /\ VerOf \in [Files \cup {Factory} -> Version]
    /\ TimeOf \in [Files \cup {Factory} -> Nat]
    /\ Retries \in Nat
    /\ Commands \subseteq {"update", "check", "check_apply", "apply", "cancel"}
    /\ LoopCommands \subseteq Commands
    /\ Strategies \subseteq [newer : BOOLEAN, ver : BOOLEAN, time : BOOLEAN]

VARIABLES
    upd,    \* ota_context_t.update
    chk,    \* ota_context_t.check, with the parsed meta data
    strat,  \* check_newer, check_ver, check_time
    slot,   \* flash: the download slot
    image,  \* flash: the running image
    otaJob, \* OTA_JOB is set in job_state: the other modules are paused
    pc,     \* where the main loop is
    asker   \* on whose behalf it makes a job: "update", "check", "apply"; None

otaVars == <<upd, chk, strat, slot, image, otaJob, pc, asker>>
vars == <<jobs, xfer, dns, cur, claim, upd, chk, strat, slot, image, otaJob, pc, asker>>

\* ota_update_t.  sha is sha_verify, as the image it is the digest of; web is
\* web_idx >= 0: the answer of a web client is kept open for the update.
Update == [started : BOOLEAN, inProgress : BOOLEAN, ready : BOOLEAN,
           apply : BOOLEAN, web : BOOLEAN,
           sha : Files \cup {None}, file : Files \cup {None, Junk}]

\* ota_check_t.  buf is the meta file the buffer holds, parsed is
\* ota_update_mdata pointing into it.
Check == [started : BOOLEAN, inProgress : BOOLEAN, ready : BOOLEAN,
          newVersion : BOOLEAN, apply : 0..Retries,
          buf : Metas \cup {None}, parsed : BOOLEAN, file : Metas \cup {None}]

\* n blocks of src are in the slot; NBlocks + 1 is src with more behind it.
Content == [src : Sources \cup {None, Mixed}, n : 0..(NBlocks + 1)]

Slot == [valid : BOOLEAN, data : Content]

IdleUpdate == [started |-> FALSE, inProgress |-> FALSE, ready |-> FALSE,
               apply |-> FALSE, web |-> FALSE, sha |-> None, file |-> None]

IdleCheck == [started |-> FALSE, inProgress |-> FALSE, ready |-> FALSE,
              newVersion |-> FALSE, apply |-> 0,
              buf |-> None, parsed |-> FALSE, file |-> None]

\* sys_ota_init(): only newer versions, the build time does not matter.
DefaultStrategy == [newer |-> TRUE, ver |-> TRUE, time |-> FALSE]

\* pfb_mark_download_slot_as_invalid() and pfb_initialize_download_slot().
EmptySlot == [valid |-> FALSE, data |-> [src |-> None, n |-> 0]]

\* The main loop is in tftp_clinet_new_job() or on its way into or out of it.
Making == {"scanning", "claiming", "filled"}

TypeOK ==
    /\ TftpTypeOK
    /\ upd \in Update
    /\ chk \in Check
    /\ strat \in [newer : BOOLEAN, ver : BOOLEAN, time : BOOLEAN]
    /\ slot \in Slot
    /\ image \in Files \cup {Factory, Broken}
    /\ otaJob \in BOOLEAN
    /\ pc \in {"loop", "checked", "marked", "applying", "updating", "checking"} \cup Making
    /\ claim # 0 <=> pc = "claiming"
    /\ asker \in IF pc \in Making THEN {"update", "check", "apply"} ELSE {None}

Init ==
    /\ TftpInit
    /\ upd = IdleUpdate
    /\ chk = IdleCheck
    /\ strat = DefaultStrategy
    /\ slot = EmptySlot
    /\ image = Factory
    /\ otaJob = FALSE
    /\ pc = "loop"
    /\ asker = None

----
\* The update: what its functions do to update, slot and job_state, taken
\* together as a record r.

Now == [upd |-> upd, slot |-> slot, job |-> otaJob]

Becomes(r) ==
    /\ upd' = r.upd
    /\ slot' = r.slot
    /\ otaJob' = r.job

\* Mutant: the web client is not let go.
UpdateReset_KeepsWeb(r) ==
    [upd  |-> [r.upd EXCEPT !.started = FALSE, !.inProgress = FALSE,
                            !.ready = FALSE, !.sha = None],
     slot |-> IF r.upd.apply THEN r.slot ELSE EmptySlot,
     job  |-> r.job /\ r.upd.apply]

\* Mutant: the other modules stay paused.
UpdateReset_KeepsJob(r) ==
    [upd  |-> [r.upd EXCEPT !.started = FALSE, !.inProgress = FALSE,
                            !.ready = FALSE, !.sha = None, !.web = FALSE],
     slot |-> IF r.upd.apply THEN r.slot ELSE EmptySlot,
     job  |-> r.job]

\* ota_update_reset().
UpdateReset(r) ==
    [upd  |-> [r.upd EXCEPT !.started = FALSE, !.inProgress = FALSE,
                            !.ready = FALSE, !.sha = None, !.web = FALSE],
     slot |-> IF r.upd.apply THEN r.slot ELSE EmptySlot,
     job  |-> r.job /\ r.upd.apply]

\* Mutant: the slot is erased and keeps its mark.
UpdateOpen_KeepsMark(r) ==
    IF r.upd.started /\ r.upd.file # None
    THEN [upd  |-> [r.upd EXCEPT !.inProgress = TRUE],
          slot |-> [r.slot EXCEPT !.data = EmptySlot.data],
          job  |-> TRUE]
    ELSE r

\* ota_tftp_update_open(), called by the write hook with the update's own name.
UpdateOpen(r) ==
    IF r.upd.started /\ r.upd.file # None
    THEN [upd |-> [r.upd EXCEPT !.inProgress = TRUE], slot |-> EmptySlot, job |-> TRUE]
    ELSE r

\* The content of the slot once block b of file s is behind content c.
WithBlock(c, s, b) ==
    CASE c.n = 0 /\ b = 1 -> [src |-> s, n |-> 1]
      [] c.n \in 1..(NBlocks - 1) /\ c.src = s /\ b = c.n + 1 -> [src |-> s, n |-> b]
      [] c.n >= NBlocks -> [c EXCEPT !.n = NBlocks + 1]
      [] OTHER -> [src |-> Mixed, n |-> 1]

\* The write hook up to the flash: the slot is opened on the first block.
UpdateOpened(r) == IF r.upd.inProgress THEN r ELSE UpdateOpen(r)

\* ota_tftp_update_write() and ota_buff_commit(), the block taken.
UpdateWrite(r) ==
    LET o == UpdateOpened(r)
    IN  [o EXCEPT !.slot.data = WithBlock(@, xfer.src, xfer.blk)]

\* Mutant: nothing to close before the first block.
UpdateClose_KeepsStarted(r) == IF r.upd.inProgress THEN [r EXCEPT !.upd.ready = TRUE] ELSE r

\* ota_tftp_update_close().
UpdateClose(r) ==
    IF r.upd.inProgress THEN [r EXCEPT !.upd.ready = TRUE] ELSE UpdateReset(r)

----
\* The check: what its functions do to check.

\* ota_check_reset().
CheckReset(c) ==
    [c EXCEPT !.started = FALSE, !.inProgress = FALSE, !.ready = FALSE,
              !.newVersion = FALSE, !.apply = 0, !.parsed = FALSE]

\* Mutant: the buffer is opened for a check that is over.
CheckOpened_Always(c) ==
    IF c.inProgress THEN c ELSE [c EXCEPT !.inProgress = TRUE, !.buf = None]

\* ota_tftp_check_open(), called by the write hook.
CheckOpened(c) ==
    IF c.inProgress \/ ~c.started THEN c ELSE [c EXCEPT !.inProgress = TRUE, !.buf = None]

\* ota_tftp_check_write(): what is written goes behind what is there, and
\* strstr() finds the first of two meta files.  An image is no meta file.
CheckWrite(c) ==
    LET o == CheckOpened(c)
    IN  [o EXCEPT !.buf = IF @ = None /\ xfer.src \in Metas THEN xfer.src ELSE @]

\* ota_tftp_check_close().
CheckClose(c) == IF c.inProgress THEN [c EXCEPT !.ready = TRUE] ELSE CheckReset(c)

\* Version v is newer than version w.
Newer(v, w) ==
    \/ v[1] > w[1]
    \/ v[1] = w[1] /\ v[2] > w[2]
    \/ v[1] = w[1] /\ v[2] = w[2] /\ v[3] > w[3]

\* Mutant: the middle number is compared whatever the major one is.
IsNew_MiddleFirst(m) ==
    LET v == MetaVer[m]
        w == VerOf[image]
    IN  strat.ver /\ (v[1] > w[1] \/ v[2] > w[2])

\* ota_meta_check_update(): `new`, from the strategy, the meta file and the
\* version and build time of the running image.
IsNew(m) ==
    \/ /\ strat.ver
       /\ IF strat.newer THEN Newer(MetaVer[m], VerOf[image]) ELSE MetaVer[m] # VerOf[image]
    \/ /\ strat.time
       /\ IF strat.newer THEN MetaTime[m] > TimeOf[image] ELSE MetaTime[m] # TimeOf[image]

----
\* The network interrupt: the hooks of the job that is lwIP's handle.

\* A meta file fits in one block.
LastBlock(s) == IF s \in Metas THEN 1 ELSE NBlocks

\* A full block of an image does not fit in the buffer of the check.
CheckTakes == CheckOpened(chk).inProgress /\ (xfer.src \in Files => xfer.blk = NBlocks)

\* The write hook takes a block that is not the last one.
Block(i) ==
    /\ PacketNext(i) /\ xfer.blk < LastBlock(xfer.src)
    /\ \/ /\ jobs[i].owner = "update" /\ UpdateOpened(Now).upd.inProgress
          /\ Becomes(UpdateWrite(Now))
          /\ UNCHANGED chk
       \/ /\ jobs[i].owner = "check" /\ CheckTakes
          /\ chk' = CheckWrite(chk)
          /\ UNCHANGED <<upd, slot, otaJob>>
    /\ UNCHANGED <<strat, image, pc, asker>>

\* The last block: the write hook, then the close hook.
LastBlockTaken(i) ==
    /\ PacketEnd(i) /\ xfer.src # None /\ xfer.blk = LastBlock(xfer.src)
    /\ \/ /\ jobs[i].owner = "update" /\ UpdateOpened(Now).upd.inProgress
          /\ Becomes(UpdateClose(UpdateWrite(Now)))
          /\ UNCHANGED chk
       \/ /\ jobs[i].owner = "check" /\ CheckTakes
          /\ chk' = CheckClose(CheckWrite(chk))
          /\ UNCHANGED <<upd, slot, otaJob>>
    /\ UNCHANGED <<strat, image, pc, asker>>

\* The close hook with no block stored: lwIP gave the transfer up, or (opened)
\* the write hook refused the block or the server's file ends here.
EndsEarly(i, opened) ==
    /\ PacketEnd(i) /\ (opened => xfer.src # None)
    /\ \/ /\ jobs[i].owner = "update"
          /\ Becomes(UpdateClose(IF opened THEN UpdateOpened(Now) ELSE Now))
          /\ UNCHANGED chk
       \/ /\ jobs[i].owner = "check"
          /\ chk' = CheckClose(IF opened THEN CheckOpened(chk) ELSE chk)
          /\ UNCHANGED <<upd, slot, otaJob>>
    /\ UNCHANGED <<strat, image, pc, asker>>

\* ota_tftp_update_error() and ota_tftp_check_error(), for job i.
ErrorHook(i) ==
    \/ jobs[i].owner = "update" /\ Becomes(UpdateReset(Now)) /\ UNCHANGED chk
    \/ jobs[i].owner = "check" /\ chk' = CheckReset(chk) /\ UNCHANGED <<upd, slot, otaJob>>

\* An error packet of the server.
ErrorPacket(i) ==
    /\ PacketEnd(i)
    /\ ErrorHook(i)
    /\ UNCHANGED <<strat, image, pc, asker>>

NameFound == \E q \in dns, found \in BOOLEAN : PeerFound(q, found)

\* What lwIP tells the tftp module only: a packet of a job that is gone, or the
\* answer of a name query.
TftpOnly ==
    /\ PacketOrphan \/ NameFound
    /\ UNCHANGED otaVars

----
\* The main loop in the tftp module.

\* What the server sends for job i: all update jobs share update.file, all
\* check jobs share check.file.  None: the server has no such file.
FileOf(i) ==
    IF jobs[i].owner = "check" THEN chk.file
    ELSE IF upd.file = Junk THEN None ELSE upd.file

TftpRun(i) ==
    /\ pc = "loop"
    /\ \/ JobResolved(i)
       \/ JobResolving(i)
       \/ JobRequest(i, FileOf(i))
       \/ JobRequested(i)
    /\ UNCHANGED otaVars

TftpFailed(i) ==
    /\ pc = "loop"
    /\ JobFailed(i)
    /\ ErrorHook(i)
    /\ UNCHANGED <<strat, image, pc, asker>>

----
\* The main loop in the ota module: sys_ota_run().

InOta == pc = "loop" /\ cur = 0

\* Mutant: only the digest of the meta file is looked at.
DigestsMatch_MetaOnly == upd.sha \in {None, slot.data.src}

\* The digest of the meta file, when there is one, is the one of what was
\* received, and the image in flash carries its own digest.
DigestsMatch ==
    /\ slot.data.n = NBlocks
    /\ slot.data.src \in Good
    /\ upd.sha \in {None, slot.data.src}

\* ota_update_validate() as far as the checks.
UpdateChecked ==
    /\ InOta /\ upd.started /\ ~upd.apply /\ upd.ready
    /\ DigestsMatch
    /\ pc' = "checked"
    /\ UNCHANGED <<tftpVars, upd, chk, strat, slot, image, otaJob, asker>>

\* Mutant: the return without the reset.
UpdateRejected_NoReset ==
    /\ InOta /\ upd.started /\ ~upd.apply /\ upd.ready
    /\ ~DigestsMatch
    /\ UNCHANGED vars

\* A digest does not match: goto out.
UpdateRejected ==
    /\ InOta /\ upd.started /\ ~upd.apply /\ upd.ready
    /\ ~DigestsMatch
    /\ Becomes(UpdateReset(Now))
    /\ UNCHANGED <<tftpVars, chk, strat, image, pc, asker>>

\* pfb_mark_download_slot_as_valid(), whatever the slot holds by now.
MarkValid ==
    /\ pc = "checked"
    /\ slot' = [slot EXCEPT !.valid = TRUE]
    /\ pc' = "marked"
    /\ UNCHANGED <<tftpVars, upd, chk, strat, image, otaJob, asker>>

\* update->apply is set, then ota_update_reset() leaves the slot alone.
ScheduleApply ==
    /\ pc = "marked"
    /\ Becomes(UpdateReset([Now EXCEPT !.upd.apply = TRUE]))
    /\ pc' = "loop"
    /\ UNCHANGED <<tftpVars, chk, strat, image, asker>>

\* UPDATE_TIMEOUT_MS after the start of the update.  Its job stays.
UpdateTimeout ==
    /\ InOta /\ upd.started /\ ~upd.apply /\ ~upd.ready
    /\ Becomes(UpdateReset(Now))
    /\ UNCHANGED <<tftpVars, chk, strat, image, pc, asker>>

\* ota_check_run() with the meta file received: ota_meta_parse(),
\* ota_meta_validate() and ota_meta_check_update().
CheckReady ==
    /\ InOta /\ ~upd.started /\ ~upd.apply /\ chk.started /\ chk.ready
    /\ chk' = IF chk.buf \in MetaValid
              THEN [chk EXCEPT !.parsed = TRUE, !.newVersion = IsNew(chk.buf),
                               !.inProgress = FALSE, !.started = FALSE]
              ELSE CheckReset(chk)
    /\ UNCHANGED <<tftpVars, upd, strat, slot, image, otaJob, pc, asker>>

\* Mutant: the time is looked at only once the meta file is coming in.
CheckTimeout_InProgress ==
    /\ InOta /\ ~upd.started /\ ~upd.apply /\ chk.started /\ ~chk.ready
    /\ chk.inProgress
    /\ chk' = CheckReset(chk)
    /\ UNCHANGED <<tftpVars, upd, strat, slot, image, otaJob, pc, asker>>

\* UPDATE_TIMEOUT_MS after the start of the check.
CheckTimeout ==
    /\ InOta /\ ~upd.started /\ ~upd.apply /\ chk.started /\ ~chk.ready
    /\ chk' = CheckReset(chk)
    /\ UNCHANGED <<tftpVars, upd, strat, slot, image, otaJob, pc, asker>>

\* Mutant: the retries are not looked at.
AutoApply_NoLimit ==
    /\ InOta /\ ~upd.started /\ ~upd.apply /\ ~chk.started
    /\ chk.newVersion
    /\ chk' = [chk EXCEPT !.apply = @ - 1]
    /\ pc' = "applying"
    /\ UNCHANGED <<tftpVars, upd, strat, slot, image, otaJob, asker>>

\* The new version is to be applied by itself: one retry is used up.
AutoApply ==
    /\ InOta /\ ~upd.started /\ ~upd.apply /\ ~chk.started
    /\ chk.newVersion /\ chk.apply > 0
    /\ chk' = [chk EXCEPT !.apply = @ - 1]
    /\ pc' = "applying"
    /\ UNCHANGED <<tftpVars, upd, strat, slot, image, otaJob, asker>>

\* ota_update_apply(): the update's file and digest, from the meta data.  If
\* a check has just cleared the pointers, what is at address 0 is the name.
WithMeta(u) ==
    IF chk.parsed
    THEN [u EXCEPT !.file = MetaFile[chk.buf],
                   !.sha = IF MetaSha[chk.buf] = None THEN @ ELSE MetaSha[chk.buf]]
    ELSE [u EXCEPT !.file = Junk]

\* ota_update_apply() in the main loop, up to tftp_file_get().
ApplyNamed ==
    /\ pc = "applying"
    /\ upd' = WithMeta(upd)
    /\ pc' = "scanning" /\ asker' = "apply"
    /\ UNCHANGED <<tftpVars, chk, strat, slot, image, otaJob>>

----
\* The commands of MQTT and of scripts, in the main loop.

\* A broken image runs nothing: no command is taken and the device stops.
Alive == image # Broken

\* sys_modules_run() skips the modules that run commands while OTA_JOB is set.
LoopTakes(c) == InOta /\ Alive /\ ~otaJob /\ c \in LoopCommands

\* ota_udate_start_cmd(): no update is running ...
LoopUpdate ==
    /\ LoopTakes("update") /\ ~upd.started
    /\ pc' = "updating"
    /\ UNCHANGED <<tftpVars, upd, chk, strat, slot, image, otaJob, asker>>

\* ... and the file is named, or the parameters are wrong.
UpdateNamed(f) ==
    /\ pc = "updating"
    /\ upd' = [upd EXCEPT !.file = f]
    /\ pc' = "scanning" /\ asker' = "update"
    /\ UNCHANGED <<tftpVars, chk, strat, slot, image, otaJob>>

UpdateMisnamed ==
    /\ pc = "updating"
    /\ Becomes(UpdateReset(Now))
    /\ pc' = "loop"
    /\ UNCHANGED <<tftpVars, chk, strat, image, asker>>

\* ota_udate_check_run(): neither an update nor a check is running ...
LoopCheck ==
    /\ LoopTakes("check") \/ LoopTakes("check_apply")
    /\ ~upd.started /\ ~chk.started
    /\ pc' = "checking"
    /\ UNCHANGED <<tftpVars, upd, chk, strat, slot, image, otaJob, asker>>

\* ... the last check is reset and the meta file named, or not.
CheckNamed(m, n) ==
    /\ pc = "checking"
    /\ n \in {k \in {0, Retries} : (IF k = 0 THEN "check" ELSE "check_apply") \in LoopCommands}
    /\ chk' = [CheckReset(chk) EXCEPT !.file = m, !.apply = n]
    /\ pc' = "scanning" /\ asker' = "check"
    /\ UNCHANGED <<tftpVars, upd, strat, slot, image, otaJob>>

CheckMisnamed ==
    /\ pc = "checking"
    /\ chk' \in {CheckReset(chk), [CheckReset(chk) EXCEPT !.file = None]}
    /\ pc' = "loop"
    /\ UNCHANGED <<tftpVars, upd, strat, slot, image, otaJob, asker>>

\* ota_udate_apply_cmd() with a new version.
LoopApply ==
    /\ LoopTakes("apply") /\ chk.newVersion
    /\ pc' = "applying"
    /\ UNCHANGED <<tftpVars, upd, chk, strat, slot, image, otaJob, asker>>

\* tftp_clinet_new_job() finds no free job: each caller gives up in its way.
JobRefused ==
    /\ pc = "scanning" /\ FreeSlots = {}
    /\ \/ asker = "update" /\ Becomes(UpdateReset(Now)) /\ UNCHANGED chk
       \/ asker = "apply" /\ upd' = [upd EXCEPT !.file = None] /\ UNCHANGED <<chk, slot, otaJob>>
       \/ asker = "check" /\ chk' = CheckReset(chk) /\ UNCHANGED <<upd, slot, otaJob>>
    /\ pc' = "loop" /\ asker' = None
    /\ UNCHANGED <<tftpVars, strat, image>>

\* It finds a free job ...
JobClaimed ==
    /\ pc = "scanning" /\ ScanJobs
    /\ pc' = "claiming"
    /\ UNCHANGED <<upd, chk, strat, slot, image, otaJob, asker>>

\* ... fills it, even if a command of the web server has taken it meanwhile ...
JobFilled ==
    /\ pc = "claiming" /\ FillJob(IF asker = "check" THEN "check" ELSE "update")
    /\ pc' = "filled"
    /\ UNCHANGED <<upd, chk, strat, slot, image, otaJob, asker>>

\* ... and its caller stores `started`, even if the job has ended meanwhile.  Of
\* the callers only ota_udate_start_cmd() stores web_idx: no web client waits.
StartStored ==
    /\ pc = "filled"
    /\ \/ /\ asker # "check"
          /\ upd' = [upd EXCEPT !.started = TRUE, !.web = @ /\ asker = "apply"]
          /\ UNCHANGED chk
       \/ asker = "check" /\ chk' = [chk EXCEPT !.started = TRUE] /\ UNCHANGED upd
    /\ pc' = "loop" /\ asker' = None
    /\ UNCHANGED <<tftpVars, strat, slot, image, otaJob>>

----
\* Restarts.  The boot loader swaps in a slot that is marked as valid, and
\* sys_ota_init() erases the slot.  It is modelled from its use only.

Intact(s) == s.data.src \in Good /\ s.data.n >= NBlocks

Booted ==
    IF ~slot.valid THEN image ELSE IF Intact(slot) THEN slot.data.src ELSE Broken

Reboot ==
    /\ image' = Booted
    /\ jobs' = [i \in Slots |-> FreeJob]
    /\ xfer' = NoTransfer
    /\ dns' = {}
    /\ cur' = 0
    /\ claim' = 0
    /\ upd' = IdleUpdate
    /\ chk' = IdleCheck
    /\ strat' = DefaultStrategy
    /\ slot' = EmptySlot
    /\ otaJob' = FALSE
    /\ pc' = "loop"
    /\ asker' = None

\* ota_update_run(), APPLY_DELAY_MS after the image was found valid:
\* pfb_perform_update().
PerformUpdate == InOta /\ upd.apply /\ Reboot

\* A power loss, or the watchdog, at any moment.
Crash == Alive /\ Reboot

----
\* The commands of the web server, in the interrupt.  UpdateCmdWrong, StrategyCmd
\* and CancelCmd are also those of MQTT and of scripts.

\* ota_udate_start_cmd(): file f is named.
UpdateCmd(f) ==
    /\ Alive /\ "update" \in Commands /\ ~upd.started
    /\ \/ /\ NewJob("update")
          /\ upd' = [upd EXCEPT !.file = f, !.started = TRUE, !.web = TRUE]
          /\ UNCHANGED <<slot, otaJob>>
       \/ /\ FreeSlots = {}
          /\ Becomes(UpdateReset([Now EXCEPT !.upd.file = f]))
          /\ UNCHANGED tftpVars
    /\ UNCHANGED <<chk, strat, image, pc, asker>>

\* Parameters that are no URL.
UpdateCmdWrong ==
    /\ Alive /\ "update" \in Commands /\ ~upd.started
    /\ Becomes(UpdateReset(Now))
    /\ UNCHANGED <<tftpVars, chk, strat, image, pc, asker>>

\* ota_udate_check_run() for meta file m, with n retries to apply it.  The last
\* disjunct: no ":", or a name that is no URL, which clears the file as well.
CheckRun(m, n) ==
    /\ Alive /\ ~upd.started /\ ~chk.started
    /\ \/ /\ NewJob("check")
          /\ chk' = [CheckReset(chk) EXCEPT !.file = m, !.apply = n, !.started = TRUE]
       \/ /\ FreeSlots = {}
          /\ chk' = [CheckReset(chk) EXCEPT !.file = m]
          /\ UNCHANGED tftpVars
       \/ /\ chk' \in {CheckReset(chk), [CheckReset(chk) EXCEPT !.file = None]}
          /\ UNCHANGED tftpVars
    /\ UNCHANGED <<upd, strat, slot, image, otaJob, pc, asker>>

CheckCmd(m) == "check" \in Commands /\ CheckRun(m, 0)

CheckApplyCmd(m) == "check_apply" \in Commands /\ CheckRun(m, Retries)

\* ota_udate_apply_cmd(): ota_update_apply(), whatever is running.
ApplyCmd ==
    /\ "apply" \in Commands /\ chk.newVersion
    /\ \/ NewJob("update") /\ upd' = [WithMeta(upd) EXCEPT !.started = TRUE]
       \/ /\ FreeSlots = {}
          /\ upd' = [WithMeta(upd) EXCEPT !.file = None]
          /\ UNCHANGED tftpVars
    /\ UNCHANGED <<chk, strat, slot, image, otaJob, pc, asker>>

\* ota_udate_strategy_cmd() and ota_check_set_strategy().
StrategyCmd(st) ==
    /\ Alive /\ strat' = st
    /\ UNCHANGED <<tftpVars, upd, chk, slot, image, otaJob, pc, asker>>

\* ota_udate_cancel_cmd(): ota_update_reset(), and then update.apply.
CancelCmd ==
    /\ Alive /\ "cancel" \in Commands
    /\ LET r == UpdateReset(Now) IN Becomes([r EXCEPT !.upd.apply = FALSE])
    /\ UNCHANGED <<tftpVars, chk, strat, image, pc, asker>>

----
\* The specification.

OtaRun ==
    \/ UpdateChecked \/ UpdateRejected \/ MarkValid \/ ScheduleApply
    \/ UpdateTimeout \/ PerformUpdate
    \/ CheckReady \/ CheckTimeout
    \/ AutoApply

\* The main loop, once it is in a command or in ota_update_apply().
CommandSteps ==
    \/ \E f \in Files : UpdateNamed(f)
    \/ UpdateMisnamed
    \/ \E m \in Metas, n \in 0..Retries : CheckNamed(m, n)
    \/ CheckMisnamed
    \/ ApplyNamed
    \/ JobRefused \/ JobClaimed \/ JobFilled \/ StartStored

LoopCommand == LoopUpdate \/ LoopCheck \/ LoopApply

Hooks ==
    \/ \E i \in Slots :
          \/ Block(i) \/ LastBlockTaken(i) \/ ErrorPacket(i)
          \/ \E opened \in BOOLEAN : EndsEarly(i, opened)
    \/ TftpOnly

Command ==
    \/ \E f \in Files : UpdateCmd(f)
    \/ UpdateCmdWrong
    \/ \E m \in Metas : CheckCmd(m) \/ CheckApplyCmd(m)
    \/ ApplyCmd
    \/ \E st \in Strategies : StrategyCmd(st)
    \/ CancelCmd

Next ==
    \/ \E i \in Slots : TftpRun(i) \/ TftpFailed(i)
    \/ OtaRun
    \/ LoopCommand
    \/ CommandSteps
    \/ Hooks
    \/ Command
    \/ Crash

Spec == Init /\ [][Next]_vars

\* The main loop runs for ever: once in a function it goes on, and it comes
\* back to every started job and to each branch of sys_ota_run(), although
\* commands and packets keep coming between two passes.
FairSpec ==
    /\ Spec
    /\ \A i \in Slots : SF_vars(TftpRun(i) \/ TftpFailed(i))
    /\ WF_vars(MarkValid \/ ScheduleApply \/ CommandSteps)
    /\ SF_vars(UpdateChecked \/ UpdateRejected \/ UpdateTimeout)
    /\ SF_vars(PerformUpdate)
    /\ SF_vars(CheckReady \/ CheckTimeout)

----
\* Properties.

\* A slot that the boot loader would swap in is not taken apart while it is
\* marked: ota_tftp_update_open() and ota_update_reset() take the mark away
\* before they erase, and late packets only write behind the image.  A power
\* loss then boots either the old image or the whole new one.
ValidSlotFrozen ==
    [][slot.valid /\ Intact(slot) /\ slot'.valid => Intact(slot')]_vars

\* The device never boots an image that failed a check in
\* ota_update_validate(): truncated, mixed from two transfers, erased, or
\* one the check of the boot loader's own digest refuses.
NeverBootBroken == image # Broken

\* The slot as the boot loader sees it.
Firmware == INSTANCE FirmwareSlot WITH
    Images <- Good, First <- Factory, Nothing <- None,
    running <- image,
    candidate <- IF slot.valid THEN slot.data.src ELSE None

\* The OTA service implements FirmwareSlot: whatever comes between the checks
\* of ota_update_validate(), the mark and the restart, what is marked is one
\* image that passed the checks, its mark never passes to another image, and
\* a restart at any moment runs this image or the one before it.
FirmwareSpec == Firmware!FwSpec

\* An update waits for its image, and a job can still deliver it.
Waits == upd.started /\ ~upd.ready
HasJob == \E i \in Slots : jobs[i].owner = "update"

\* An update that waits for its image has a job that can still deliver it, also
\* when it has several: no job ends without ota_tftp_update_close() or
\* ota_tftp_update_error() ending the wait.  There are two ways out, both of the
\* main loop, which ota_update_run()'s timeout then ends: the memset of
\* tftp_clinet_new_job() for a check, in a slot that was free at the scan and
\* taken by the update since, and the store of `started` for a job that a late
\* packet has ended since it was made.
UpdateKeepsJob ==
    [][(Waits /\ ~HasJob)' =>
          \/ Waits /\ ~HasJob
          \/ pc = "claiming" /\ asker = "check" /\ jobs[claim].owner = "update"
          \/ pc = "filled" /\ asker # "check" /\ ~HasJob]_vars

\* The web client web_idx names, kept open by ota_udate_start_cmd(), is let go
\* when the update ends, in whichever of its ways.
KeptClientHasUpdate == upd.web => upd.started

\* A new version that is announced, and that `apply` would install, is in the
\* buffer: the pointers of ota_update_mdata are set for it, and from there to
\* ota_check_reset() the buffer they point into holds a validated meta file
\* that no late packet of an older check can write over.
AnnouncedMeta ==
    /\ chk.newVersion => chk.parsed
    /\ chk.parsed => /\ chk.buf \in MetaValid /\ chk.ready
                     /\ ~chk.started /\ ~chk.inProgress

\* The images installed by check_apply and apply, under the default strategy,
\* never go back to an older version, whatever jobs and packets are late.
NoDowngrade == [][image' \notin {image, Broken} => Newer(VerOf[image'], VerOf[image])]_vars

\* Both parts of the strategy :new:version:time are asked of a new image
\* (ota/README.md).  The code does not keep this: ota_meta_check_update() takes either.
NewerInBoth ==
    [][~chk.newVersion /\ chk'.newVersion /\ strat = [newer |-> TRUE, ver |-> TRUE, time |-> TRUE]
       => /\ Newer(MetaVer[chk'.buf], VerOf[image])
          /\ MetaTime[chk'.buf] > TimeOf[image]]_vars

\* The modules of the device are paused only while an update is running or
\* about to be booted.
PausedOnlyForUpdate ==
    otaJob => upd.started \/ upd.apply \/ pc \in {"checked", "marked"}

\* Every pause of the other modules ends, by the end of the update or by the
\* restart into the new image.
PauseEnds == []<>(~otaJob)

\* Every check ends, also one whose job was lost to the memset of another.
CheckEnds == []<>(~chk.started)

\* Every update ends.
UpdateEnds == []<>(~upd.started)
====
