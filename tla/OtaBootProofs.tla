---- MODULE OtaBootProofs ----
(***************************************************************************)
(* Proofs about the download slot and the image the device boots.          *)
(***************************************************************************)
EXTENDS OtaProofs

\* What a slot marked as valid, and its successor, have in common.
Kept(s, t) == s.valid /\ Intact(s) /\ t.valid => Intact(t)

\* ota_update_reset(), the close hook and the open of the slot leave it alone
\* or take its mark away.
LEMMA SlotOrEmpty ==
    ASSUME NEW r \in Rec
    PROVE  /\ UpdateReset(r).slot \in {r.slot, EmptySlot}
           /\ UpdateOpened(r).slot \in {r.slot, EmptySlot}
           /\ UpdateClose(r).slot \in {r.slot, EmptySlot}
BY DEF UpdateReset, UpdateOpened, UpdateOpen, UpdateClose, Rec

\* A block behind a complete image leaves it complete.
LEMMA WithBlockIntact ==
    ASSUME NEW c \in Content, NEW s, NEW b, c.n >= NBlocks
    PROVE  WithBlock(c, s, b).src = c.src /\ WithBlock(c, s, b).n >= NBlocks
<1>1. c.n # 0 /\ c.n \notin 1..(NBlocks - 1)
  BY TftpAssumption DEF Content
<1>2. WithBlock(c, s, b) = [c EXCEPT !.n = NBlocks + 1]
  BY <1>1 DEF WithBlock
<1> QED
  BY <1>2, TftpAssumption DEF Content

\* The write hook keeps the mark, and with it the image.
LEMMA WriteKeeps ==
    ASSUME NEW r \in Rec
    PROVE  /\ UpdateWrite(r).slot.valid = UpdateOpened(r).slot.valid
           /\ Intact(UpdateOpened(r).slot) =>
                /\ Intact(UpdateWrite(r).slot)
                /\ UpdateWrite(r).slot.data.src = UpdateOpened(r).slot.data.src
<1> DEFINE o == UpdateOpened(r)
           d == WithBlock(o.slot.data, xfer.src, xfer.blk)
<1>1. o \in Rec
  BY OpenedType
<1>2. UpdateWrite(r).slot = [o.slot EXCEPT !.data = d]
  BY <1>1 DEF UpdateWrite, Rec
<1>3. UpdateWrite(r).slot.valid = o.slot.valid /\ UpdateWrite(r).slot.data = d
  <2>1. o.slot \in Slot
    BY <1>1 DEF Rec
  <2> HIDE DEF d, o
  <2> QED
    BY <1>2, <2>1 DEF Slot
<1>4. ASSUME Intact(o.slot)
      PROVE  Intact(UpdateWrite(r).slot) /\ UpdateWrite(r).slot.data.src = o.slot.data.src
  <2>1. o.slot.data \in Content /\ o.slot.data.n >= NBlocks /\ o.slot.data.src \in Good
    BY <1>1, <1>4 DEF Rec, Slot, Intact
  <2>2. d.src = o.slot.data.src /\ d.n >= NBlocks
    BY <2>1, WithBlockIntact
  <2> QED
    BY <1>3, <2>1, <2>2 DEF Intact
<1> QED
  BY <1>3, <1>4

\* What one step does to the slot: nothing, an erase that takes the mark
\* away, a block, or the mark.
SlotStep ==
    \/ slot' \in {slot, EmptySlot}
    \/ slot' = UpdateWrite(Now).slot
    \/ slot' = [slot EXCEPT !.valid = TRUE] /\ pc = "checked"

\* Every step of the system does one of these to the slot.
LEMMA EverySlotStep == TypeOK /\ [Next]_vars => SlotStep
<1> SUFFICES ASSUME TypeOK, [Next]_vars PROVE SlotStep
  OBVIOUS
<1>0. Now \in Rec /\ Now.slot = slot
  BY NowType DEF Now
<1>1. CASE UNCHANGED slot
  BY <1>1 DEF SlotStep
<1>2. CASE Becomes(UpdateReset(Now))
  BY <1>0, <1>2, SlotOrEmpty DEF Becomes, SlotStep
<1>3. ASSUME Reboot PROVE SlotStep
  BY <1>3 DEF Reboot, SlotStep
<1>4. ASSUME NEW i \in Slots, TftpRun(i) \/ TftpFailed(i) PROVE SlotStep
  BY <1>1, <1>2, <1>4 DEF TftpRun, TftpFailed, ErrorHook, otaVars
<1>5. CASE Hooks
  <2>1. ASSUME NEW i \in Slots, Block(i) PROVE SlotStep
    BY <1>1, <2>1 DEF Block, Becomes, SlotStep
  <2>2. ASSUME NEW i \in Slots, LastBlockTaken(i) PROVE SlotStep
    <3>1. UpdateWrite(Now) \in Rec
      BY <1>0, <2>2, WriteType DEF LastBlockTaken, TypeOK, TftpTypeOK
    <3> QED
      BY <1>1, <2>2, <3>1, SlotOrEmpty DEF LastBlockTaken, Becomes, SlotStep
  <2>3. ASSUME NEW i \in Slots, NEW opened \in BOOLEAN, EndsEarly(i, opened) PROVE SlotStep
    <3>1. CASE UNCHANGED slot
      BY <1>1, <3>1
    <3>2. CASE Becomes(UpdateClose(IF opened THEN UpdateOpened(Now) ELSE Now))
      <4>1. UpdateOpened(Now) \in Rec /\ UpdateOpened(Now).slot \in {slot, EmptySlot}
        BY <1>0, OpenedType, SlotOrEmpty
      <4> QED
        BY <1>0, <3>2, <4>1, SlotOrEmpty DEF Becomes, SlotStep
    <3> QED
      BY <2>3, <3>1, <3>2 DEF EndsEarly
  <2>4. ASSUME NEW i \in Slots, ErrorPacket(i) PROVE SlotStep
    BY <1>1, <1>2, <2>4 DEF ErrorPacket, ErrorHook
  <2> QED
    BY <1>1, <1>5, <2>1, <2>2, <2>3, <2>4 DEF Hooks, TftpOnly, NameFound, otaVars
<1>6. CASE OtaRun
  <2>1. CASE ScheduleApply
    <3>1. [Now EXCEPT !.upd.apply = TRUE] \in Rec /\ [Now EXCEPT !.upd.apply = TRUE].slot = slot
      BY <1>0 DEF Rec, Update
    <3> QED
      BY <2>1, <3>1, SlotOrEmpty DEF ScheduleApply, Becomes, SlotStep
  <2>2. CASE MarkValid
    BY <2>2 DEF MarkValid, SlotStep
  <2> QED
    BY <1>1, <1>2, <1>3, <1>6, <2>1, <2>2
    DEF OtaRun, UpdateChecked, UpdateRejected, UpdateTimeout, PerformUpdate, CheckReady,
        CheckTimeout, AutoApply
<1>8. CASE LoopCommand \/ CommandSteps
  BY <1>1, <1>2, <1>8
  DEF LoopCommand, CommandSteps, LoopUpdate, LoopCheck, LoopApply, UpdateNamed, UpdateMisnamed,
      CheckNamed, CheckMisnamed, ApplyNamed, JobRefused, JobClaimed, JobFilled, StartStored
<1>7. CASE Command
  <2>1. ASSUME NEW f \in Files, UpdateCmd(f) PROVE SlotStep
    <3>1. [Now EXCEPT !.upd.file = f] \in Rec /\ [Now EXCEPT !.upd.file = f].slot = slot
      BY <1>0 DEF Rec, Update
    <3> QED
      BY <1>1, <2>1, <3>1, SlotOrEmpty DEF UpdateCmd, Becomes, SlotStep
  <2>2. CASE CancelCmd
    <3>1. UpdateReset(Now) \in Rec /\ UpdateReset(Now).slot \in {slot, EmptySlot}
      BY <1>0, ResetType, SlotOrEmpty
    <3> QED
      BY <2>2, <3>1 DEF CancelCmd, Becomes, SlotStep, Rec
  <2> QED
    BY <1>1, <1>2, <1>7, <2>1, <2>2
    DEF Command, UpdateCmdWrong, CheckCmd, CheckApplyCmd, CheckRun, ApplyCmd, StrategyCmd
<1> QED
  BY <1>1, <1>3, <1>4, <1>5, <1>6, <1>7, <1>8 DEF Next, vars, Crash

\* A step keeps the image of a slot that stays marked.
LEMMA StepKeeps == TypeOK /\ [Next]_vars => Kept(slot, slot')
<1> SUFFICES ASSUME TypeOK, [Next]_vars, slot.valid, Intact(slot), slot'.valid
             PROVE  Intact(slot')
  BY DEF Kept
<1>0. Now \in Rec /\ Now.slot = slot /\ slot \in Slot
  BY NowType DEF Now, TypeOK
<1>1. ~EmptySlot.valid
  BY DEF EmptySlot
<1>2. CASE slot' = UpdateWrite(Now).slot
  BY <1>0, <1>1, <1>2, WriteKeeps, SlotOrEmpty
<1>3. CASE slot' = [slot EXCEPT !.valid = TRUE]
  BY <1>0, <1>3 DEF Slot, Intact
<1> QED
  BY <1>1, <1>2, <1>3, EverySlotStep DEF SlotStep

\* A slot that is marked as valid is never taken apart: the mark goes first.
THEOREM ValidSlotStaysFrozen == Spec => ValidSlotFrozen
<1>1. TypeOK /\ [Next]_vars => [slot.valid /\ Intact(slot) /\ slot'.valid => Intact(slot')]_vars
  BY StepKeeps DEF Kept
<1> QED
  BY <1>1, TypeCorrect, PTL DEF Spec, ValidSlotFrozen

----
\* What the boot loader finds, for any number of jobs and all commands: it is an
\* intact image unless a step between the checks of ota_update_validate() and
\* the mark takes the checked image apart.

\* No step that comes between the checks and the mark does.
UndisturbedCheck == [][pc = "checked" /\ pc' = "checked" => Intact(slot')]_vars

\* The inductive invariant: what is marked is intact, and the checks still hold
\* while the mark is on its way.
SlotInv ==
    /\ slot.valid => Intact(slot)
    /\ pc = "checked" => Intact(slot)

\* The checks are entered by ota_update_validate() only.
LEMMA CheckedStep == [Next]_vars /\ pc' = "checked" => pc = "checked" \/ UpdateChecked
<1> SUFFICES ASSUME [Next]_vars, pc' = "checked", ~UpdateChecked PROVE UNCHANGED pc
  OBVIOUS
<1>1. ~Reboot
  BY DEF Reboot
<1>2. CASE OtaRun
  BY <1>1, <1>2
  DEF OtaRun, UpdateRejected, MarkValid, ScheduleApply, UpdateTimeout,
      PerformUpdate, CheckReady, CheckTimeout, AutoApply
<1>6. CASE LoopCommand \/ CommandSteps
  BY <1>6
  DEF LoopCommand, CommandSteps, LoopUpdate, LoopCheck, LoopApply, UpdateNamed, UpdateMisnamed,
      CheckNamed, CheckMisnamed, ApplyNamed, JobRefused, JobClaimed, JobFilled, StartStored
<1>3. CASE Hooks
  BY <1>3
  DEF Hooks, Block, LastBlockTaken, EndsEarly, ErrorPacket, TftpOnly, NameFound, otaVars
<1>4. CASE Command
  BY <1>4
  DEF Command, UpdateCmd, UpdateCmdWrong, CheckCmd, CheckApplyCmd, CheckRun, ApplyCmd,
      StrategyCmd, CancelCmd
<1>5. ASSUME NEW i \in Slots, TftpRun(i) \/ TftpFailed(i) PROVE UNCHANGED pc
  BY <1>5 DEF TftpRun, TftpFailed, otaVars
<1> QED
  BY <1>1, <1>2, <1>3, <1>4, <1>5, <1>6 DEF Next, Crash, vars

\* What is marked stays intact, and what gets the mark is.
LEMMA MarkedStep ==
    ASSUME TypeOK, SlotInv, [Next]_vars
    PROVE  slot'.valid => Intact(slot')
<1>0. Now \in Rec /\ Now.slot = slot /\ slot \in Slot
  BY NowType DEF Now, TypeOK
<1>1. ~EmptySlot.valid
  BY DEF EmptySlot
<1>2. CASE slot.valid
  BY <1>2, StepKeeps DEF Kept, SlotInv
<1>3. CASE ~slot.valid
  <2>1. CASE slot' = UpdateWrite(Now).slot
    BY <1>0, <1>1, <1>3, <2>1, WriteKeeps, SlotOrEmpty
  <2>2. CASE slot' = [slot EXCEPT !.valid = TRUE] /\ pc = "checked"
    BY <1>0, <2>2 DEF SlotInv, Slot, Intact
  <2> QED
    BY <1>1, <1>3, <2>1, <2>2, EverySlotStep DEF SlotStep
<1> QED
  BY <1>2, <1>3

\* The checks hold until the mark, if no step before it takes the image apart.
LEMMA SlotInvStep ==
    ASSUME TypeOK, SlotInv, [Next]_vars,
           [pc = "checked" /\ pc' = "checked" => Intact(slot')]_vars
    PROVE  SlotInv'
<1>1. CASE UpdateChecked
  BY <1>1, MarkedStep, TftpAssumption
  DEF UpdateChecked, DigestsMatch, Intact, SlotInv
<1>2. CASE UNCHANGED vars
  BY <1>2 DEF vars, SlotInv
<1> QED
  BY <1>1, <1>2, MarkedStep, CheckedStep DEF SlotInv

\* Only a restart changes the image.
LEMMA OnlyRestart == [Next]_vars => Reboot \/ UNCHANGED image
<1> SUFFICES ASSUME [Next]_vars, ~Reboot PROVE UNCHANGED image
  OBVIOUS
<1>1. CASE OtaRun
  BY <1>1
  DEF OtaRun, UpdateChecked, UpdateRejected, MarkValid, ScheduleApply, UpdateTimeout,
      PerformUpdate, CheckReady, CheckTimeout, AutoApply
<1>5. CASE LoopCommand \/ CommandSteps
  BY <1>5
  DEF LoopCommand, CommandSteps, LoopUpdate, LoopCheck, LoopApply, UpdateNamed, UpdateMisnamed,
      CheckNamed, CheckMisnamed, ApplyNamed, JobRefused, JobClaimed, JobFilled, StartStored
<1>2. CASE Hooks
  BY <1>2
  DEF Hooks, Block, LastBlockTaken, EndsEarly, ErrorPacket, TftpOnly, NameFound, otaVars
<1>3. CASE Command
  BY <1>3
  DEF Command, UpdateCmd, UpdateCmdWrong, CheckCmd, CheckApplyCmd, CheckRun, ApplyCmd,
      StrategyCmd, CancelCmd
<1>4. ASSUME NEW i \in Slots, TftpRun(i) \/ TftpFailed(i) PROVE UNCHANGED image
  BY <1>4 DEF TftpRun, TftpFailed, otaVars
<1> QED
  BY <1>1, <1>2, <1>3, <1>4, <1>5 DEF Next, Crash, vars

\* A step of the service is a step of FirmwareSlot or changes nothing of it.
LEMMA FirmwareStep ==
    ASSUME TypeOK, SlotInv, [Next]_vars
    PROVE  [Firmware!FwNext]_<<image, IF slot.valid THEN slot.data.src ELSE None>>
<1>0. /\ Now \in Rec /\ Now.slot = slot /\ slot \in Slot
      /\ slot.valid => slot.data.src \in Good /\ slot.data.src # None
  BY NowType, OtaAssumption DEF Now, TypeOK, SlotInv, Intact
<1>1. ~EmptySlot.valid
  BY DEF EmptySlot
<1>2. CASE Reboot
  <2>1. image' = (IF slot.valid THEN slot.data.src ELSE image) /\ ~slot'.valid
    BY <1>1, <1>2 DEF Reboot, Booted, SlotInv
  <2> QED
    BY <1>0, <2>1 DEF Firmware!FwNext, Firmware!FwBoot
<1>3. CASE UNCHANGED image
  <2>1. CASE slot' = slot
    BY <1>3, <2>1
  <2>2. CASE ~slot'.valid
    BY <1>3, <2>2 DEF Firmware!FwNext, Firmware!FwWithdraw
  <2>3. CASE slot' = UpdateWrite(Now).slot /\ slot'.valid
    <3>1. UpdateOpened(Now).slot = slot /\ slot.valid /\ Intact(slot)
      BY <1>0, <1>1, <2>3, WriteKeeps, SlotOrEmpty DEF SlotInv
    <3>2. slot'.data.src = slot.data.src
      BY <1>0, <2>3, <3>1, WriteKeeps
    <3> QED
      BY <1>3, <2>3, <3>1, <3>2
  <2>4. CASE slot' = [slot EXCEPT !.valid = TRUE] /\ pc = "checked"
    <3>1. slot'.valid /\ slot'.data.src = slot.data.src /\ slot.data.src \in Good
      BY <1>0, <2>4 DEF Slot, SlotInv, Intact
    <3> QED
      BY <1>3, <3>1 DEF Firmware!FwNext, Firmware!FwStage
  <2> QED
    BY <1>1, <2>1, <2>2, <2>3, <2>4, EverySlotStep DEF SlotStep
<1> QED
  BY <1>2, <1>3, OnlyRestart

\* For any images, meta files, number of jobs, and all commands: the OTA service
\* implements FirmwareSlot unless a step between the checks of
\* ota_update_validate() and the mark takes the checked image apart.
THEOREM OnlyTheRaceBreaks == Spec /\ UndisturbedCheck => FirmwareSpec
<1>1. Init => SlotInv /\ Firmware!FwInit
  BY DEF Init, SlotInv, Firmware!FwInit, EmptySlot
<1>2. /\ TypeOK /\ SlotInv /\ [Next]_vars
      /\ [pc = "checked" /\ pc' = "checked" => Intact(slot')]_vars
      => SlotInv'
  BY SlotInvStep
<1>3. TypeOK /\ SlotInv /\ [Next]_vars
        => [Firmware!FwNext]_<<image, IF slot.valid THEN slot.data.src ELSE None>>
  BY FirmwareStep
<1> QED
  BY <1>1, <1>2, <1>3, TypeCorrect, PTL
  DEF Spec, UndisturbedCheck, FirmwareSpec, Firmware!FwSpec

\* What FirmwareSlot promises keeps the device bootable.
LEMMA FirmwareBoots == FirmwareSpec => []NeverBootBroken
<1> DEFINE cand == IF slot.valid THEN slot.data.src ELSE None
           Inv == image \in Good \cup {Factory} /\ cand \in Good \cup {None}
<1>1. Firmware!FwInit => Inv
  BY DEF Firmware!FwInit
<1>2. Inv /\ [Firmware!FwNext]_<<image, cand>> => Inv'
  <2> SUFFICES ASSUME Inv, [Firmware!FwNext]_<<image, cand>> PROVE Inv'
    OBVIOUS
  <2>1. CASE Firmware!FwStage
    BY <2>1 DEF Firmware!FwStage
  <2>2. CASE Firmware!FwWithdraw
    BY <2>2 DEF Firmware!FwWithdraw
  <2>3. CASE Firmware!FwBoot
    BY <2>3 DEF Firmware!FwBoot
  <2> QED
    BY <2>1, <2>2, <2>3 DEF Firmware!FwNext
<1>3. Inv => NeverBootBroken
  BY OtaAssumption DEF NeverBootBroken
<1> QED
  BY <1>1, <1>2, <1>3, PTL DEF FirmwareSpec, Firmware!FwSpec

----
\* One job at a time, neither cancel nor automatic updates, and updates asked for by
\* web clients only: then no step takes the checked image apart.  An update of the
\* main loop may fill its slot again after a web client's update in it is ready.

OneByOne ==
    /\ MaxJobs = 1
    /\ Commands \subseteq {"update", "check"}
    /\ "update" \notin LoopCommands

\* An update is ready only with its one job gone.
ReadyAlone ==
    /\ upd.inProgress => upd.started
    /\ upd.ready => upd.started /\ \A i \in Slots : jobs[i].owner # "update"

\* The inductive invariant: while the mark is on its way nobody is left who could
\* disturb what was checked.
BootInv ==
    /\ pc = "checked" => Intact(slot) /\ upd.ready
    /\ ReadyAlone
    /\ pc \in {"loop", "checked", "marked", "checking"} \cup Making
    /\ pc \in Making => asker = "check"
    /\ chk.apply = 0

\* Without check_apply nothing is applied by itself.
LEMMA ManualStep ==
    ASSUME OneByOne, TypeOK, BootInv, [Next]_vars
    PROVE  chk'.apply = 0
<1>0. chk \in Check /\ chk.apply = 0
  BY DEF TypeOK, BootInv
<1>1. /\ CheckReset(chk).apply = 0
      /\ CheckOpened(chk).apply = 0
      /\ CheckWrite(chk).apply = 0
      /\ CheckClose(chk).apply = 0
      /\ CheckClose(CheckWrite(chk)).apply = 0
      /\ CheckClose(CheckOpened(chk)).apply = 0
  BY <1>0 DEF CheckReset, CheckOpened, CheckWrite, CheckClose, Check
<1>2. CASE OtaRun
  <2>1. ~AutoApply
    BY <1>0 DEF AutoApply
  <2>2. CASE CheckReady
    BY <1>0, <1>1, <2>2 DEF CheckReady, Check
  <2> QED
    BY <1>0, <1>1, <1>2, <2>1, <2>2
    DEF OtaRun, UpdateChecked, UpdateRejected, MarkValid, ScheduleApply, UpdateTimeout,
        PerformUpdate, Reboot, IdleCheck, CheckTimeout
<1>6. CASE LoopCommand \/ CommandSteps
  <2>1. ASSUME NEW m \in Metas, NEW n \in 0..Retries, CheckNamed(m, n) PROVE chk'.apply = 0
    <3>1. CheckReset(chk) \in Check
      BY <1>0, CheckTypes
    <3>2. n = 0
      BY <2>1, OtaAssumption DEF CheckNamed, OneByOne
    <3> QED
      BY <2>1, <3>1, <3>2 DEF CheckNamed, Check
  <2>2. CASE CheckMisnamed
    BY <1>0, <1>1, <2>2, CheckTypes DEF CheckMisnamed, Check
  <2>3. CASE StartStored
    BY <1>0, <2>3 DEF StartStored, Check
  <2> QED
    BY <1>0, <1>1, <1>6, <2>1, <2>2, <2>3
    DEF LoopCommand, CommandSteps, LoopUpdate, LoopCheck, LoopApply, UpdateNamed,
        UpdateMisnamed, ApplyNamed, JobRefused, JobClaimed, JobFilled
<1>3. CASE Hooks
  BY <1>0, <1>1, <1>3
  DEF Hooks, Block, LastBlockTaken, EndsEarly, ErrorPacket, ErrorHook, TftpOnly,
      NameFound, otaVars
<1>4. CASE Command
  <2>1. ASSUME NEW m \in Metas, CheckRun(m, 0) PROVE chk'.apply = 0
    <3>1. CheckReset(chk) \in Check
      BY <1>0, CheckTypes
    <3> QED
      BY <1>1, <2>1, <3>1 DEF CheckRun, Check
  <2>2. "check_apply" \notin Commands
    BY DEF OneByOne
  <2> QED
    BY <1>0, <1>4, <2>1, <2>2
    DEF Command, UpdateCmd, UpdateCmdWrong, CheckCmd, CheckApplyCmd, ApplyCmd, StrategyCmd,
        CancelCmd
<1>5. ASSUME NEW i \in Slots, TftpRun(i) \/ TftpFailed(i) PROVE chk'.apply = 0
  BY <1>0, <1>1, <1>5 DEF TftpRun, TftpFailed, ErrorHook, otaVars
<1> QED
  BY <1>0, <1>2, <1>3, <1>4, <1>5, <1>6 DEF Next, Crash, Reboot, IdleCheck, vars

\* The write hook changes nothing of the update that opening it does not.
LEMMA WriteUpd == ASSUME NEW r \in Rec PROVE UpdateWrite(r).upd = UpdateOpened(r).upd
<1>1. UpdateOpened(r) \in Rec
  BY OpenedType
<1> QED
  BY <1>1 DEF UpdateWrite, Rec

\* What the update's functions do to its flags.
LEMMA FlagsKept ==
    ASSUME NEW r \in Rec, r.upd.inProgress => r.upd.started, r.upd.ready => r.upd.started
    PROVE  /\ ~UpdateReset(r).upd.ready /\ ~UpdateReset(r).upd.inProgress
           /\ UpdateOpened(r).upd.inProgress => UpdateOpened(r).upd.started
           /\ UpdateOpened(r).upd.ready = r.upd.ready
           /\ UpdateOpened(r).upd.ready => UpdateOpened(r).upd.started
           /\ UpdateClose(r).upd.inProgress => UpdateClose(r).upd.started
           /\ UpdateClose(r).upd.ready => UpdateClose(r).upd.started
BY DEF UpdateReset, UpdateOpened, UpdateOpen, UpdateClose, Rec, Update

\* With one slot, a job that ends leaves no job of the update.
LEMMA OnlyJobEnds ==
    ASSUME OneByOne, TypeOK, NEW i \in Slots, jobs' = [jobs EXCEPT ![i] = FreeJob]
    PROVE  \A j \in Slots : jobs'[j].owner # "update"
<1>1. Slots = {1}
  BY DEF OneByOne, Slots
<1>2. FreeJob.owner # "update"
  BY TftpAssumption, OtaAssumption DEF FreeJob
<1> QED
  BY <1>1, <1>2 DEF TypeOK, TftpTypeOK

\* Every step leaves a ready update alone, and the checks with it.
LEMMA AloneStep ==
    ASSUME OneByOne, TypeOK, AnnouncedMeta, BootInv, [Next]_vars
    PROVE  /\ ReadyAlone'
           /\ pc' \in {"loop", "checked", "marked", "checking"} \cup Making
           /\ pc' \in Making => asker' = "check"
           /\ pc' = "checked" => Intact(slot') /\ upd'.ready
<1> DEFINE Goal == /\ ReadyAlone'
                   /\ pc' \in {"loop", "checked", "marked", "checking"} \cup Making
                   /\ pc' \in Making => asker' = "check"
                   /\ pc' = "checked" => Intact(slot') /\ upd'.ready
           NoJob == \A j \in Slots : jobs[j].owner # "update"
           Flags(u) == (u.inProgress => u.started) /\ (u.ready => u.started)
<1>0. /\ upd \in Update /\ Now \in Rec /\ Now.upd = upd /\ Now.slot = slot
      /\ xfer \in Transfer /\ TftpTypeOK /\ Flags(upd)
      /\ pc \in {"loop", "checked", "marked", "checking"} \cup Making
      /\ pc \in Making => asker = "check"
      /\ upd.ready => NoJob
      /\ pc = "checked" => Intact(slot) /\ upd.ready
  BY NowType DEF TypeOK, TftpTypeOK, Now, BootInv, ReadyAlone
<1>1. ASSUME UNCHANGED <<upd, slot, pc, asker>>,
             NoJob => NoJob'
      PROVE  Goal
  BY <1>0, <1>1 DEF ReadyAlone
<1>2. ASSUME Becomes(UpdateReset(Now)), pc' = "loop" PROVE Goal
  BY <1>0, <1>2, FlagsKept DEF Becomes, ReadyAlone, Making
<1>3. ASSUME Reboot PROVE Goal
  BY <1>3 DEF Reboot, IdleUpdate, ReadyAlone, Making
<1>4. ASSUME NEW i \in Slots, jobs' = [jobs EXCEPT ![i] = FreeJob] PROVE NoJob'
  BY <1>4, OnlyJobEnds
<1>5. ASSUME NEW i \in Slots, jobs[i].owner = "update" PROVE pc # "checked" /\ ~upd.ready
  BY <1>0, <1>5
<1>6. ASSUME NEW i \in Slots, TftpRun(i) PROVE Goal
  <2>1. NoJob => NoJob'
    BY <1>0, <1>6
    DEF TftpRun, JobResolved, JobResolving, JobRequest, JobRequested, TftpTypeOK, Job
  <2> QED
    BY <1>1, <1>6, <2>1 DEF TftpRun, otaVars
<1>7. ASSUME NEW i \in Slots, TftpFailed(i) PROVE Goal
  <2>1. NoJob'
    BY <1>4, <1>7 DEF TftpFailed, JobFailed
  <2> QED
    BY <1>1, <1>2, <1>7, <2>1 DEF TftpFailed, ErrorHook
<1>8. ASSUME NEW i \in Slots, Block(i) PROVE Goal
  <2>1. CASE jobs[i].owner = "update"
    <3>1. /\ upd' = UpdateOpened(Now).upd
          /\ UNCHANGED <<jobs, pc, asker>>
      BY <1>0, <1>8, <2>1, WriteUpd DEF Block, PacketNext, Becomes
    <3> QED
      BY <1>0, <1>5, <2>1, <3>1, FlagsKept DEF ReadyAlone
  <2>2. CASE jobs[i].owner # "update"
    BY <1>1, <1>8, <2>2 DEF Block, PacketNext
  <2> QED
    BY <2>1, <2>2
<1>9. ASSUME NEW i \in Slots, LastBlockTaken(i) PROVE Goal
  <2>0. NoJob'
    BY <1>4, <1>9 DEF LastBlockTaken, PacketEnd
  <2>1. CASE jobs[i].owner = "update"
    <3>1. UpdateWrite(Now) \in Rec /\ UpdateWrite(Now).upd = UpdateOpened(Now).upd
      BY <1>0, <1>9, WriteType, WriteUpd DEF LastBlockTaken
    <3>2. Flags(UpdateWrite(Now).upd)
      BY <1>0, <3>1, FlagsKept
    <3>3. Flags(UpdateClose(UpdateWrite(Now)).upd)
      BY <3>1, <3>2, FlagsKept
    <3>4. Flags(upd') /\ UNCHANGED <<pc, asker>>
      BY <1>9, <2>1, <3>3 DEF LastBlockTaken, Becomes
    <3> QED
      BY <1>0, <1>5, <2>0, <2>1, <3>4 DEF ReadyAlone
  <2>2. CASE jobs[i].owner # "update"
    BY <1>1, <1>9, <2>0, <2>2 DEF LastBlockTaken
  <2> QED
    BY <2>1, <2>2
<1>10. ASSUME NEW i \in Slots, NEW opened \in BOOLEAN, EndsEarly(i, opened) PROVE Goal
  <2>0. NoJob'
    BY <1>4, <1>10 DEF EndsEarly, PacketEnd
  <2>1. CASE jobs[i].owner = "update"
    <3> DEFINE r == IF opened THEN UpdateOpened(Now) ELSE Now
    <3>1. r \in Rec /\ Flags(r.upd)
      BY <1>0, OpenedType, FlagsKept
    <3>2. Flags(UpdateClose(r).upd)
      <4> HIDE DEF r
      <4> QED
        BY <3>1, FlagsKept
    <3>3. Flags(upd') /\ UNCHANGED <<pc, asker>>
      BY <1>10, <2>1, <3>2 DEF EndsEarly, Becomes
    <3> QED
      BY <1>0, <1>5, <2>0, <2>1, <3>3 DEF ReadyAlone
  <2>2. CASE jobs[i].owner # "update"
    BY <1>1, <1>10, <2>0, <2>2 DEF EndsEarly
  <2> QED
    BY <2>1, <2>2
<1>11. ASSUME NEW i \in Slots, ErrorPacket(i) PROVE Goal
  <2>0. NoJob'
    BY <1>4, <1>11 DEF ErrorPacket, PacketEnd
  <2>1. CASE jobs[i].owner = "update"
    <3>1. Becomes(UpdateReset(Now)) /\ UNCHANGED <<pc, asker>> /\ pc # "checked"
      BY <1>5, <1>11, <2>1 DEF ErrorPacket, ErrorHook
    <3> QED
      BY <1>0, <3>1, FlagsKept DEF Becomes, ReadyAlone
  <2>2. CASE jobs[i].owner # "update"
    BY <1>1, <1>11, <2>0, <2>2 DEF ErrorPacket, ErrorHook
  <2> QED
    BY <2>1, <2>2
<1>12. CASE TftpOnly /\ PacketOrphan
  BY <1>1, <1>12 DEF TftpOnly, PacketOrphan, otaVars
<1>13. CASE TftpOnly /\ NameFound
  <2>1. NoJob => NoJob'
    BY <1>0, <1>13 DEF NameFound, PeerFound, TftpTypeOK, Job
  <2> QED
    BY <1>1, <1>13, <2>1 DEF TftpOnly, otaVars
<1>14. CASE OtaRun
  <2>1. CASE UpdateChecked
    BY <1>0, <2>1, TftpAssumption
    DEF UpdateChecked, DigestsMatch, Intact, ReadyAlone, tftpVars, Making
  <2>2. CASE UpdateRejected \/ UpdateTimeout
    BY <1>2, <2>2 DEF UpdateRejected, UpdateTimeout, InOta
  <2>3. CASE MarkValid
    BY <1>0, <2>3 DEF MarkValid, ReadyAlone, tftpVars, Making
  <2>4. CASE ScheduleApply
    <3>1. [Now EXCEPT !.upd.apply = TRUE] \in Rec /\ Flags([Now EXCEPT !.upd.apply = TRUE].upd)
      BY <1>0 DEF Rec, Update
    <3> QED
      BY <2>4, <3>1, FlagsKept DEF ScheduleApply, Becomes, ReadyAlone, Making
  <2>5. ~AutoApply
    BY DEF AutoApply, BootInv
  <2>6. CASE CheckReady \/ CheckTimeout
    BY <1>1, <2>6 DEF CheckReady, CheckTimeout, tftpVars
  <2> QED
    BY <1>3, <1>14, <2>1, <2>2, <2>3, <2>4, <2>5, <2>6 DEF OtaRun, PerformUpdate
<1>18. CASE LoopCommand \/ CommandSteps
  <2>0. /\ ~LoopUpdate /\ ~LoopApply /\ ~ApplyNamed /\ ~UpdateMisnamed
        /\ \A f \in Files : ~UpdateNamed(f)
    BY <1>0, OtaAssumption
    DEF LoopUpdate, LoopApply, LoopTakes, OneByOne, ApplyNamed, UpdateNamed, UpdateMisnamed,
        Making
  <2>1. CASE LoopCheck \/ CheckMisnamed \/ JobRefused \/ JobClaimed \/ StartStored
    <3>1. UNCHANGED <<upd, slot, jobs>> /\ pc' # "checked"
      BY <1>0, <2>1
      DEF LoopCheck, CheckMisnamed, JobRefused, JobClaimed, ScanJobs, StartStored, tftpVars,
          Making
    <3>2. pc' \in {"loop", "checking"} \/ (pc' = "claiming" /\ asker' = "check")
      BY <1>0, <2>1 DEF LoopCheck, CheckMisnamed, JobRefused, JobClaimed, StartStored, Making
    <3> QED
      BY <1>0, <3>1, <3>2 DEF ReadyAlone, Making
  <2>2. ASSUME NEW m \in Metas, NEW n \in 0..Retries, CheckNamed(m, n) PROVE Goal
    BY <1>0, <2>2 DEF CheckNamed, ReadyAlone, Making, tftpVars
  <2>3. CASE JobFilled
    <3>1. NoJob => NoJob'
      BY <1>0, <2>3 DEF JobFilled, FillJob, WithNewJob, FreeJob, TftpTypeOK, Making
    <3> QED
      BY <1>0, <2>3, <3>1 DEF JobFilled, ReadyAlone, Making
  <2> QED
    BY <1>18, <2>0, <2>1, <2>2, <2>3 DEF LoopCommand, CommandSteps
<1>15. CASE Command
  <2>1. ASSUME NEW f \in Files, UpdateCmd(f) PROVE Goal
    <3>0. ~upd.started /\ ~upd.ready /\ pc # "checked" /\ UNCHANGED <<pc, asker>>
      BY <1>0, <2>1 DEF UpdateCmd
    <3>1. CASE upd' = [upd EXCEPT !.file = f, !.started = TRUE, !.web = TRUE]
      BY <1>0, <3>0, <3>1 DEF ReadyAlone, Update
    <3>2. CASE Becomes(UpdateReset([Now EXCEPT !.upd.file = f]))
      <4>1. /\ [Now EXCEPT !.upd.file = f] \in Rec
            /\ Flags([Now EXCEPT !.upd.file = f].upd)
        BY <1>0 DEF Rec, Update
      <4> QED
        BY <1>0, <3>0, <3>2, <4>1, FlagsKept DEF Becomes, ReadyAlone
    <3> QED
      BY <2>1, <3>1, <3>2 DEF UpdateCmd
  <2>2. CASE UpdateCmdWrong
    <3>0. Becomes(UpdateReset(Now)) /\ pc # "checked" /\ UNCHANGED <<pc, asker>>
      BY <1>0, <2>2 DEF UpdateCmdWrong
    <3> QED
      BY <1>0, <3>0, FlagsKept DEF Becomes, ReadyAlone
  <2>3. ASSUME NEW m \in Metas, NEW n, CheckRun(m, n) PROVE Goal
    <3>1. ~upd.ready
      BY <1>0, <2>3 DEF CheckRun
    <3> QED
      BY <1>0, <2>3, <3>1 DEF CheckRun, ReadyAlone
  <2>4. ~ApplyCmd /\ ~CancelCmd
    BY DEF ApplyCmd, CancelCmd, OneByOne
  <2>5. ASSUME NEW st \in Strategies, StrategyCmd(st) PROVE Goal
    BY <1>1, <2>5 DEF StrategyCmd, tftpVars
  <2> QED
    BY <1>15, <2>1, <2>2, <2>3, <2>4, <2>5 DEF Command, CheckCmd, CheckApplyCmd
<1>16. CASE UNCHANGED vars
  BY <1>1, <1>16 DEF vars
<1>17. CASE Hooks
  BY <1>8, <1>9, <1>10, <1>11, <1>12, <1>13, <1>17 DEF Hooks, TftpOnly
<1> QED
  BY <1>3, <1>6, <1>7, <1>14, <1>15, <1>16, <1>17, <1>18 DEF Next, Crash

\* With one job, neither cancel nor automatic updates, and updates asked for by web
\* clients only, the check is not disturbed.
LEMMA NobodyDisturbs ==
    ASSUME OneByOne
    PROVE  Spec => UndisturbedCheck
<1>1. Init => BootInv
  BY DEF Init, BootInv, ReadyAlone, IdleUpdate, IdleCheck, Making
<1>2. TypeOK /\ AnnouncedMeta /\ BootInv /\ [Next]_vars => BootInv'
  <2> SUFFICES ASSUME TypeOK, AnnouncedMeta, BootInv, [Next]_vars PROVE BootInv'
    OBVIOUS
  <2> QED
    BY OneByOne, ManualStep, AloneStep DEF BootInv
<1>3. BootInv' => [pc = "checked" /\ pc' = "checked" => Intact(slot')]_vars
  BY DEF BootInv
<1>4. Spec => [](TypeOK /\ AnnouncedMeta)
  BY TypeCorrect, AnnouncedMetaStays, PTL
<1> QED
  BY <1>1, <1>2, <1>3, <1>4, PTL DEF Spec, UndisturbedCheck

\* With one job, neither cancel nor automatic updates, and updates asked for by web
\* clients only, the OTA service implements FirmwareSlot: what is marked is one image that passed the checks,
\* and a restart at any moment runs it or the image before it.
THEOREM ServiceIsFirmwareSlot ==
    ASSUME OneByOne
    PROVE  Spec => FirmwareSpec
BY OneByOne, NobodyDisturbs, OnlyTheRaceBreaks, PTL

\* With one job, neither cancel nor automatic updates, and updates asked for by web
\* clients only, the device only ever boots images whose digests were checked, whenever the power fails.
THEOREM OneByOneBoots ==
    ASSUME OneByOne
    PROVE  Spec => []NeverBootBroken
BY OneByOne, ServiceIsFirmwareSlot, FirmwareBoots, PTL

----
\* Updates that were announced only: then no version goes back.

\* No file is named by hand, the strategy of sys_ota_init() stays, and a meta file
\* that is taken gives the version its image reports once it runs.
OnlyAnnounced ==
    /\ "update" \notin Commands
    /\ Strategies = {}
    /\ \A m \in MetaValid : MetaVer[m] = VerOf[MetaFile[m]]

\* File f, if it is an image, is newer than the one that runs.
Ahead(f) == f \in Files => Newer(VerOf[f], VerOf[image])

\* The state the device boots into, in which an image that is broken stays.
Reset ==
    /\ upd = IdleUpdate /\ chk = IdleCheck /\ slot = EmptySlot /\ pc = "loop"
    /\ TftpInit

\* The inductive invariant: every image that is named, on its way or in flash is
\* ahead, and the decision to apply a version outlives its meta file only.
AheadInv ==
    /\ strat = DefaultStrategy
    /\ image = Broken => Reset
    /\ Ahead(upd.file) /\ Ahead(xfer.src) /\ Ahead(slot.data.src)
    /\ chk.newVersion => Ahead(MetaFile[chk.buf])
    /\ pc = "applying" /\ chk.parsed => chk.newVersion
    /\ pc # "updating"

\* Nothing is on its way in the state after a boot.
LEMMA ResetAhead == Reset => /\ Ahead(upd.file) /\ Ahead(xfer.src) /\ Ahead(slot.data.src)
                             /\ ~chk.newVersion /\ pc \notin {"applying", "updating"}
BY OtaAssumption
DEF Reset, Ahead, IdleUpdate, IdleCheck, EmptySlot, TftpInit, NoTransfer

\* A broken image does nothing.
LEMMA BrokenStops ==
    ASSUME TypeOK, OnlyAnnounced, Reset, image = Broken, Next
    PROVE  FALSE
<1>1. /\ ~upd.started /\ ~upd.apply /\ ~chk.started /\ ~chk.newVersion
      /\ pc = "loop" /\ dns = {} /\ cur = 0 /\ xfer.handle = 0 /\ 0 \notin Slots
      /\ \A i \in Slots : ~Started(i)
  BY TftpAssumption
  DEF Reset, IdleUpdate, IdleCheck, TftpInit, NoTransfer, FreeJob, Started, Slots
<1>2. ASSUME NEW i \in Slots, TftpRun(i) \/ TftpFailed(i) PROVE FALSE
  BY <1>1, <1>2
  DEF TftpRun, TftpFailed, JobResolved, JobResolving, JobRequest, JobRequested, JobFailed
<1>3. ~OtaRun
  BY <1>1
  DEF OtaRun, UpdateChecked, UpdateRejected, MarkValid, ScheduleApply, UpdateTimeout,
      PerformUpdate, CheckReady, CheckTimeout, AutoApply
<1>6. ~LoopCommand /\ ~CommandSteps
  BY <1>1
  DEF LoopCommand, CommandSteps, LoopUpdate, LoopCheck, LoopApply, LoopTakes, UpdateNamed,
      UpdateMisnamed, CheckNamed, CheckMisnamed, ApplyNamed, JobRefused, JobClaimed, JobFilled,
      StartStored, Alive
<1>4. ~Hooks
  BY <1>1
  DEF Hooks, Block, LastBlockTaken, EndsEarly, ErrorPacket, PacketNext, PacketEnd,
      TftpOnly, PacketOrphan, NameFound, PeerFound
<1>5. ~Command
  BY <1>1
  DEF Command, UpdateCmd, UpdateCmdWrong, CheckCmd, CheckApplyCmd, CheckRun, ApplyCmd,
      StrategyCmd, CancelCmd, Alive
<1> QED
  BY <1>2, <1>3, <1>4, <1>5, <1>6 DEF Next, Crash, Alive

\* Only a restart changes the image, and only check_strategy the strategy.
LEMMA RestartOrStays ==
    ASSUME OnlyAnnounced, [Next]_vars
    PROVE  Reboot \/ UNCHANGED <<image, strat>>
<1>1. CASE OtaRun
  BY <1>1
  DEF OtaRun, UpdateChecked, UpdateRejected, MarkValid, ScheduleApply, UpdateTimeout,
      PerformUpdate, CheckReady, CheckTimeout, AutoApply
<1>5. CASE LoopCommand \/ CommandSteps
  BY <1>5
  DEF LoopCommand, CommandSteps, LoopUpdate, LoopCheck, LoopApply, UpdateNamed, UpdateMisnamed,
      CheckNamed, CheckMisnamed, ApplyNamed, JobRefused, JobClaimed, JobFilled, StartStored
<1>2. CASE Hooks
  BY <1>2
  DEF Hooks, Block, LastBlockTaken, EndsEarly, ErrorPacket, TftpOnly, NameFound, otaVars
<1>3. CASE Command
  BY <1>3
  DEF Command, UpdateCmd, UpdateCmdWrong, CheckCmd, CheckApplyCmd, CheckRun, ApplyCmd,
      CancelCmd, OnlyAnnounced
<1>4. ASSUME NEW i \in Slots, TftpRun(i) \/ TftpFailed(i) PROVE UNCHANGED <<image, strat>>
  BY <1>4 DEF TftpRun, TftpFailed, otaVars
<1> QED
  BY <1>1, <1>2, <1>3, <1>4, <1>5 DEF Next, Crash, vars

\* No function of the update but ota_update_apply() changes the file's name.
LEMMA FileKept ==
    ASSUME NEW r \in Rec
    PROVE  /\ UpdateReset(r).upd.file = r.upd.file
           /\ UpdateOpened(r).upd.file = r.upd.file
           /\ UpdateClose(r).upd.file = r.upd.file
BY DEF UpdateReset, UpdateOpened, UpdateOpen, UpdateClose, Rec, Update

\* The name of the update's file is the one it had, none, or the one of the meta
\* file that was announced.
LEMMA FileStep ==
    ASSUME OnlyAnnounced, TypeOK, AnnouncedMeta, AheadInv, [Next]_vars, ~Reboot
    PROVE  \/ upd'.file \in {upd.file, None, Junk}
           \/ chk.newVersion /\ upd'.file = MetaFile[chk.buf]
<1> DEFINE Goal == \/ upd'.file \in {upd.file, None, Junk}
                   \/ chk.newVersion /\ upd'.file = MetaFile[chk.buf]
<1>0. /\ upd \in Update /\ Now \in Rec /\ Now.upd = upd /\ xfer \in Transfer
      /\ pc = "applying" /\ chk.parsed => chk.newVersion
  BY NowType DEF TypeOK, Now, TftpTypeOK, AheadInv
<1>n. pc # "updating"
  BY DEF AheadInv
<1>1. CASE upd'.file = upd.file
  BY <1>1
<1>2. CASE Becomes(UpdateReset(Now))
  BY <1>0, <1>2, FileKept DEF Becomes
<1>3. ASSUME NEW i \in Slots, TftpRun(i) \/ TftpFailed(i) PROVE Goal
  BY <1>1, <1>2, <1>3 DEF TftpRun, TftpFailed, otaVars, ErrorHook
<1>4. CASE Hooks
  <2>0. UpdateOpened(Now) \in Rec /\ UpdateOpened(Now).upd.file = upd.file
    BY <1>0, OpenedType, FileKept
  <2>1. ASSUME NEW i \in Slots, Block(i) PROVE Goal
    BY <1>0, <1>1, <2>0, <2>1, WriteUpd DEF Block, Becomes
  <2>2. ASSUME NEW i \in Slots, LastBlockTaken(i) PROVE Goal
    <3>1. UpdateWrite(Now) \in Rec /\ UpdateWrite(Now).upd = UpdateOpened(Now).upd
      BY <1>0, <2>2, WriteType, WriteUpd DEF LastBlockTaken
    <3>2. UpdateClose(UpdateWrite(Now)).upd.file = upd.file
      BY <2>0, <3>1, FileKept
    <3> QED
      BY <1>1, <2>2, <3>2 DEF LastBlockTaken, Becomes
  <2>3. ASSUME NEW i \in Slots, NEW opened \in BOOLEAN, EndsEarly(i, opened) PROVE Goal
    BY <1>0, <1>1, <2>0, <2>3, FileKept DEF EndsEarly, Becomes
  <2>4. ASSUME NEW i \in Slots, ErrorPacket(i) PROVE Goal
    BY <1>1, <1>2, <2>4 DEF ErrorPacket, ErrorHook
  <2> QED
    BY <1>1, <1>4, <2>1, <2>2, <2>3, <2>4 DEF Hooks, TftpOnly, NameFound, otaVars
<1>5. WithMeta(upd) \in Update
  BY WithMetaType, OtaAssumption DEF AnnouncedMeta
<1>6. WithMeta(upd).file = IF chk.parsed THEN MetaFile[chk.buf] ELSE Junk
  BY <1>0 DEF WithMeta, Update
<1>7. CASE OtaRun
  <2>1. CASE ScheduleApply
    <3>1. /\ [Now EXCEPT !.upd.apply = TRUE] \in Rec
          /\ [Now EXCEPT !.upd.apply = TRUE].upd.file = upd.file
      BY <1>0 DEF Rec, Update
    <3> QED
      BY <2>1, <3>1, FileKept DEF ScheduleApply, Becomes
  <2> QED
    BY <1>1, <1>2, <1>7, <2>1
    DEF OtaRun, UpdateChecked, UpdateRejected, MarkValid, UpdateTimeout, PerformUpdate,
        CheckReady, CheckTimeout, AutoApply
<1>9. CASE LoopCommand \/ CommandSteps
  <2>1. CASE ApplyNamed
    BY <1>0, <1>6, <2>1 DEF ApplyNamed
  <2>2. CASE JobRefused
    BY <1>0, <1>1, <1>2, <2>2 DEF JobRefused, Update
  <2>3. CASE StartStored
    BY <1>0, <1>1, <2>3 DEF StartStored, Update
  <2>4. ASSUME NEW f \in Files, UpdateNamed(f) PROVE FALSE
    BY <1>n, <2>4 DEF UpdateNamed
  <2> QED
    BY <1>1, <1>2, <1>9, <2>1, <2>2, <2>3, <2>4
    DEF LoopCommand, CommandSteps, LoopUpdate, LoopCheck, LoopApply, UpdateMisnamed,
        CheckNamed, CheckMisnamed, JobClaimed, JobFilled
<1>8. CASE Command
  <2>1. CASE ApplyCmd
    BY <1>5, <1>6, <2>1 DEF ApplyCmd, AnnouncedMeta, Update
  <2>2. CASE CancelCmd
    <3>1. UpdateReset(Now) \in Rec /\ UpdateReset(Now).upd.file = upd.file
      BY <1>0, ResetType, FileKept
    <3> QED
      BY <2>2, <3>1 DEF CancelCmd, Becomes, Rec, Update
  <2> QED
    BY <1>1, <1>8, <2>1, <2>2
    DEF Command, UpdateCmd, UpdateCmdWrong, CheckCmd, CheckApplyCmd, CheckRun, StrategyCmd,
        OnlyAnnounced
<1> QED
  BY <1>1, <1>3, <1>4, <1>7, <1>8, <1>9 DEF Next, vars, Crash

\* What lwIP transfers is what it was, nothing, or the file a job names.
LEMMA TransferStep ==
    ASSUME TypeOK, [Next]_vars, ~Reboot
    PROVE  \/ xfer'.src \in {xfer.src, None}
           \/ \E i \in Slots : xfer'.src = FileOf(i)
<1> DEFINE Goal == xfer'.src \in {xfer.src, None} \/ \E i \in Slots : xfer'.src = FileOf(i)
<1>0. xfer \in Transfer /\ NoTransfer.src = None
  BY DEF TypeOK, TftpTypeOK, NoTransfer
<1>1. ASSUME NEW i \in Slots, TftpRun(i) PROVE Goal
  BY <1>0, <1>1 DEF TftpRun, JobResolved, JobResolving, JobRequest, JobRequested
<1>2. ASSUME NEW i \in Slots, TftpFailed(i) PROVE Goal
  BY <1>0, <1>2 DEF TftpFailed, JobFailed, NoTransfer
<1>3. CASE OtaRun
  BY <1>3
  DEF OtaRun, UpdateChecked, UpdateRejected, MarkValid, ScheduleApply, UpdateTimeout,
      PerformUpdate, CheckReady, CheckTimeout, AutoApply, tftpVars
<1>6. CASE LoopCommand \/ CommandSteps
  BY <1>6
  DEF LoopCommand, CommandSteps, LoopUpdate, LoopCheck, LoopApply, UpdateNamed, UpdateMisnamed,
      CheckNamed, CheckMisnamed, ApplyNamed, JobRefused, JobClaimed, JobFilled, StartStored,
      ScanJobs, FillJob, tftpVars
<1>4. CASE Hooks
  BY <1>0, <1>4
  DEF Hooks, Block, LastBlockTaken, EndsEarly, ErrorPacket, PacketNext, PacketEnd,
      TftpOnly, PacketOrphan, NameFound, PeerFound, Transfer
<1>5. CASE Command
  BY <1>5
  DEF Command, UpdateCmd, UpdateCmdWrong, CheckCmd, CheckApplyCmd, CheckRun, ApplyCmd,
      StrategyCmd, CancelCmd, NewJob, tftpVars
<1> QED
  BY <1>1, <1>2, <1>3, <1>4, <1>5, <1>6 DEF Next, Crash, vars

\* What the slot holds is what it held, nothing, a mixture, or what was transferred.
LEMMA ContentStep ==
    ASSUME TypeOK, [Next]_vars
    PROVE  slot'.data.src \in {slot.data.src, xfer.src, None, Mixed}
<1>0. Now \in Rec /\ Now.slot = slot /\ slot \in Slot
  BY NowType DEF Now, TypeOK
<1>1. EmptySlot.data.src = None
  BY DEF EmptySlot
<1>2. CASE slot' = UpdateWrite(Now).slot
  <2>1. PICK o : o = UpdateOpened(Now)
    OBVIOUS
  <2>2. o \in Rec /\ o.slot \in {slot, EmptySlot}
    BY <1>0, <2>1, OpenedType, SlotOrEmpty
  <2>3. UpdateWrite(Now).slot.data = WithBlock(o.slot.data, xfer.src, xfer.blk)
    BY <2>1, <2>2 DEF UpdateWrite, Rec, Slot
  <2>4. \A c \in Content : \A b : WithBlock(c, xfer.src, b).src \in {c.src, xfer.src, Mixed}
    BY DEF WithBlock, Content
  <2>5. o.slot.data \in Content
    BY <2>2 DEF Rec, Slot
  <2> QED
    BY <1>1, <1>2, <2>2, <2>3, <2>4, <2>5
<1>3. CASE slot' = [slot EXCEPT !.valid = TRUE]
  BY <1>0, <1>3 DEF Slot
<1> QED
  BY <1>1, <1>2, <1>3, EverySlotStep DEF SlotStep

\* A check c that became d announces nothing new.
Quiet(c, d) ==
    /\ d.newVersion => c.newVersion /\ d.buf = c.buf
    /\ d.parsed => c.parsed /\ d.newVersion = c.newVersion

\* The functions of the check announce nothing.
LEMMA QuietKept ==
    ASSUME NEW c \in Check, Announced(c)
    PROVE  /\ Quiet(c, CheckReset(c))
           /\ CheckOpened(c).inProgress => Quiet(c, CheckWrite(c))
           /\ CheckOpened(c).inProgress => Quiet(c, CheckClose(CheckWrite(c)))
           /\ Quiet(c, CheckClose(c))
           /\ Quiet(c, CheckClose(CheckOpened(c)))
BY DEF Quiet, Announced, CheckReset, CheckOpened, CheckWrite, CheckClose, Check

\* A version is announced by ota_check_run() only, for a valid meta file that is
\* newer than the running image, and applied by itself only once it is announced.
LEMMA CheckStep ==
    ASSUME TypeOK, AnnouncedMeta, AheadInv, [Next]_vars, ~Reboot
    PROVE  /\ pc' = "applying" /\ chk'.parsed => chk'.newVersion
           /\ \/ Quiet(chk, chk')
              \/ /\ chk.buf \in MetaValid /\ chk'.buf = chk.buf
                 /\ chk'.newVersion => Newer(MetaVer[chk.buf], VerOf[image])
<1> DEFINE Fresh == /\ chk.buf \in MetaValid /\ chk'.buf = chk.buf
                    /\ chk'.newVersion => Newer(MetaVer[chk.buf], VerOf[image])
           Goal == /\ pc' = "applying" /\ chk'.parsed => chk'.newVersion
                   /\ Quiet(chk, chk') \/ Fresh
<1>0. /\ chk \in Check /\ Announced(chk)
      /\ pc = "applying" /\ chk.parsed => chk.newVersion
      /\ strat = DefaultStrategy
  BY DEF TypeOK, AnnouncedMeta, Announced, AheadInv
<1>1. ASSUME Quiet(chk, chk'), pc' = "applying" => pc = "applying" PROVE Goal
  BY <1>0, <1>1 DEF Quiet
<1>2. CASE UNCHANGED chk /\ (pc' = "applying" => pc = "applying")
  BY <1>0, <1>1, <1>2 DEF Quiet
<1>3. CASE chk' = CheckReset(chk) /\ UNCHANGED pc
  BY <1>0, <1>1, <1>3, QuietKept
<1>4. ASSUME NEW i \in Slots, TftpRun(i) \/ TftpFailed(i) PROVE Goal
  BY <1>2, <1>3, <1>4 DEF TftpRun, TftpFailed, otaVars, ErrorHook
<1>5. CASE Hooks
  <2>1. ASSUME NEW i \in Slots, Block(i) \/ LastBlockTaken(i) PROVE Goal
    BY <1>0, <1>1, <1>2, <2>1, QuietKept DEF Block, LastBlockTaken, CheckTakes
  <2>2. ASSUME NEW i \in Slots, NEW opened \in BOOLEAN, EndsEarly(i, opened) PROVE Goal
    BY <1>0, <1>1, <1>2, <2>2, QuietKept DEF EndsEarly
  <2>3. ASSUME NEW i \in Slots, ErrorPacket(i) PROVE Goal
    BY <1>2, <1>3, <2>3 DEF ErrorPacket, ErrorHook
  <2> QED
    BY <1>2, <1>5, <2>1, <2>2, <2>3 DEF Hooks, TftpOnly, NameFound, otaVars
<1>6. CASE OtaRun
  <2>1. CASE CheckReady
    <3>1. CASE chk.buf \in MetaValid
      <4>1. /\ chk'.buf = chk.buf /\ chk'.newVersion = IsNew(chk.buf)
            /\ pc' # "applying"
        BY <1>0, <2>1, <3>1 DEF CheckReady, InOta, Check
      <4>2. IsNew(chk.buf) => Newer(MetaVer[chk.buf], VerOf[image])
        BY <1>0 DEF IsNew, DefaultStrategy
      <4> QED
        BY <3>1, <4>1, <4>2
    <3>2. CASE chk.buf \notin MetaValid
      BY <1>3, <2>1, <3>2 DEF CheckReady
    <3> QED
      BY <3>1, <3>2
  <2>2. CASE AutoApply
    BY <1>0, <2>2 DEF AutoApply, Quiet, Check
  <2>3. CASE CheckTimeout
    BY <1>3, <2>3 DEF CheckTimeout
  <2> QED
    BY <1>2, <1>6, <2>1, <2>2, <2>3
    DEF OtaRun, UpdateChecked, UpdateRejected, MarkValid, ScheduleApply, UpdateTimeout,
        PerformUpdate
<1>8. CASE LoopCommand \/ CommandSteps
  <2>1. CASE LoopApply
    BY <1>0, <2>1 DEF LoopApply, Quiet
  <2>2. CASE ~LoopApply
    <3>1. pc' = "applying" => pc = "applying"
      BY <1>8, <2>2
      DEF LoopCommand, CommandSteps, LoopUpdate, LoopCheck, UpdateNamed, UpdateMisnamed,
          CheckNamed, CheckMisnamed, ApplyNamed, JobRefused, JobClaimed, JobFilled, StartStored
    <3>2. Quiet(chk, chk')
      <4>1. CASE pc = "filled" /\ asker = "check" /\ chk' = [chk EXCEPT !.started = TRUE]
        BY <1>0, <4>1 DEF Quiet, Check
      <4> QED
        BY <1>0, <1>8, <4>1, LoopMovesCheck, QuietKept DEF CheckMoves, Quiet
    <3> QED
      BY <1>1, <3>1, <3>2
  <2> QED
    BY <2>1, <2>2
<1>7. CASE Command
  <2>1. ASSUME NEW m \in Metas, NEW n, CheckRun(m, n) PROVE Goal
    <3>1. ~chk'.newVersion /\ ~chk'.parsed
      BY <1>0, <2>1 DEF CheckRun, CheckReset, Check
    <3> QED
      BY <3>1 DEF Quiet
  <2> QED
    BY <1>2, <1>7, <2>1
    DEF Command, UpdateCmd, UpdateCmdWrong, CheckCmd, CheckApplyCmd, ApplyCmd, StrategyCmd,
        CancelCmd
<1> QED
  BY <1>2, <1>4, <1>5, <1>6, <1>7, <1>8 DEF Next, vars, Crash

\* Without the command update the main loop is never in it.
LEMMA NamesNothing ==
    ASSUME OnlyAnnounced, [Next]_vars, pc # "updating"
    PROVE  pc' # "updating"
<1>1. CASE OtaRun
  BY <1>1
  DEF OtaRun, UpdateChecked, UpdateRejected, MarkValid, ScheduleApply, UpdateTimeout,
      PerformUpdate, Reboot, CheckReady, CheckTimeout, AutoApply
<1>2. CASE LoopCommand \/ CommandSteps
  BY <1>2, OtaAssumption
  DEF LoopCommand, CommandSteps, LoopUpdate, LoopCheck, LoopApply, UpdateNamed, UpdateMisnamed,
      CheckNamed, CheckMisnamed, ApplyNamed, JobRefused, JobClaimed, JobFilled, StartStored,
      LoopTakes, OnlyAnnounced
<1>3. CASE Hooks
  BY <1>3
  DEF Hooks, Block, LastBlockTaken, EndsEarly, ErrorPacket, TftpOnly, NameFound, otaVars
<1>4. CASE Command
  BY <1>4
  DEF Command, UpdateCmd, UpdateCmdWrong, CheckCmd, CheckApplyCmd, CheckRun, ApplyCmd,
      StrategyCmd, CancelCmd
<1>5. ASSUME NEW i \in Slots, TftpRun(i) \/ TftpFailed(i) PROVE UNCHANGED pc
  BY <1>5 DEF TftpRun, TftpFailed, otaVars
<1> QED
  BY <1>1, <1>2, <1>3, <1>4, <1>5 DEF Next, Crash, Reboot, vars

\* Every image named, on its way or in flash stays ahead.
LEMMA AheadStep ==
    ASSUME OnlyAnnounced, TypeOK, AnnouncedMeta, AheadInv, [Next]_vars
    PROVE  AheadInv'
<1>1. CASE UNCHANGED vars
  BY <1>1 DEF AheadInv, Ahead, Reset, TftpInit, vars
<1>2. CASE Reboot
  <2>1. Reset' /\ strat' = DefaultStrategy
    BY <1>2 DEF Reboot, Reset, TftpInit
  <2>2. /\ Ahead(upd.file)' /\ Ahead(xfer.src)' /\ Ahead(slot.data.src)'
        /\ ~chk'.newVersion /\ pc' \notin {"applying", "updating"}
    BY <2>1, OtaAssumption
    DEF Reset, Ahead, IdleUpdate, IdleCheck, EmptySlot, TftpInit, NoTransfer
  <2> QED
    BY <2>1, <2>2 DEF AheadInv
<1>3. CASE Next /\ ~Reboot
  <2>1. image # Broken
    BY <1>3, BrokenStops DEF AheadInv
  <2>2. UNCHANGED <<image, strat>>
    BY <1>3, RestartOrStays
  <2>3. \A f : Ahead(f)' <=> Ahead(f)
    BY <2>2 DEF Ahead
  <2>4. {None, Junk, Mixed} \cap Files = {}
    BY OtaAssumption
  <2>5. Ahead(None) /\ Ahead(Junk) /\ Ahead(Mixed)
    BY <2>4 DEF Ahead
  <2>6. chk.newVersion => Ahead(MetaFile[chk.buf])
    BY DEF AheadInv
  <2>7. Ahead(upd'.file)
    BY <1>3, <2>5, <2>6, FileStep DEF AheadInv
  <2>8. Ahead(xfer'.src)
    <3>1. \A i \in Slots : Ahead(FileOf(i))
      BY <2>5, OtaAssumption DEF FileOf, AheadInv, Ahead, TypeOK, Check
    <3> QED
      BY <1>3, <2>5, <3>1, TransferStep DEF AheadInv
  <2>9. Ahead(slot'.data.src)
    BY <2>5, ContentStep DEF AheadInv
  <2>10. chk'.newVersion => Ahead(MetaFile[chk'.buf])
    <3>1. CASE Quiet(chk, chk')
      BY <2>6, <3>1 DEF Quiet
    <3>2. CASE /\ chk.buf \in MetaValid /\ chk'.buf = chk.buf
               /\ chk'.newVersion => Newer(MetaVer[chk.buf], VerOf[image])
      BY <3>2 DEF Ahead, OnlyAnnounced
    <3> QED
      BY <1>3, <3>1, <3>2, CheckStep
  <2>11. pc' = "applying" /\ chk'.parsed => chk'.newVersion
    BY <1>3, CheckStep
  <2>12. strat' = DefaultStrategy /\ image' # Broken
    BY <2>1, <2>2 DEF AheadInv
  <2>14. pc' # "updating"
    BY <1>3, NamesNothing DEF AheadInv
  <2>13. /\ Ahead(upd.file)' /\ Ahead(xfer.src)' /\ Ahead(slot.data.src)'
         /\ (chk.newVersion => Ahead(MetaFile[chk.buf]))'
    BY <2>2, <2>7, <2>8, <2>9, <2>10 DEF Ahead
  <2> QED
    BY <2>11, <2>12, <2>13, <2>14 DEF AheadInv
<1> QED
  BY <1>1, <1>2, <1>3

\* A restart keeps the image, breaks it, or runs a newer one.
LEMMA BootsAhead ==
    ASSUME OnlyAnnounced, AheadInv, [Next]_vars
    PROVE  image' \notin {image, Broken} => Newer(VerOf[image'], VerOf[image])
<1>1. CASE Reboot
  BY <1>1, OtaAssumption DEF Reboot, Booted, Intact, AheadInv, Ahead
<1> QED
  BY <1>1, RestartOrStays

\* Without updates that are named by hand, and under the strategy of sys_ota_init(),
\* no restart goes back to an older version, for any images, meta files and number
\* of jobs, whatever jobs, packets, commands and losses of power come in between.
THEOREM NeverGoesBack ==
    ASSUME OnlyAnnounced
    PROVE  Spec => NoDowngrade
<1>1. Init => AheadInv
  <2> SUFFICES ASSUME Init PROVE AheadInv
    OBVIOUS
  <2>1. Reset /\ strat = DefaultStrategy
    BY DEF Init, Reset
  <2> QED
    BY <2>1, ResetAhead DEF AheadInv
<1>2. TypeOK /\ AnnouncedMeta /\ AheadInv /\ [Next]_vars => AheadInv'
  BY OnlyAnnounced, AheadStep
<1>3. AheadInv /\ [Next]_vars
        => [image' \notin {image, Broken} => Newer(VerOf[image'], VerOf[image])]_vars
  BY OnlyAnnounced, BootsAhead
<1>4. Spec => [](TypeOK /\ AnnouncedMeta)
  BY TypeCorrect, AnnouncedMetaStays, PTL
<1> QED
  BY <1>1, <1>2, <1>3, <1>4, PTL DEF Spec, NoDowngrade
====
