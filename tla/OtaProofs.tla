---- MODULE OtaProofs ----
(***************************************************************************)
(* Proofs about Ota, for every value of its constants.                     *)
(***************************************************************************)
EXTENDS Ota, WellFoundedInduction, TLAPS

\* The part of the state the functions of the update work on.
Rec == [upd : Update, slot : Slot, job : BOOLEAN]

\* The boot loader's erase leaves a slot: pfb_initialize_download_slot().
LEMMA EmptySlotType == EmptySlot \in Slot
BY TftpAssumption DEF EmptySlot, Slot, Content

\* The update, the slot and the job as a record.
LEMMA NowType == TypeOK => Now \in Rec
BY DEF TypeOK, Now, Rec

\* A step that stores a record keeps the types.
LEMMA BecomesType ==
    ASSUME NEW r \in Rec, Becomes(r)
    PROVE  upd' \in Update /\ slot' \in Slot /\ otaJob' \in BOOLEAN
BY DEF Becomes, Rec

\* ota_update_reset() keeps the types.
LEMMA ResetType == ASSUME NEW r \in Rec PROVE UpdateReset(r) \in Rec
BY EmptySlotType DEF UpdateReset, Rec, Update

\* Opening the slot keeps the types.
LEMMA OpenedType == ASSUME NEW r \in Rec PROVE UpdateOpened(r) \in Rec
BY EmptySlotType DEF UpdateOpened, UpdateOpen, Rec, Update

\* The content of the slot after one more block.
LEMMA WithBlockType ==
    ASSUME NEW c \in Content, NEW s \in Sources, NEW b \in 1..NBlocks
    PROVE  WithBlock(c, s, b) \in Content
BY TftpAssumption DEF WithBlock, Content

\* The write hook keeps the types.
LEMMA WriteType ==
    ASSUME NEW r \in Rec, xfer \in Transfer, xfer.src # None
    PROVE  UpdateWrite(r) \in Rec
<1> DEFINE o == UpdateOpened(r)
           d == WithBlock(o.slot.data, xfer.src, xfer.blk)
<1>1. o \in Rec
  BY OpenedType
<1>2. xfer.src \in Sources /\ xfer.blk \in 1..NBlocks
  BY DEF Transfer
<1>3. o.slot.data \in Content
  BY <1>1 DEF Rec, Slot
<1>4. d \in Content
  BY <1>2, <1>3, WithBlockType
<1>5. UpdateWrite(r) = [o EXCEPT !.slot = [o.slot EXCEPT !.data = d]]
  BY DEF UpdateWrite
<1> QED
  BY <1>1, <1>4, <1>5 DEF Rec, Slot

\* The close hook keeps the types.
LEMMA CloseType == ASSUME NEW r \in Rec PROVE UpdateClose(r) \in Rec
BY ResetType DEF UpdateClose, Rec, Update

\* The functions of the check keep the types.
LEMMA CheckTypes ==
    ASSUME NEW c \in Check
    PROVE  /\ CheckReset(c) \in Check
           /\ CheckOpened(c) \in Check
           /\ CheckWrite(c) \in Check
           /\ CheckClose(c) \in Check
<1>0. 0 \in 0..Retries
  BY OtaAssumption
<1>1. CheckReset(c) \in Check
  BY <1>0 DEF CheckReset, Check
<1>2. CheckOpened(c) \in Check
  BY DEF CheckOpened, Check
<1>3. CheckWrite(c) \in Check
  BY <1>2 DEF CheckWrite, Check
<1>4. CheckClose(c) \in Check
  BY <1>1 DEF CheckClose, Check
<1> QED
  BY <1>1, <1>2, <1>3, <1>4

\* A job as it is after the memset.
LEMMA FreeJobType == FreeJob \in Job
BY DEF FreeJob, Job

\* lwIP without a transfer.
LEMMA NoTransferType == NoTransfer \in Transfer
BY TftpAssumption DEF NoTransfer, Transfer

\* The scan of tftp_clinet_new_job() finds a slot of the table.
LEMMA FirstFreeType == FreeSlots # {} => FirstFree \in FreeSlots
<1> SUFFICES ASSUME FreeSlots # {}
             PROVE  \E i \in FreeSlots : \A j \in FreeSlots : i <= j
  BY DEF FirstFree
<1>1. FreeSlots \subseteq Nat
  BY TftpAssumption DEF FreeSlots, Slots
<1> DEFINE R == OpToRel(<, Nat)
<1>2. \A x, y \in Nat : y < x => <<y, x>> \in R
  BY Zenon DEF OpToRel
<1>3. PICK x \in FreeSlots : \A y \in FreeSlots : <<y, x>> \notin R
  <2>1. IsWellFoundedOn(R, Nat)
    BY NatLessThanWellFounded, Zenon
  <2> HIDE DEF R
  <2> QED
    BY <1>1, <2>1, WFMin
<1> HIDE DEF R
<1>4. \A y \in FreeSlots : ~(y < x)
  BY <1>1, <1>2, <1>3
<1> QED
  BY <1>1, <1>4

\* A step keeps the types of the client's table, and leaves the scan of the main
\* loop alone.
ClientKept == TftpTypeOK' /\ UNCHANGED claim

\* The API and the runs of the client keep the types of its table.
LEMMA TftpTypes ==
    ASSUME TftpTypeOK, NEW i \in Slots
    PROVE  /\ \A o \in Owners : (NewJob(o) => ClientKept) /\ (FillJob(o) => TftpTypeOK')
           /\ ScanJobs => TftpTypeOK'
           /\ JobResolved(i) => ClientKept
           /\ JobResolving(i) => ClientKept
           /\ \A s \in Sources \cup {None} : JobRequest(i, s) => ClientKept
           /\ JobRequested(i) => ClientKept
           /\ JobFailed(i) => ClientKept
<1>1. ASSUME NEW o \in Owners, NewJob(o) PROVE ClientKept
  <2>1. FirstFree \in Slots
    BY <1>1, FirstFreeType DEF NewJob, FreeSlots
  <2>2. [FreeJob EXCEPT !.owner = o] \in Job
    BY DEF FreeJob, Job
  <2> QED
    BY <1>1, <2>1, <2>2 DEF NewJob, WithNewJob, TftpTypeOK, ClientKept
<1>7. ASSUME NEW o \in Owners, FillJob(o) PROVE TftpTypeOK'
  <2>1. claim \in Slots
    BY <1>7 DEF FillJob, TftpTypeOK, ClientKept
  <2>2. [FreeJob EXCEPT !.owner = o] \in Job
    BY DEF FreeJob, Job
  <2> QED
    BY <1>7, <2>1, <2>2 DEF FillJob, WithNewJob, TftpTypeOK, ClientKept
<1>8. ASSUME ScanJobs PROVE TftpTypeOK'
  BY <1>8, FirstFreeType DEF ScanJobs, FreeSlots, TftpTypeOK, ClientKept
<1>2. ASSUME JobResolved(i) PROVE ClientKept
  BY <1>2 DEF JobResolved, TftpTypeOK, ClientKept, Job, Started
<1>3. ASSUME JobResolving(i) PROVE ClientKept
  BY <1>3, TftpAssumption DEF JobResolving, TftpTypeOK, ClientKept, Job, Started
<1>4. ASSUME NEW s \in Sources \cup {None}, JobRequest(i, s) PROVE ClientKept
  BY <1>4, TftpAssumption DEF JobRequest, TftpTypeOK, ClientKept, Transfer
<1>5. ASSUME JobRequested(i) PROVE ClientKept
  BY <1>5 DEF JobRequested, TftpTypeOK, ClientKept, Job
<1>6. ASSUME JobFailed(i) PROVE ClientKept
  BY <1>6, FreeJobType, TftpAssumption DEF JobFailed, TftpTypeOK, ClientKept, NoTransfer, Transfer
<1> QED
  BY <1>1, <1>2, <1>3, <1>4, <1>5, <1>6, <1>7, <1>8

\* lwIP's callbacks keep the types of the table.
LEMMA PacketTypes ==
    ASSUME TftpTypeOK
    PROVE  /\ \A i \in Slots : PacketNext(i) => ClientKept
           /\ \A i \in Slots : PacketEnd(i) => ClientKept
           /\ PacketOrphan => ClientKept
           /\ \A q \in dns, found \in BOOLEAN : PeerFound(q, found) => ClientKept
<1>1. ASSUME NEW i \in Slots, PacketNext(i) PROVE ClientKept
  BY <1>1, TftpAssumption DEF PacketNext, TftpTypeOK, ClientKept, Transfer
<1>2. ASSUME NEW i \in Slots, PacketEnd(i) PROVE ClientKept
  BY <1>2, FreeJobType, NoTransferType DEF PacketEnd, TftpTypeOK, ClientKept
<1>3. ASSUME PacketOrphan PROVE ClientKept
  BY <1>3, NoTransferType DEF PacketOrphan, TftpTypeOK, ClientKept
<1>4. ASSUME NEW q \in dns, NEW found \in BOOLEAN, PeerFound(q, found) PROVE ClientKept
  <2>1. q[1] \in Slots /\ q[2] \in Owners
    BY DEF TftpTypeOK, ClientKept
  <2> QED
    BY <1>4, <2>1 DEF PeerFound, TftpTypeOK, ClientKept, Job
<1> QED
  BY <1>1, <1>2, <1>3, <1>4

\* ota_update_apply() gives the update a name and a digest.
LEMMA WithMetaType ==
    ASSUME TypeOK, chk.parsed => chk.buf \in Metas
    PROVE  WithMeta(upd) \in Update
<1>1. upd \in Update /\ chk \in Check
  BY DEF TypeOK
<1>2. CASE chk.parsed
  <2>1. MetaFile[chk.buf] \in Files /\ MetaSha[chk.buf] \in Files \cup {None}
    BY <1>2, OtaAssumption
  <2> QED
    BY <1>1, <1>2, <2>1 DEF WithMeta, Update
<1>3. CASE ~chk.parsed
  BY <1>1, <1>3 DEF WithMeta, Update
<1> QED
  BY <1>2, <1>3

\* What a step of the ota module leaves in the client.
LEMMA UnchangedTftpTypes == TftpTypeOK /\ UNCHANGED tftpVars => TftpTypeOK'
BY DEF TftpTypeOK, tftpVars

\* What a server sends for a job.
LEMMA FileOfType ==
    ASSUME TypeOK, NEW i \in Slots
    PROVE  FileOf(i) \in Sources \cup {None}
BY OtaAssumption DEF FileOf, TypeOK, Check, Update

\* The error hooks keep the types.
LEMMA ErrorHookType ==
    ASSUME TypeOK, NEW i \in Slots, ErrorHook(i)
    PROVE  upd' \in Update /\ slot' \in Slot /\ otaJob' \in BOOLEAN /\ chk' \in Check
<1>1. chk \in Check /\ upd \in Update /\ slot \in Slot /\ otaJob \in BOOLEAN
  BY DEF TypeOK
<1>2. CASE Becomes(UpdateReset(Now)) /\ UNCHANGED chk
  BY <1>1, <1>2, NowType, ResetType, BecomesType
<1>3. CASE chk' = CheckReset(chk) /\ UNCHANGED <<upd, slot, otaJob>>
  BY <1>1, <1>3, CheckTypes
<1> QED
  BY <1>2, <1>3 DEF ErrorHook

\* Every step of a hook keeps the types.
LEMMA HooksType == TypeOK /\ Hooks => TypeOK'
<1> SUFFICES ASSUME TypeOK, Hooks PROVE TypeOK'
  OBVIOUS
<1>0. /\ chk \in Check /\ upd \in Update /\ slot \in Slot /\ otaJob \in BOOLEAN
      /\ Now \in Rec /\ TftpTypeOK /\ xfer \in Transfer
  BY NowType DEF TypeOK, TftpTypeOK
<1> DEFINE Rest == UNCHANGED <<strat, image, pc, claim, asker>>
           Moved == /\ upd' \in Update /\ slot' \in Slot /\ otaJob' \in BOOLEAN
                    /\ chk' \in Check
<1>1. ASSUME TftpTypeOK', Rest, Moved PROVE TypeOK'
  BY <1>1 DEF TypeOK, Making
<1>2. ASSUME NEW i \in Slots, Block(i) PROVE TypeOK'
  <2>1. TftpTypeOK' /\ Rest /\ xfer.src # None
    BY <1>0, <1>2, PacketTypes DEF Block, PacketNext, ClientKept
  <2>2. UpdateWrite(Now) \in Rec /\ CheckWrite(chk) \in Check
    BY <1>0, <2>1, WriteType, CheckTypes
  <2>3. Moved
    BY <1>0, <1>2, <2>2, BecomesType DEF Block
  <2> QED
    BY <1>1, <2>1, <2>3
<1>3. ASSUME NEW i \in Slots, LastBlockTaken(i) PROVE TypeOK'
  <2>1. TftpTypeOK' /\ Rest /\ xfer.src # None
    BY <1>0, <1>3, PacketTypes DEF LastBlockTaken, ClientKept
  <2>2. UpdateClose(UpdateWrite(Now)) \in Rec /\ CheckClose(CheckWrite(chk)) \in Check
    BY <1>0, <2>1, WriteType, CloseType, CheckTypes
  <2>3. Moved
    BY <1>0, <1>3, <2>2, BecomesType DEF LastBlockTaken
  <2> QED
    BY <1>1, <2>1, <2>3
<1>4. ASSUME NEW i \in Slots, NEW opened \in BOOLEAN, EndsEarly(i, opened) PROVE TypeOK'
  <2>1. TftpTypeOK' /\ Rest
    BY <1>0, <1>4, PacketTypes DEF EndsEarly, ClientKept
  <2>2. /\ UpdateClose(IF opened THEN UpdateOpened(Now) ELSE Now) \in Rec
        /\ CheckClose(IF opened THEN CheckOpened(chk) ELSE chk) \in Check
    BY <1>0, OpenedType, CloseType, CheckTypes
  <2>3. Moved
    BY <1>0, <1>4, <2>2, BecomesType DEF EndsEarly
  <2> QED
    BY <1>1, <2>1, <2>3
<1>5. ASSUME NEW i \in Slots, ErrorPacket(i) PROVE TypeOK'
  BY <1>0, <1>1, <1>5, PacketTypes, ErrorHookType DEF ErrorPacket, ClientKept
<1>6. ASSUME TftpOnly PROVE TypeOK'
  BY <1>0, <1>1, <1>6, PacketTypes DEF TftpOnly, NameFound, otaVars, ClientKept
<1> QED
  BY <1>2, <1>3, <1>4, <1>5, <1>6 DEF Hooks

\* The state after a restart, of a known image.
LEMMA RebootType == TypeOK /\ Reboot => TypeOK'
<1> SUFFICES ASSUME TypeOK, Reboot PROVE TypeOK'
  OBVIOUS
<1>1. Booted \in Files \cup {Factory, Broken}
  BY OtaAssumption DEF Booted, Intact, TypeOK
<1>2. IdleUpdate \in Update /\ IdleCheck \in Check
  BY OtaAssumption DEF IdleUpdate, IdleCheck, Update, Check
<1>3. TftpTypeOK'
  BY FreeJobType, NoTransferType DEF Reboot, TftpTypeOK
<1> QED
  BY <1>1, <1>2, <1>3, EmptySlotType DEF Reboot, TypeOK, DefaultStrategy, Making

\* Every step of the main loop keeps the types.
LEMMA MainType ==
    ASSUME TypeOK, AnnouncedMeta,
           (\E i \in Slots : TftpRun(i) \/ TftpFailed(i)) \/ OtaRun
    PROVE  TypeOK'
<1>0. /\ chk \in Check /\ upd \in Update /\ slot \in Slot /\ otaJob \in BOOLEAN
      /\ Now \in Rec /\ TftpTypeOK
  BY NowType DEF TypeOK
<1>1. ASSUME NEW i \in Slots, TftpRun(i) PROVE TypeOK'
  <2>1. FileOf(i) \in Sources \cup {None}
    BY FileOfType
  <2>2. TftpTypeOK' /\ UNCHANGED claim
    BY <1>0, <1>1, <2>1, TftpTypes DEF TftpRun, ClientKept
  <2> QED
    BY <1>1, <2>2 DEF TypeOK, TftpRun, otaVars, Making
<1>2. ASSUME NEW i \in Slots, TftpFailed(i) PROVE TypeOK'
  <2>1. TftpTypeOK' /\ UNCHANGED claim
    BY <1>0, <1>2, TftpTypes DEF TftpFailed, ClientKept
  <2>2. upd' \in Update /\ slot' \in Slot /\ otaJob' \in BOOLEAN /\ chk' \in Check
    BY <1>2, ErrorHookType DEF TftpFailed
  <2> QED
    BY <1>2, <2>1, <2>2 DEF TypeOK, TftpFailed, Making
<1>3. ASSUME UNCHANGED tftpVars PROVE TftpTypeOK' /\ UNCHANGED claim
  BY <1>0, <1>3, UnchangedTftpTypes DEF tftpVars
<1>4. CASE UpdateChecked
  BY <1>3, <1>4 DEF UpdateChecked, TypeOK, InOta, Making
<1>5. CASE UpdateRejected \/ UpdateTimeout
  <2>1. upd' \in Update /\ slot' \in Slot /\ otaJob' \in BOOLEAN
    BY <1>0, <1>5, ResetType, BecomesType DEF UpdateRejected, UpdateTimeout
  <2> QED
    BY <1>3, <1>5, <2>1 DEF UpdateRejected, UpdateTimeout, TypeOK, Making
<1>6. CASE MarkValid
  <2>1. slot' \in Slot
    BY <1>0, <1>6 DEF MarkValid, Slot
  <2> QED
    BY <1>3, <1>6, <2>1 DEF MarkValid, TypeOK, Making
<1>7. CASE ScheduleApply
  <2>1. [Now EXCEPT !.upd.apply = TRUE] \in Rec
    BY <1>0 DEF Rec, Update
  <2>2. upd' \in Update /\ slot' \in Slot /\ otaJob' \in BOOLEAN
    BY <1>7, <2>1, ResetType, BecomesType DEF ScheduleApply
  <2> QED
    BY <1>3, <1>7, <2>2 DEF ScheduleApply, TypeOK, Making
<1>8. CASE CheckReady
  <2>1. IsNew(chk.buf) \in BOOLEAN
    BY DEF IsNew
  <2>2. chk' \in Check
    <3>1. CheckReset(chk) \in Check
      BY <1>0, CheckTypes
    <3>2. [chk EXCEPT !.parsed = TRUE, !.newVersion = IsNew(chk.buf),
                      !.inProgress = FALSE, !.started = FALSE] \in Check
      BY <1>0, <2>1 DEF Check
    <3> QED
      BY <1>8, <3>1, <3>2 DEF CheckReady
  <2> QED
    BY <1>3, <1>8, <2>2 DEF CheckReady, TypeOK, Making
<1>9. CASE CheckTimeout
  BY <1>0, <1>3, <1>9, CheckTypes DEF CheckTimeout, TypeOK, Making
<1>10. CASE AutoApply
  <2>1. chk.apply \in 0..Retries /\ chk.apply > 0
    BY <1>0, <1>10 DEF AutoApply, Check
  <2>2. chk.apply - 1 \in 0..Retries
    BY <2>1, OtaAssumption
  <2>3. chk' \in Check
    BY <1>0, <1>10, <2>2 DEF AutoApply, Check
  <2> QED
    BY <1>3, <1>10, <2>3 DEF AutoApply, InOta, TypeOK, Making
<1>15. CASE PerformUpdate
  BY <1>15, RebootType DEF PerformUpdate
<1> QED
  BY <1>1, <1>2, <1>4, <1>5, <1>6, <1>7, <1>8, <1>9, <1>10, <1>15
  DEF OtaRun

\* Every step of a command in the main loop keeps the types.
LEMMA LoopType ==
    ASSUME TypeOK, AnnouncedMeta, LoopCommand \/ CommandSteps
    PROVE  TypeOK'
<1>0. /\ chk \in Check /\ upd \in Update /\ slot \in Slot /\ otaJob \in BOOLEAN
      /\ Now \in Rec /\ TftpTypeOK /\ (pc # "claiming" => claim = 0)
      /\ (pc \in Making => asker \in {"update", "check", "apply"})
      /\ (pc \notin Making => asker = None)
      /\ strat \in [newer : BOOLEAN, ver : BOOLEAN, time : BOOLEAN]
      /\ image \in Files \cup {Factory, Broken}
  BY NowType DEF TypeOK
<1>1. ASSUME UNCHANGED tftpVars PROVE TftpTypeOK' /\ UNCHANGED claim
  BY <1>0, <1>1, UnchangedTftpTypes DEF tftpVars
<1>2. CheckReset(chk) \in Check
  BY <1>0, CheckTypes
<1>3. CASE LoopUpdate \/ LoopCheck \/ LoopApply
  BY <1>0, <1>1, <1>3 DEF LoopUpdate, LoopCheck, LoopApply, LoopTakes, InOta, TypeOK, Making
<1>4. ASSUME NEW f \in Files, UpdateNamed(f) PROVE TypeOK'
  <2>1. upd' \in Update
    BY <1>0, <1>4 DEF UpdateNamed, Update
  <2> QED
    BY <1>0, <1>1, <1>4, <2>1 DEF UpdateNamed, TypeOK, Making
<1>5. CASE UpdateMisnamed
  <2>1. upd' \in Update /\ slot' \in Slot /\ otaJob' \in BOOLEAN
    BY <1>0, <1>5, ResetType, BecomesType DEF UpdateMisnamed
  <2> QED
    BY <1>0, <1>1, <1>5, <2>1 DEF UpdateMisnamed, TypeOK, Making
<1>6. ASSUME NEW m \in Metas, NEW n \in 0..Retries, CheckNamed(m, n) PROVE TypeOK'
  <2>1. chk' \in Check
    BY <1>2, <1>6 DEF CheckNamed, Check
  <2> QED
    BY <1>0, <1>1, <1>6, <2>1 DEF CheckNamed, TypeOK, Making
<1>7. CASE CheckMisnamed
  <2>1. chk' \in Check
    BY <1>2, <1>7 DEF CheckMisnamed, Check
  <2> QED
    BY <1>0, <1>1, <1>7, <2>1 DEF CheckMisnamed, TypeOK, Making
<1>8. CASE ApplyNamed
  <2>1. WithMeta(upd) \in Update
    BY WithMetaType, OtaAssumption DEF AnnouncedMeta
  <2> QED
    BY <1>0, <1>1, <1>8, <2>1 DEF ApplyNamed, TypeOK, Making
<1>9. CASE JobRefused
  <2>1. chk' \in Check /\ upd' \in Update /\ slot' \in Slot /\ otaJob' \in BOOLEAN
    <3>1. CASE Becomes(UpdateReset(Now)) /\ UNCHANGED chk
      BY <1>0, <3>1, ResetType, BecomesType
    <3>2. CASE upd' = [upd EXCEPT !.file = None] /\ UNCHANGED <<chk, slot, otaJob>>
      BY <1>0, <3>2 DEF Update
    <3>3. CASE chk' = CheckReset(chk) /\ UNCHANGED <<upd, slot, otaJob>>
      BY <1>0, <1>2, <3>3
    <3> QED
      BY <1>9, <3>1, <3>2, <3>3 DEF JobRefused
  <2> QED
    BY <1>0, <1>1, <1>9, <2>1 DEF JobRefused, TypeOK, Making
<1>10. CASE JobClaimed
  <2>1. 1 \in Slots /\ FirstFree \in Slots /\ 0 \notin Slots
    BY <1>10, FirstFreeType, TftpAssumption DEF JobClaimed, ScanJobs, FreeSlots, Slots
  <2>2. TftpTypeOK' /\ claim' # 0
    BY <1>0, <1>10, <2>1, TftpTypes DEF JobClaimed, ScanJobs
  <2> QED
    BY <1>0, <1>10, <2>2 DEF JobClaimed, TypeOK, Making
<1>11. CASE JobFilled
  <2>1. 1 \in Slots /\ "update" \in Owners /\ "check" \in Owners
    BY TftpAssumption, OtaAssumption DEF Slots
  <2>2. TftpTypeOK' /\ claim' = 0
    BY <1>0, <1>11, <2>1, TftpTypes DEF JobFilled, FillJob
  <2> QED
    BY <1>0, <1>11, <2>2 DEF JobFilled, TypeOK, Making
<1>12. CASE StartStored
  <2>1. upd' \in Update /\ chk' \in Check
    BY <1>0, <1>12 DEF StartStored, Update, Check
  <2> QED
    BY <1>0, <1>1, <1>12, <2>1 DEF StartStored, TypeOK, Making
<1> QED
  BY <1>3, <1>4, <1>5, <1>6, <1>7, <1>8, <1>9, <1>10, <1>11, <1>12 DEF LoopCommand, CommandSteps

\* Every command keeps the types.
LEMMA CommandType ==
    ASSUME TypeOK, AnnouncedMeta, Command
    PROVE  TypeOK'
<1>0. /\ chk \in Check /\ upd \in Update /\ slot \in Slot /\ otaJob \in BOOLEAN
      /\ Now \in Rec /\ TftpTypeOK
  BY NowType DEF TypeOK
<1>1. ASSUME UNCHANGED tftpVars PROVE TftpTypeOK' /\ UNCHANGED claim
  BY <1>0, <1>1, UnchangedTftpTypes DEF tftpVars
<1>2. ASSUME NEW o \in Owners, NewJob(o) PROVE TftpTypeOK' /\ UNCHANGED claim
  <2>1. 1 \in Slots
    BY TftpAssumption DEF Slots
  <2> QED
    BY <1>0, <1>2, <2>1, TftpTypes DEF ClientKept
<1>3. "update" \in Owners /\ "check" \in Owners
  BY OtaAssumption
<1>4. ASSUME NEW f \in Files, UpdateCmd(f) PROVE TypeOK'
  <2>1. TftpTypeOK' /\ UNCHANGED claim
    BY <1>1, <1>2, <1>3, <1>4 DEF UpdateCmd
  <2>2. [Now EXCEPT !.upd.file = f] \in Rec
    BY <1>0 DEF Rec, Update
  <2>3. UpdateReset([Now EXCEPT !.upd.file = f]) \in Rec
    BY <2>2, ResetType
  <2>4. upd' \in Update /\ slot' \in Slot /\ otaJob' \in BOOLEAN
    <3>1. CASE upd' = [upd EXCEPT !.file = f, !.started = TRUE, !.web = TRUE]
               /\ UNCHANGED <<slot, otaJob>>
      BY <1>0, <3>1 DEF Update
    <3>2. CASE Becomes(UpdateReset([Now EXCEPT !.upd.file = f]))
      BY <2>3, <3>2, BecomesType
    <3> QED
      BY <1>4, <3>1, <3>2 DEF UpdateCmd
  <2> QED
    BY <1>4, <2>1, <2>4 DEF UpdateCmd, TypeOK, Making
<1>5. CASE UpdateCmdWrong
  <2>1. upd' \in Update /\ slot' \in Slot /\ otaJob' \in BOOLEAN
    BY <1>0, <1>5, ResetType, BecomesType DEF UpdateCmdWrong
  <2> QED
    BY <1>1, <1>5, <2>1 DEF UpdateCmdWrong, TypeOK, Making
<1>6. ASSUME NEW m \in Metas, NEW n \in 0..Retries, CheckRun(m, n) PROVE TypeOK'
  <2>1. TftpTypeOK' /\ UNCHANGED claim
    BY <1>1, <1>2, <1>3, <1>6 DEF CheckRun
  <2>2. chk' \in Check
    <3>1. CheckReset(chk) \in Check
      BY <1>0, CheckTypes
    <3> QED
      BY <1>6, <3>1 DEF CheckRun, Check
  <2> QED
    BY <1>6, <2>1, <2>2 DEF CheckRun, TypeOK, Making
<1>7. ASSUME NEW m \in Metas, CheckCmd(m) \/ CheckApplyCmd(m) PROVE TypeOK'
  <2>1. 0 \in 0..Retries /\ Retries \in 0..Retries
    BY OtaAssumption
  <2> QED
    BY <1>6, <1>7, <2>1 DEF CheckCmd, CheckApplyCmd
<1>8. CASE ApplyCmd
  <2>1. TftpTypeOK' /\ UNCHANGED claim
    BY <1>1, <1>2, <1>3, <1>8 DEF ApplyCmd
  <2>2. WithMeta(upd) \in Update
    BY WithMetaType, OtaAssumption DEF AnnouncedMeta
  <2>3. upd' \in Update
    BY <1>8, <2>2 DEF ApplyCmd, Update
  <2> QED
    BY <1>8, <2>1, <2>3 DEF ApplyCmd, TypeOK, Making
<1>9. ASSUME NEW st \in Strategies, StrategyCmd(st) PROVE TypeOK'
  <2>1. strat' \in [newer : BOOLEAN, ver : BOOLEAN, time : BOOLEAN]
    BY <1>9, OtaAssumption DEF StrategyCmd
  <2> QED
    BY <1>1, <1>9, <2>1 DEF StrategyCmd, TypeOK, Making
<1>10. CASE CancelCmd
  <2>1. UpdateReset(Now) \in Rec
    BY <1>0, ResetType
  <2>2. [UpdateReset(Now) EXCEPT !.upd.apply = FALSE] \in Rec
    BY <2>1 DEF Rec, Update
  <2>3. upd' \in Update /\ slot' \in Slot /\ otaJob' \in BOOLEAN
    BY <1>10, <2>2, BecomesType DEF CancelCmd
  <2> QED
    BY <1>1, <1>10, <2>3 DEF CancelCmd, TypeOK, Making
<1> QED
  BY <1>4, <1>5, <1>7, <1>8, <1>9, <1>10 DEF Command

----
\* The announced meta file.

\* The hooks and the resets of the check, for AnnouncedMeta.
Announced(c) ==
    /\ c.newVersion => c.parsed
    /\ c.parsed => c.buf \in MetaValid /\ c.ready /\ ~c.started /\ ~c.inProgress

\* No function of the check writes under the pointers.
LEMMA AnnouncedKept ==
    ASSUME NEW c \in Check, Announced(c)
    PROVE  /\ Announced(CheckReset(c))
           /\ Announced(CheckOpened(c))
           /\ CheckOpened(c).inProgress => Announced(CheckWrite(c))
           /\ Announced(CheckClose(c))
           /\ CheckOpened(c).inProgress => Announced(CheckClose(CheckWrite(c)))
           /\ Announced(CheckClose(CheckOpened(c)))
BY DEF Announced, CheckReset, CheckOpened, CheckWrite, CheckClose, Check

\* A command of the main loop that is on its way to a check has reset the last one.
Unparsed == pc \in Making /\ asker = "check" => ~chk.parsed

\* The steps of the commands in the main loop, for the meta file.
CheckMoves(d) ==
    \/ d = chk
    \/ d = CheckReset(chk)
    \/ ~d.parsed /\ ~d.newVersion
    \/ pc = "filled" /\ asker = "check" /\ d = [chk EXCEPT !.started = TRUE]

\* What a command in the main loop does to the check.
LEMMA LoopMovesCheck ==
    ASSUME TypeOK, LoopCommand \/ CommandSteps
    PROVE  CheckMoves(chk')
<1>0. chk \in Check /\ CheckReset(chk) \in Check
  BY CheckTypes DEF TypeOK
<1>1. CASE UNCHANGED chk
  BY <1>1 DEF CheckMoves
<1>2. ASSUME NEW m \in Metas, NEW n \in 0..Retries, CheckNamed(m, n) PROVE CheckMoves(chk')
  BY <1>0, <1>2 DEF CheckNamed, CheckReset, Check, CheckMoves
<1>3. CASE CheckMisnamed
  BY <1>0, <1>3 DEF CheckMisnamed, CheckReset, Check, CheckMoves
<1>4. CASE JobRefused
  BY <1>1, <1>4 DEF JobRefused, CheckMoves
<1>5. CASE StartStored
  BY <1>1, <1>5 DEF StartStored, CheckMoves
<1> QED
  BY <1>1, <1>2, <1>3, <1>4, <1>5
  DEF LoopCommand, CommandSteps, LoopUpdate, LoopCheck, LoopApply, UpdateNamed,
      UpdateMisnamed, ApplyNamed, JobClaimed, JobFilled

\* Every step keeps the announced meta file in the buffer.
LEMMA AnnouncedStep == TypeOK /\ AnnouncedMeta /\ Unparsed /\ [Next]_vars => AnnouncedMeta'
<1> SUFFICES ASSUME TypeOK, AnnouncedMeta, Unparsed, [Next]_vars PROVE Announced(chk')
  BY DEF AnnouncedMeta, Announced
<1>0. chk \in Check /\ Announced(chk)
  BY DEF TypeOK, AnnouncedMeta, Announced
<1>1. CASE UNCHANGED chk
  BY <1>0, <1>1
<1>2. CASE chk' = CheckReset(chk)
  BY <1>0, <1>2, AnnouncedKept
<1>3. ASSUME Reboot PROVE Announced(chk')
  BY <1>3 DEF Reboot, IdleCheck, Announced
<1>4. ASSUME NEW i \in Slots, TftpRun(i) \/ TftpFailed(i) PROVE Announced(chk')
  BY <1>1, <1>2, <1>4 DEF TftpRun, TftpFailed, otaVars, ErrorHook
<1>5. CASE Hooks
  <2>1. ASSUME NEW i \in Slots, Block(i) \/ LastBlockTaken(i) PROVE Announced(chk')
    BY <1>0, <1>1, <2>1, AnnouncedKept DEF Block, LastBlockTaken, CheckTakes
  <2>2. ASSUME NEW i \in Slots, NEW opened \in BOOLEAN, EndsEarly(i, opened)
        PROVE  Announced(chk')
    BY <1>0, <1>1, <2>2, AnnouncedKept DEF EndsEarly
  <2>3. ASSUME NEW i \in Slots, ErrorPacket(i) PROVE Announced(chk')
    BY <1>1, <1>2, <2>3 DEF ErrorPacket, ErrorHook
  <2> QED
    BY <1>1, <1>5, <2>1, <2>2, <2>3 DEF Hooks, TftpOnly, NameFound, otaVars
<1>6. CASE OtaRun
  <2>1. CASE CheckReady
    BY <1>0, <1>2, <2>1 DEF CheckReady, Announced, Check
  <2>2. CASE AutoApply
    BY <1>0, <2>2 DEF AutoApply, Announced, Check
  <2>3. CASE CheckTimeout
    BY <1>2, <2>3 DEF CheckTimeout
  <2> QED
    BY <1>1, <1>3, <1>6, <2>1, <2>2, <2>3
    DEF OtaRun, UpdateChecked, UpdateRejected, MarkValid, ScheduleApply, UpdateTimeout,
        PerformUpdate
<1>8. CASE LoopCommand \/ CommandSteps
  <2>1. CASE pc = "filled" /\ asker = "check" /\ chk' = [chk EXCEPT !.started = TRUE]
    BY <1>0, <2>1 DEF Unparsed, Making, Announced, Check
  <2>2. CASE ~chk'.parsed /\ ~chk'.newVersion
    BY <2>2 DEF Announced
  <2> QED
    BY <1>1, <1>2, <1>8, <2>1, <2>2, LoopMovesCheck DEF CheckMoves
<1>7. CASE Command
  <2>1. ASSUME NEW m \in Metas, NEW n, CheckRun(m, n) PROVE Announced(chk')
    BY <1>0, <2>1 DEF CheckRun, Announced, CheckReset, Check
  <2> QED
    BY <1>1, <1>7, <2>1
    DEF Command, UpdateCmd, UpdateCmdWrong, CheckCmd, CheckApplyCmd, ApplyCmd, StrategyCmd,
        CancelCmd
<1> QED
  BY <1>1, <1>3, <1>4, <1>5, <1>6, <1>7, <1>8 DEF Next, vars, Crash

\* Only ota_check_run() parses a meta file, and it does not run within a command.
LEMMA UnparsedStep == TypeOK /\ Unparsed /\ [Next]_vars => Unparsed'
<1> SUFFICES ASSUME TypeOK, Unparsed, [Next]_vars, pc' \in Making, asker' = "check"
             PROVE  ~chk'.parsed
  BY DEF Unparsed
<1>0. /\ chk \in Check /\ CheckReset(chk) \in Check
      /\ ~CheckReset(chk).parsed
      /\ pc \in Making /\ asker = "check" => ~chk.parsed
  BY CheckTypes DEF TypeOK, Unparsed, CheckReset, Check
<1>1. CASE UNCHANGED <<chk, pc, asker>>
  BY <1>0, <1>1
<1>2. CASE chk' = CheckReset(chk)
  BY <1>0, <1>2
<1>3. ~Reboot
  BY DEF Reboot, Making
<1>4. ASSUME NEW i \in Slots, TftpRun(i) \/ TftpFailed(i) PROVE ~chk'.parsed
  BY <1>1, <1>2, <1>4 DEF TftpRun, TftpFailed, otaVars, ErrorHook
<1>5. CASE Hooks
  <2>1. ASSUME ~chk.parsed
        PROVE  /\ ~CheckWrite(chk).parsed /\ ~CheckClose(CheckWrite(chk)).parsed
               /\ ~CheckClose(chk).parsed /\ ~CheckClose(CheckOpened(chk)).parsed
    BY <1>0, <2>1 DEF CheckWrite, CheckClose, CheckOpened, CheckReset, Check
  <2>2. ASSUME UNCHANGED <<pc, asker>> PROVE ~chk.parsed
    BY <1>0, <2>2
  <2>3. ASSUME NEW i \in Slots, Block(i) \/ LastBlockTaken(i) PROVE ~chk'.parsed
    BY <1>1, <2>1, <2>2, <2>3 DEF Block, LastBlockTaken
  <2>4. ASSUME NEW i \in Slots, NEW opened \in BOOLEAN, EndsEarly(i, opened)
        PROVE  ~chk'.parsed
    BY <1>1, <2>1, <2>2, <2>4 DEF EndsEarly
  <2>5. ASSUME NEW i \in Slots, ErrorPacket(i) PROVE ~chk'.parsed
    BY <1>1, <1>2, <2>5 DEF ErrorPacket, ErrorHook
  <2> QED
    BY <1>1, <1>5, <2>3, <2>4, <2>5 DEF Hooks, TftpOnly, NameFound, otaVars
<1>6. ~OtaRun
  BY <1>3
  DEF OtaRun, UpdateChecked, UpdateRejected, MarkValid, ScheduleApply, UpdateTimeout,
      PerformUpdate, CheckReady, CheckTimeout, AutoApply, InOta, Making
<1>7. CASE LoopCommand \/ CommandSteps
  <2>1. CASE JobClaimed \/ JobFilled
    BY <1>0, <2>1 DEF JobClaimed, JobFilled, Making
  <2>2. ASSUME NEW m \in Metas, NEW n \in 0..Retries, CheckNamed(m, n) PROVE ~chk'.parsed
    BY <1>0, <2>2 DEF CheckNamed, Check
  <2> QED
    BY <1>7, <2>1, <2>2
    DEF LoopCommand, CommandSteps, LoopUpdate, LoopCheck, LoopApply, UpdateNamed,
        UpdateMisnamed, CheckMisnamed, ApplyNamed, JobRefused, StartStored, Making
<1>8. CASE Command
  <2>1. ASSUME NEW m \in Metas, NEW n, CheckRun(m, n) PROVE ~chk'.parsed
    BY <1>0, <2>1 DEF CheckRun, Check
  <2> QED
    BY <1>1, <1>8, <2>1
    DEF Command, UpdateCmd, UpdateCmdWrong, CheckCmd, CheckApplyCmd, ApplyCmd, StrategyCmd,
        CancelCmd
<1> QED
  BY <1>1, <1>3, <1>4, <1>5, <1>6, <1>7, <1>8 DEF Next, vars, Crash

\* The state after sys_ota_init().
LEMMA InitType == Init => TypeOK /\ AnnouncedMeta /\ Unparsed
<1> SUFFICES ASSUME Init PROVE TypeOK /\ AnnouncedMeta /\ Unparsed
  OBVIOUS
<1>1. IdleUpdate \in Update /\ IdleCheck \in Check
  BY OtaAssumption DEF IdleUpdate, IdleCheck, Update, Check
<1>2. TftpTypeOK
  BY FreeJobType, NoTransferType DEF Init, TftpInit, TftpTypeOK
<1> QED
  BY <1>1, <1>2, EmptySlotType
  DEF Init, TypeOK, AnnouncedMeta, Unparsed, IdleCheck, DefaultStrategy, TftpInit, Making

\* The types are kept, and an announced version keeps its meta file.
LEMMA TypeStep == TypeOK /\ AnnouncedMeta /\ [Next]_vars => TypeOK'
<1> SUFFICES ASSUME TypeOK, AnnouncedMeta, [Next]_vars PROVE TypeOK'
  OBVIOUS
<1>1. CASE UNCHANGED vars
  BY <1>1 DEF TypeOK, TftpTypeOK, vars
<1>2. CASE Crash
  BY <1>2, RebootType DEF Crash
<1> QED
  BY <1>1, <1>2, HooksType, MainType, LoopType, CommandType DEF Next

\* Every variable of the client and of the OTA service keeps its type, for
\* any number of jobs, images and meta files.
THEOREM TypeCorrect == Spec => []TypeOK
<1>1. Init => TypeOK /\ AnnouncedMeta /\ Unparsed
  BY InitType
<1>2. TypeOK /\ AnnouncedMeta /\ Unparsed /\ [Next]_vars
        => TypeOK' /\ AnnouncedMeta' /\ Unparsed'
  BY TypeStep, AnnouncedStep, UnparsedStep
<1> QED
  BY <1>1, <1>2, PTL DEF Spec

\* The pointers of ota_update_mdata never outlive the meta file they point
\* into: `apply` installs what was validated.
THEOREM AnnouncedMetaStays == Spec => []AnnouncedMeta
<1>1. Init => TypeOK /\ AnnouncedMeta /\ Unparsed
  BY InitType
<1>2. TypeOK /\ AnnouncedMeta /\ Unparsed /\ [Next]_vars
        => TypeOK' /\ AnnouncedMeta' /\ Unparsed'
  BY TypeStep, AnnouncedStep, UnparsedStep
<1> QED
  BY <1>1, <1>2, PTL DEF Spec

----
\* The waiting update and its jobs.

\* One step of the update keeps the web client's update: whatever clears
\* started lets the client go.
LEMMA WebKept ==
    ASSUME NEW r \in Rec, r.upd.web => r.upd.started
    PROVE  /\ UpdateReset(r).upd.web => UpdateReset(r).upd.started
           /\ UpdateOpened(r).upd.web => UpdateOpened(r).upd.started
           /\ UpdateWrite(r).upd = UpdateOpened(r).upd
           /\ UpdateClose(r).upd.web => UpdateClose(r).upd.started
<1>1. UpdateWrite(r).upd = UpdateOpened(r).upd
  <2>1. UpdateOpened(r) \in Rec
    BY OpenedType
  <2> QED
    BY <2>1 DEF UpdateWrite, Rec
<1> QED
  BY <1>1 DEF UpdateReset, UpdateOpened, UpdateOpen, UpdateClose, Rec, Update

\* The name and the digest are all ota_update_apply() changes.
LEMMA WithMetaKeeps ==
    ASSUME TypeOK
    PROVE  /\ WithMeta(upd).web = upd.web
           /\ WithMeta(upd).started = upd.started
           /\ WithMeta(upd).ready = upd.ready
BY DEF WithMeta, TypeOK, Update

\* Every step keeps the web client's update.
LEMMA WebStep ==
    TypeOK /\ AnnouncedMeta /\ KeptClientHasUpdate /\ [Next]_vars => KeptClientHasUpdate'
<1> SUFFICES ASSUME TypeOK, AnnouncedMeta, KeptClientHasUpdate, [Next]_vars
             PROVE  upd'.web => upd'.started
  BY DEF KeptClientHasUpdate
<1>0. /\ upd \in Update /\ Now \in Rec /\ Now.upd = upd /\ xfer \in Transfer
      /\ Now.upd.web => Now.upd.started
  BY NowType DEF TypeOK, KeptClientHasUpdate, Now, TftpTypeOK
<1>1. CASE UNCHANGED upd
  BY <1>0, <1>1
<1>2. CASE Becomes(UpdateReset(Now))
  BY <1>0, <1>2, WebKept DEF Becomes
<1>3. ASSUME Reboot PROVE upd'.web => upd'.started
  BY <1>3 DEF Reboot, IdleUpdate
<1>4. ASSUME NEW i \in Slots, TftpRun(i) \/ TftpFailed(i) PROVE upd'.web => upd'.started
  BY <1>1, <1>2, <1>4 DEF TftpRun, TftpFailed, otaVars, ErrorHook
<1>5. CASE Hooks
  <2>0. /\ UpdateOpened(Now) \in Rec
        /\ UpdateOpened(Now).upd.web => UpdateOpened(Now).upd.started
    BY <1>0, OpenedType, WebKept
  <2>1. ASSUME NEW i \in Slots, Block(i) PROVE upd'.web => upd'.started
    BY <1>0, <1>1, <2>0, <2>1, WebKept DEF Block, Becomes
  <2>2. ASSUME NEW i \in Slots, LastBlockTaken(i) PROVE upd'.web => upd'.started
    <3>1. UpdateWrite(Now) \in Rec /\ UpdateWrite(Now).upd = UpdateOpened(Now).upd
      BY <1>0, <2>2, WriteType, WebKept DEF LastBlockTaken
    <3>2. UpdateClose(UpdateWrite(Now)).upd.web => UpdateClose(UpdateWrite(Now)).upd.started
      BY <2>0, <3>1, WebKept
    <3> QED
      BY <1>1, <2>2, <3>2 DEF LastBlockTaken, Becomes
  <2>3. ASSUME NEW i \in Slots, NEW opened \in BOOLEAN, EndsEarly(i, opened)
        PROVE  upd'.web => upd'.started
    <3>1. CASE UNCHANGED upd
      BY <1>1, <3>1
    <3>2. CASE Becomes(UpdateClose(IF opened THEN UpdateOpened(Now) ELSE Now))
      BY <1>0, <2>0, <3>2, WebKept DEF Becomes
    <3> QED
      BY <2>3, <3>1, <3>2 DEF EndsEarly
  <2>4. ASSUME NEW i \in Slots, ErrorPacket(i) PROVE upd'.web => upd'.started
    BY <1>1, <1>2, <2>4 DEF ErrorPacket, ErrorHook
  <2> QED
    BY <1>1, <1>5, <2>1, <2>2, <2>3, <2>4 DEF Hooks, TftpOnly, NameFound, otaVars
<1>6. CASE OtaRun
  <2>1. CASE ScheduleApply
    <3>1. [Now EXCEPT !.upd.apply = TRUE] \in Rec
      BY <1>0 DEF Rec, Update
    <3> QED
      BY <1>0, <2>1, <3>1 DEF ScheduleApply, Becomes, UpdateReset, Rec, Update
  <2> QED
    BY <1>1, <1>2, <1>3, <1>6, <2>1
    DEF OtaRun, UpdateChecked, UpdateRejected, MarkValid, UpdateTimeout, PerformUpdate,
        CheckReady, CheckTimeout, AutoApply
<1>8. CASE LoopCommand \/ CommandSteps
  <2>1. CASE ApplyNamed
    BY <1>0, <2>1, WithMetaKeeps DEF ApplyNamed
  <2>2. CASE StartStored \/ JobRefused \/ \E f \in Files : UpdateNamed(f)
    BY <1>0, <1>1, <1>2, <2>2 DEF StartStored, JobRefused, UpdateNamed, Update
  <2> QED
    BY <1>1, <1>2, <1>8, <2>1, <2>2
    DEF LoopCommand, CommandSteps, LoopUpdate, LoopCheck, LoopApply, UpdateMisnamed,
        CheckNamed, CheckMisnamed, JobClaimed, JobFilled
<1>7. CASE Command
  <2>1. ASSUME NEW f \in Files, UpdateCmd(f)
        PROVE  upd'.web => upd'.started
    <3>1. [Now EXCEPT !.upd.file = f] \in Rec
      BY <1>0 DEF Rec, Update
    <3> QED
      BY <1>0, <2>1, <3>1 DEF UpdateCmd, Becomes, UpdateReset, Rec, Update
  <2>2. CASE ApplyCmd
    <3>1. WithMeta(upd) \in Update
      BY WithMetaType, OtaAssumption DEF AnnouncedMeta
    <3> QED
      BY <1>0, <2>2, <3>1, WithMetaKeeps DEF ApplyCmd, Update
  <2>3. CASE CancelCmd
    <3>1. UpdateReset(Now) \in Rec /\ ~UpdateReset(Now).upd.web
      BY <1>0, ResetType DEF UpdateReset, Rec, Update
    <3> QED
      BY <2>3, <3>1 DEF CancelCmd, Becomes, Rec, Update
  <2> QED
    BY <1>1, <1>2, <1>7, <2>1, <2>2, <2>3
    DEF Command, UpdateCmdWrong, CheckCmd, CheckApplyCmd, CheckRun, StrategyCmd
<1> QED
  BY <1>1, <1>3, <1>4, <1>5, <1>6, <1>7, <1>8 DEF Next, vars, Crash

\* No way to end an update forgets the web client that waits for it.
THEOREM KeptClientIsLetGo == Spec => []KeptClientHasUpdate
<1>1. Init => KeptClientHasUpdate
  BY DEF Init, KeptClientHasUpdate, IdleUpdate
<1>2. Spec => [](TypeOK /\ AnnouncedMeta)
  BY TypeCorrect, AnnouncedMetaStays, PTL
<1>3. TypeOK /\ AnnouncedMeta /\ KeptClientHasUpdate /\ [Next]_vars => KeptClientHasUpdate'
  BY WebStep
<1> QED
  BY <1>1, <1>2, <1>3, PTL DEF Spec

----
\* The pause of the other modules.

\* The restart that is scheduled is not cancelled.
RestartStands == [][upd.apply => ~CancelCmd]_vars

\* The modules are paused for an update that runs or is about to be booted.
PausedFor(r) == r.job => r.upd.started \/ r.upd.apply

\* One step of the update keeps the reason of the pause: whatever clears started ends the
\* pause as well, unless the restart is scheduled.
LEMMA PausedForKept ==
    ASSUME NEW r \in Rec, PausedFor(r)
    PROVE  /\ PausedFor(UpdateReset(r))
           /\ PausedFor(UpdateOpened(r))
           /\ PausedFor(UpdateClose(r))
           /\ UpdateOpened(r) \in Rec
           /\ UpdateWrite(r).upd = UpdateOpened(r).upd
           /\ UpdateWrite(r).job = UpdateOpened(r).job
<1>1. UpdateOpened(r) \in Rec
  BY OpenedType
<1>2. /\ UpdateWrite(r).upd = UpdateOpened(r).upd
      /\ UpdateWrite(r).job = UpdateOpened(r).job
  BY <1>1 DEF UpdateWrite, Rec
<1>3. PausedFor(UpdateReset(r))
  BY DEF PausedFor, UpdateReset, Rec, Update
<1>4. PausedFor(UpdateOpened(r))
  BY DEF PausedFor, UpdateOpened, UpdateOpen, Rec, Update
<1>5. PausedFor(UpdateClose(r))
  BY <1>3 DEF PausedFor, UpdateClose, Rec, Update
<1> QED
  BY <1>1, <1>2, <1>3, <1>4, <1>5

\* Every step keeps the reason of the pause, but for cancel with the restart scheduled.
LEMMA PausedForStep ==
    /\ TypeOK /\ AnnouncedMeta /\ PausedFor(Now) /\ [Next]_vars /\ [upd.apply => ~CancelCmd]_vars
    => PausedFor(Now)'
<1> SUFFICES ASSUME TypeOK, AnnouncedMeta, PausedFor(Now), [Next]_vars,
                    (upd.apply => ~CancelCmd) \/ UNCHANGED vars
             PROVE  otaJob' => upd'.started \/ upd'.apply
  BY DEF PausedFor, Now
<1> DEFINE Goal == otaJob' => upd'.started \/ upd'.apply
<1>0. /\ upd \in Update /\ otaJob \in BOOLEAN /\ Now \in Rec /\ Now.upd = upd /\ Now.job = otaJob
      /\ xfer \in Transfer /\ (otaJob => upd.started \/ upd.apply)
  BY NowType DEF TypeOK, PausedFor, Now, TftpTypeOK
<1>b. ASSUME NEW r, Becomes(r), PausedFor(r) PROVE Goal
  BY <1>b DEF Becomes, PausedFor
<1>1. CASE UNCHANGED <<upd, otaJob>>
  BY <1>0, <1>1
<1>2. CASE Becomes(UpdateReset(Now))
  BY <1>0, <1>2, <1>b, PausedForKept
<1>3. ASSUME Reboot PROVE Goal
  BY <1>3 DEF Reboot
<1>4. ASSUME NEW i \in Slots, TftpRun(i) \/ TftpFailed(i) PROVE Goal
  BY <1>1, <1>2, <1>4 DEF TftpRun, TftpFailed, otaVars, ErrorHook
<1>w. ASSUME NEW w, w.upd = UpdateOpened(Now).upd, w.job = UpdateOpened(Now).job
      PROVE  PausedFor(w)
  <2>1. PausedFor(UpdateOpened(Now))
    BY <1>0, PausedForKept
  <2> QED
    BY <1>w, <2>1 DEF PausedFor
<1>5. CASE Hooks
  <2>1. ASSUME NEW i \in Slots, Block(i) PROVE Goal
    <3>1. PausedFor(UpdateWrite(Now))
      BY <1>0, <1>w, PausedForKept
    <3> QED
      BY <1>1, <1>b, <2>1, <3>1 DEF Block
  <2>2. ASSUME NEW i \in Slots, LastBlockTaken(i) PROVE Goal
    <3>1. UpdateWrite(Now) \in Rec
      BY <1>0, <2>2, WriteType DEF LastBlockTaken
    <3>2. PausedFor(UpdateWrite(Now))
      BY <1>0, <1>w, PausedForKept
    <3>3. PausedFor(UpdateClose(UpdateWrite(Now)))
      BY <3>1, <3>2, PausedForKept
    <3> QED
      BY <1>1, <1>b, <2>2, <3>3 DEF LastBlockTaken
  <2>3. ASSUME NEW i \in Slots, NEW opened \in BOOLEAN, EndsEarly(i, opened) PROVE Goal
    <3>1. PausedFor(UpdateClose(IF opened THEN UpdateOpened(Now) ELSE Now))
      BY <1>0, PausedForKept
    <3> QED
      BY <1>1, <1>b, <2>3, <3>1 DEF EndsEarly
  <2>4. ASSUME NEW i \in Slots, ErrorPacket(i) PROVE Goal
    BY <1>1, <1>2, <2>4 DEF ErrorPacket, ErrorHook
  <2> QED
    BY <1>1, <1>5, <2>1, <2>2, <2>3, <2>4 DEF Hooks, TftpOnly, NameFound, otaVars
<1>6. CASE OtaRun
  <2>1. CASE ScheduleApply
    <3>1. UpdateReset([Now EXCEPT !.upd.apply = TRUE]).upd.apply
      BY <1>0 DEF UpdateReset, Rec, Update
    <3> QED
      BY <2>1, <3>1 DEF ScheduleApply, Becomes
  <2> QED
    BY <1>1, <1>2, <1>3, <1>6, <2>1
    DEF OtaRun, UpdateChecked, UpdateRejected, MarkValid, UpdateTimeout, PerformUpdate,
        CheckReady, CheckTimeout, AutoApply
<1>9. CASE LoopCommand \/ CommandSteps
  <2>1. CASE ApplyNamed
    BY <1>0, <2>1 DEF ApplyNamed, WithMeta, Update
  <2>2. CASE StartStored \/ JobRefused \/ \E f \in Files : UpdateNamed(f)
    BY <1>0, <1>1, <1>2, <2>2 DEF StartStored, JobRefused, UpdateNamed, Update
  <2> QED
    BY <1>1, <1>2, <1>9, <2>1, <2>2
    DEF LoopCommand, CommandSteps, LoopUpdate, LoopCheck, LoopApply, UpdateMisnamed,
        CheckNamed, CheckMisnamed, JobClaimed, JobFilled
<1>7. CASE Command /\ ~UNCHANGED vars
  <2>1. ASSUME NEW f \in Files, UpdateCmd(f) PROVE Goal
    <3>1. CASE upd' = [upd EXCEPT !.file = f, !.started = TRUE, !.web = TRUE]
      BY <1>0, <3>1 DEF Update
    <3>2. CASE Becomes(UpdateReset([Now EXCEPT !.upd.file = f]))
      <4>1. [Now EXCEPT !.upd.file = f] \in Rec
        BY <1>0 DEF Rec, Update
      <4>2. PausedFor([Now EXCEPT !.upd.file = f])
        BY <1>0 DEF PausedFor, Rec, Update
      <4> QED
        BY <1>b, <3>2, <4>1, <4>2, PausedForKept
    <3> QED
      BY <2>1, <3>1, <3>2 DEF UpdateCmd
  <2>2. CASE ApplyCmd
    <3>1. WithMeta(upd) \in Update
      BY WithMetaType, OtaAssumption DEF AnnouncedMeta
    <3>2. /\ upd'.started \/ upd'.started = upd.started
          /\ upd'.apply = upd.apply /\ UNCHANGED otaJob
      BY <1>0, <2>2, <3>1 DEF ApplyCmd, WithMeta, Update
    <3> QED
      BY <1>0, <3>2
  <2>3. CASE CancelCmd
    <3>1. ~upd.apply
      BY <1>7, <2>3
    <3>2. UpdateReset(Now).job = FALSE /\ UpdateReset(Now) \in Rec
      BY <1>0, <3>1, ResetType DEF UpdateReset
    <3> QED
      BY <2>3, <3>2 DEF CancelCmd, Becomes, Rec
  <2> QED
    BY <1>1, <1>2, <1>7, <2>1, <2>2, <2>3
    DEF Command, UpdateCmdWrong, CheckCmd, CheckApplyCmd, CheckRun, StrategyCmd
<1>8. CASE UNCHANGED vars
  BY <1>1, <1>8 DEF vars
<1> QED
  BY <1>3, <1>4, <1>5, <1>6, <1>7, <1>8, <1>9 DEF Next, Crash

\* cancel in the time between the schedule of the restart and the restart, which clears
\* update.apply and leaves the job set, is the only way in which the other modules stay
\* paused for nothing: if no restart that is scheduled is cancelled, PausedOnlyForUpdate
\* holds, for any images, jobs, commands, packets and restarts.
THEOREM OnlyLateCancelPauses == Spec /\ RestartStands => []PausedOnlyForUpdate
<1>1. Init => PausedFor(Now)
  BY DEF Init, PausedFor, Now
<1>2. Spec => [](TypeOK /\ AnnouncedMeta)
  BY TypeCorrect, AnnouncedMetaStays, PTL
<1>3. PausedFor(Now) => PausedOnlyForUpdate
  BY DEF PausedFor, Now, PausedOnlyForUpdate
<1>4. /\ TypeOK /\ AnnouncedMeta /\ PausedFor(Now) /\ [Next]_vars /\ [upd.apply => ~CancelCmd]_vars
      => PausedFor(Now)'
  BY PausedForStep
<1> QED
  BY <1>1, <1>2, <1>3, <1>4, PTL DEF Spec, RestartStands

----
\* The job of a waiting update.

\* The steps of the client that end no job keep the owners of all jobs that
\* are taken; a new job takes a slot that is free.
LEMMA OwnersKept ==
    ASSUME TftpTypeOK, HasJob, NEW i \in Slots
    PROVE  /\ \A o \in Owners : NewJob(o) => HasJob'
           /\ JobResolved(i) \/ JobResolving(i) \/ JobRequested(i) => HasJob'
           /\ \A q \in dns, found \in BOOLEAN : PeerFound(q, found) => HasJob'
           /\ UNCHANGED jobs => HasJob'
<1>0. PICK k \in Slots : jobs[k].owner = "update"
  BY DEF HasJob
<1>1. "update" # None
  BY TftpAssumption, OtaAssumption
<1>2. ASSUME NEW o \in Owners, NewJob(o) PROVE HasJob'
  <2>1. FirstFree \in FreeSlots
    BY <1>2, FirstFreeType DEF NewJob
  <2>2. FirstFree # k
    BY <1>0, <1>1, <2>1 DEF FreeSlots, Started
  <2> QED
    BY <1>0, <1>2, <2>2 DEF NewJob, WithNewJob, HasJob, TftpTypeOK
<1>3. ASSUME JobResolved(i) \/ JobResolving(i) \/ JobRequested(i) PROVE HasJob'
  BY <1>0, <1>3 DEF JobResolved, JobResolving, JobRequested, HasJob, TftpTypeOK, Job
<1>4. ASSUME NEW q \in dns, NEW found \in BOOLEAN, PeerFound(q, found) PROVE HasJob'
  BY <1>0, <1>4 DEF PeerFound, HasJob, TftpTypeOK, Job
<1> QED
  BY <1>0, <1>2, <1>3, <1>4 DEF HasJob

\* The job of the update outlives the end of a job of another owner.
LEMMA OtherJobEnds ==
    ASSUME TftpTypeOK, HasJob, NEW i \in Slots, jobs[i].owner # "update",
           jobs' = [jobs EXCEPT ![i] = FreeJob]
    PROVE  HasJob'
BY DEF HasJob, TftpTypeOK

\* The end of the wait: a reset or a close leaves nothing to wait for.
LEMMA WaitEnds ==
    ASSUME NEW r \in Rec
    PROVE  /\ ~UpdateReset(r).upd.started
           /\ ~(UpdateClose(r).upd.started /\ ~UpdateClose(r).upd.ready)
BY DEF UpdateReset, UpdateClose, Rec, Update

\* The main loop fills the slot of an update with a check.
Overwrites == pc = "claiming" /\ asker = "check" /\ jobs[claim].owner = "update"

\* The main loop stores `started` of an update whose job is over.
StartsLate == pc = "filled" /\ asker # "check" /\ ~HasJob

\* Every other step keeps a job for a waiting update that has one.
LEMMA JobStep ==
    ASSUME TypeOK, AnnouncedMeta, [Next]_vars, Waits', Waits => HasJob,
           ~Overwrites, ~StartsLate
    PROVE  HasJob'
<1>0. /\ upd \in Update /\ Now \in Rec /\ Now.upd = upd /\ xfer \in Transfer
      /\ TftpTypeOK
      /\ Waits => HasJob
      /\ Waits'
  BY NowType DEF TypeOK, Now, TftpTypeOK
<1>1. 1 \in Slots
  BY TftpAssumption DEF Slots
<1>2. ASSUME UNCHANGED upd PROVE HasJob
  BY <1>0, <1>2 DEF Waits
<1>3. ASSUME UNCHANGED <<upd, jobs>> PROVE HasJob'
  BY <1>0, <1>1, <1>2, <1>3, OwnersKept
<1>4. ASSUME Becomes(UpdateReset(Now)) PROVE FALSE
  BY <1>0, <1>4, WaitEnds DEF Becomes, Waits
<1>5. ASSUME Reboot PROVE FALSE
  BY <1>0, <1>5 DEF Reboot, IdleUpdate, Waits
<1>6. ASSUME NEW i \in Slots, ErrorHook(i), jobs' = [jobs EXCEPT ![i] = FreeJob] PROVE HasJob'
  <2>1. CASE jobs[i].owner = "update"
    BY <1>4, <1>6, <2>1 DEF ErrorHook
  <2>2. CASE jobs[i].owner # "update"
    BY <1>0, <1>2, <1>6, <2>2, OtherJobEnds DEF ErrorHook
  <2> QED
    BY <2>1, <2>2
<1>7. ASSUME NEW i \in Slots, TftpRun(i) \/ TftpFailed(i) PROVE HasJob'
  <2>1. CASE TftpFailed(i)
    BY <1>6, <2>1 DEF TftpFailed, JobFailed
  <2>2. CASE TftpRun(i)
    <3>1. HasJob
      BY <1>2, <2>2 DEF TftpRun, otaVars
    <3>2. CASE JobRequest(i, FileOf(i))
      BY <1>0, <3>1, <3>2, OwnersKept DEF JobRequest
    <3> QED
      BY <1>0, <2>2, <3>1, <3>2, OwnersKept DEF TftpRun
  <2> QED
    BY <1>7, <2>1, <2>2
<1>8. CASE Hooks
  <2>1. ASSUME NEW i \in Slots, Block(i) PROVE HasJob'
    <3>1. CASE jobs[i].owner = "update"
      BY <1>0, <2>1, <3>1 DEF Block, PacketNext, HasJob
    <3>2. CASE jobs[i].owner # "update"
      BY <1>3, <2>1, <3>2 DEF Block, PacketNext
    <3> QED
      BY <3>1, <3>2
  <2>2. ASSUME NEW i \in Slots, LastBlockTaken(i) PROVE HasJob'
    <3>1. CASE jobs[i].owner = "update"
      <4>1. UpdateWrite(Now) \in Rec
        BY <1>0, <2>2, WriteType DEF LastBlockTaken
      <4> QED
        BY <1>0, <2>2, <3>1, <4>1, WaitEnds DEF LastBlockTaken, Becomes, Waits
    <3>2. CASE jobs[i].owner # "update"
      BY <1>0, <1>2, <2>2, <3>2, OtherJobEnds DEF LastBlockTaken, PacketEnd
    <3> QED
      BY <3>1, <3>2
  <2>3. ASSUME NEW i \in Slots, NEW opened \in BOOLEAN, EndsEarly(i, opened) PROVE HasJob'
    <3>1. CASE jobs[i].owner = "update"
      <4>1. (IF opened THEN UpdateOpened(Now) ELSE Now) \in Rec
        BY <1>0, OpenedType
      <4> QED
        BY <1>0, <2>3, <3>1, <4>1, WaitEnds DEF EndsEarly, Becomes, Waits
    <3>2. CASE jobs[i].owner # "update"
      BY <1>0, <1>2, <2>3, <3>2, OtherJobEnds DEF EndsEarly, PacketEnd
    <3> QED
      BY <3>1, <3>2
  <2>4. ASSUME NEW i \in Slots, ErrorPacket(i) PROVE HasJob'
    BY <1>6, <2>4 DEF ErrorPacket, PacketEnd
  <2>5. CASE TftpOnly /\ PacketOrphan
    BY <1>3, <2>5 DEF TftpOnly, PacketOrphan, otaVars
  <2>6. CASE TftpOnly /\ NameFound
    <3>1. HasJob
      BY <1>2, <2>6 DEF TftpOnly, otaVars
    <3> QED
      BY <1>0, <1>1, <2>6, <3>1, OwnersKept DEF NameFound
  <2> QED
    BY <1>8, <2>1, <2>2, <2>3, <2>4, <2>5, <2>6 DEF Hooks, TftpOnly
<1>9. WithMeta(upd) \in Update
  BY WithMetaType, OtaAssumption DEF AnnouncedMeta
<1>10. CASE OtaRun
  <2>1. CASE ScheduleApply
    <3>1. [Now EXCEPT !.upd.apply = TRUE] \in Rec
      BY <1>0 DEF Rec, Update
    <3> QED
      BY <1>0, <2>1, <3>1, WaitEnds DEF ScheduleApply, Becomes, Waits
  <2> QED
    BY <1>3, <1>4, <1>5, <1>10, <2>1
    DEF OtaRun, UpdateChecked, UpdateRejected, MarkValid, UpdateTimeout, PerformUpdate,
        CheckReady, CheckTimeout, AutoApply, tftpVars
<1>13. CASE LoopCommand \/ CommandSteps
  <2>1. CASE ApplyNamed \/ JobRefused \/ \E f \in Files : UpdateNamed(f)
    <3>1. UNCHANGED tftpVars /\ (Becomes(UpdateReset(Now)) \/ Waits)
      BY <1>0, <2>1, WithMetaKeeps DEF ApplyNamed, JobRefused, UpdateNamed, Update, Waits
    <3> QED
      BY <1>0, <1>1, <1>4, <3>1, OwnersKept DEF tftpVars
  <2>2. CASE StartStored
    <3>1. CASE asker = "check"
      BY <1>3, <2>2, <3>1 DEF StartStored, tftpVars
    <3>2. CASE asker # "check"
      BY <1>0, <1>1, <2>2, <3>2, OwnersKept DEF StartStored, StartsLate, tftpVars
    <3> QED
      BY <3>1, <3>2
  <2>3. CASE JobFilled
    <3>1. claim \in Slots /\ UNCHANGED upd
      BY <2>3 DEF JobFilled, FillJob, TypeOK, TftpTypeOK
    <3>2. CASE asker = "check"
      <4>1. PICK k \in Slots : jobs[k].owner = "update"
        BY <1>2, <3>1 DEF HasJob
      <4>2. k # claim
        BY <2>3, <3>2, <4>1 DEF JobFilled, Overwrites
      <4> QED
        BY <1>0, <2>3, <3>1, <4>1, <4>2 DEF JobFilled, FillJob, WithNewJob, HasJob, TftpTypeOK
    <3>3. CASE asker # "check"
      <4>1. [FreeJob EXCEPT !.owner = "update"].owner = "update"
        BY DEF FreeJob
      <4> QED
        BY <1>0, <2>3, <3>1, <3>3, <4>1 DEF JobFilled, FillJob, WithNewJob, HasJob, TftpTypeOK
    <3> QED
      BY <3>2, <3>3
  <2>4. CASE JobClaimed
    BY <1>3, <2>4 DEF JobClaimed, ScanJobs
  <2> QED
    BY <1>3, <1>4, <1>13, <2>1, <2>2, <2>3, <2>4
    DEF LoopCommand, CommandSteps, LoopUpdate, LoopCheck, LoopApply, UpdateMisnamed,
        CheckNamed, CheckMisnamed, tftpVars
<1>11. ASSUME NewJob("update") PROVE HasJob'
  <2>1. FirstFree \in Slots
    BY <1>11, FirstFreeType DEF NewJob, FreeSlots
  <2>2. [FreeJob EXCEPT !.owner = "update"].owner = "update"
    BY DEF FreeJob
  <2> QED
    BY <1>0, <1>11, <2>1, <2>2 DEF NewJob, WithNewJob, HasJob, TftpTypeOK
<1>12. CASE Command
  <2>1. ASSUME NEW f \in Files, UpdateCmd(f) PROVE HasJob'
    <3>1. [Now EXCEPT !.upd.file = f] \in Rec
      BY <1>0 DEF Rec, Update
    <3> QED
      BY <1>0, <1>11, <2>1, <3>1, WaitEnds DEF UpdateCmd, Becomes, Waits
  <2>2. CASE ApplyCmd
    <3>1. CASE NewJob("update")
      BY <1>11, <3>1
    <3>2. CASE upd' = [WithMeta(upd) EXCEPT !.file = None] /\ UNCHANGED tftpVars
      <4>1. Waits
        BY <1>0, <1>9, <3>2, WithMetaKeeps DEF Update, Waits
      <4> QED
        BY <1>0, <1>1, <3>2, <4>1, OwnersKept DEF tftpVars
    <3> QED
      BY <2>2, <3>1, <3>2 DEF ApplyCmd
  <2>3. ASSUME NEW m \in Metas, NEW n, CheckRun(m, n) PROVE HasJob'
    <3>1. HasJob
      BY <1>2, <2>3 DEF CheckRun
    <3> QED
      BY <1>0, <1>1, <2>3, <3>1, OwnersKept, OtaAssumption DEF CheckRun, tftpVars
  <2>4. CASE CancelCmd
    <3>1. UpdateReset(Now) \in Rec /\ ~UpdateReset(Now).upd.started
      BY <1>0, ResetType, WaitEnds
    <3> QED
      BY <1>0, <2>4, <3>1 DEF CancelCmd, Becomes, Rec, Update, Waits
  <2> QED
    BY <1>3, <1>4, <1>12, <2>1, <2>2, <2>3, <2>4
    DEF Command, UpdateCmdWrong, CheckCmd, CheckApplyCmd, StrategyCmd, tftpVars
<1> QED
  BY <1>3, <1>5, <1>7, <1>8, <1>10, <1>12, <1>13 DEF Next, vars, Crash

\* A waiting update keeps a job, for any number of jobs, orphans and commands of
\* the interrupt and of the main loop: it is without one only after the memset of
\* a check that found the slot free before the update took it, or after the store
\* of `started` for a job that was over already.
THEOREM WaitingUpdateKeepsJob == Spec => UpdateKeepsJob
<1>1. TypeOK /\ AnnouncedMeta /\ [Next]_vars
        => [(Waits /\ ~HasJob)' =>
              \/ Waits /\ ~HasJob
              \/ pc = "claiming" /\ asker = "check" /\ jobs[claim].owner = "update"
              \/ pc = "filled" /\ asker # "check" /\ ~HasJob]_vars
  BY JobStep DEF Overwrites, StartsLate
<1> QED
  BY <1>1, TypeCorrect, AnnouncedMetaStays, PTL DEF Spec, UpdateKeepsJob
====
