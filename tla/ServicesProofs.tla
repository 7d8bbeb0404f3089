---- MODULE ServicesProofs ----
(***************************************************************************)
(* What is proved about the services of MCServices, each for its own       *)
(* specification and for any values of its constants, and about their      *)
(* composition.                                                            *)
(***************************************************************************)
EXTENDS MCServices, WellFoundedInduction, TLAPS

\* A scan that starts with the first element of a table finds the first one.
LEMMA HasLeast ==
    ASSUME NEW S \in SUBSET Nat, S # {}
    PROVE  \E x \in S : \A y \in S : x <= y
<1> DEFINE R == OpToRel(<, Nat)
<1>1. \A x, y \in Nat : y < x => <<y, x>> \in R
  BY Zenon DEF OpToRel
<1>2. IsWellFoundedOn(R, Nat)
  BY NatLessThanWellFounded, Zenon
<1> HIDE DEF R
<1>3. PICK x \in S : \A y \in S : <<y, x>> \notin R
  BY <1>2, WFMin
<1>4. \A y \in S : ~(y < x)
  BY <1>1, <1>3
<1>5. \A y \in S : x <= y
  BY <1>4
<1> QED
  BY <1>5

----
\* The files: the table of open files and the copies.

\* A script that looks for a descriptor has no file open.
FsInv == FsTypeOK /\ CopyLetsGo /\ (reader.scan # 0 => reader.fd = 0)

\* The scan for a descriptor finds one of the table, or none.
LEMMA FreeFdType ==
    ASSUME FsTypeOK
    PROVE  FreeFd \in 0..MaxOpen /\ (FreeFd # 0 => FreeFd \in Fds)
<1> DEFINE free == {f \in Fds : open[f] = "none"}
<1>1. free \in SUBSET Nat /\ free \subseteq Fds
  BY DEF Fds
<1>2. CASE free = {}
  BY <1>2, FsAssumption DEF FreeFd
<1>3. CASE free # {}
  <2>1. \E f \in free : \A g \in free : f <= g
    BY <1>1, <1>3, HasLeast
  <2>2. FreeFd = CHOOSE f \in free : \A g \in free : f <= g
    BY <1>3, Zenon DEF FreeFd
  <2>3. FreeFd \in free
    <3> HIDE DEF free
    <3> QED BY <2>1, <2>2
  <2> QED
    BY <1>1, <2>3, FsAssumption DEF Fds
<1> QED
  BY <1>2, <1>3

\* The copies and the jobs a step can leave, and the command at rest.
LEMMA FsParts ==
    /\ NoCopy \in Copy /\ NoJob \in TftpJob /\ NoCommand \in Command /\ OtherJob \in TftpJob
    /\ \A c \in 0..NCopies, get \in BOOLEAN : CopyJob(c, get) \in TftpJob
<1>1. NoCopy \in Copy
  BY FsAssumption DEF NoCopy, Copy, Ways
<1>2. NoJob \in TftpJob
  BY FsAssumption DEF NoJob, TftpJob
<1>3. NoCommand \in Command
  BY FsAssumption DEF NoCommand, Command, CmdPlaces
<1>4. OtherJob \in TftpJob
  BY <1>2 DEF OtherJob, TftpJob
<1>5. ASSUME NEW c \in 0..NCopies, NEW get \in BOOLEAN PROVE CopyJob(c, get) \in TftpJob
  BY <1>2, <1>5 DEF CopyJob, TftpJob
<1> QED
  BY <1>1, <1>2, <1>3, <1>4, <1>5

\* A job found free is one of the table.
LEMMA SlotTypes == \A j \in FreeJobs : j \in Jobs /\ j \in 0..MaxTftp /\ j # 0
BY FsAssumption DEF FreeJobs, Jobs

\* The invariant of the copies holds at first.
LEMMA FsInvInit == FsInit => FsInv
<1> SUFFICES ASSUME FsInit PROVE FsInv
  OBVIOUS
<1>1. reader \in [fd : 0..MaxOpen, scan : 0..MaxOpen] /\ copies \in 0..NCopies
  BY FsAssumption DEF FsInit
<1>2. tftp \in [Jobs -> TftpJob] /\ open \in [Fds -> {"none", "copy", "script"}]
  BY FsParts DEF FsInit
<1>3. FsTypeOK
  BY <1>1, <1>2, FsParts DEF FsInit, FsTypeOK, NoCommand
<1> QED
  BY <1>3 DEF FsInit, FsInv, CopyLetsGo, NoCopy

\* fs_cp_reset() closes the file of the copy and no other, whatever copy the copy_job
\* names then.
LEMMA CpResetKeeps ==
    ASSUME FsInv, UNCHANGED reader, tftp' \in [Jobs -> TftpJob], copies' \in 0..NCopies,
           cmd' \in Command, cmd'.at \in {"claimed", "other"} => cmd'.slot # 0,
           open' = IF copy.fd = 0 THEN open ELSE [open EXCEPT ![copy.fd] = "none"],
           copy' \in Copy, copy'.fd = 0, ~copy'.web
    PROVE  FsInv'
<1>1. open' \in [Fds -> {"none", "copy", "script"}]
  BY DEF FsInv, FsTypeOK, Fds
<1>2. FsTypeOK'
  BY <1>1 DEF FsInv, FsTypeOK
<1>3. ASSUME NEW f \in Fds, open'[f] # "none" PROVE f = reader.fd
  <2>1. open \in [Fds -> {"none", "copy", "script"}]
    BY DEF FsInv, FsTypeOK
  <2>2. open[f] # "none" /\ f # copy.fd
    BY <1>3, <2>1 DEF Fds
  <2> QED
    BY <2>2 DEF FsInv, CopyLetsGo
<1>4. CopyLetsGo'
  BY <1>3 DEF CopyLetsGo
<1> QED
  BY <1>2, <1>4 DEF FsInv

\* The copy_job after fs_cp_reset().
LEMMA ResetIs == CpReset => copy' = NoCopy /\ copy'.fd = 0 /\ ~copy'.web /\ ~copy'.started
BY DEF CpReset, NoCopy

\* The hook that ends a job keeps the invariant.
LEMMA EndJobKeeps ==
    ASSUME FsInv, NEW j \in Jobs, EndJob(j), UNCHANGED <<cmd, reader, copies>>
    PROVE  FsInv'
<1>1. tftp' \in [Jobs -> TftpJob]
  BY FsParts DEF EndJob, FsInv, FsTypeOK
<1> QED
  BY <1>1, CpResetKeeps, ResetIs, FsParts DEF EndJob, CpReset, FsInv, FsTypeOK

\* A step that leaves the files alone and stores into the command, the jobs or the
\* copy_job keeps the invariant.
LEMMA StoreKeeps ==
    ASSUME FsInv, UNCHANGED <<open, reader>>, tftp' \in [Jobs -> TftpJob],
           copies' \in 0..NCopies,
           cmd' \in Command, cmd'.at \in {"claimed", "other"} => cmd'.slot # 0,
           copy' \in Copy, copy'.fd = copy.fd,
           ~copy'.started => ~copy.started, copy'.web => copy.web
    PROVE  FsInv'
BY DEF FsInv, FsTypeOK, CopyLetsGo

\* The hooks of a copy.
LEMMA HookBlockKeeps ==
    ASSUME FsInv, NEW j \in Jobs, FsHookBlock(j)
    PROVE  FsInv'
<1> DEFINE fd == FdOf(tftp[j].get)
<1>0. UNCHANGED <<cmd, reader, copies>>
  BY DEF FsHookBlock
<1>t. FsTypeOK /\ CopyLetsGo
  BY DEF FsInv
<1>1. CASE EndJob(j)
  BY <1>0, <1>1, EndJobKeeps
<1>2. CASE /\ ~(~copy.started \/ fd = 0 \/ tftp[j].blk = FsBlocks)
           /\ tftp' = [tftp EXCEPT ![j].blk = @ + 1]
           /\ copy' = [copy EXCEPT !.fd = fd]
           /\ open' = [open EXCEPT ![fd] = IF copy.fd = 0 THEN "copy" ELSE @]
  <2>1. fd \in 0..MaxOpen /\ fd \in Fds /\ (copy.fd # 0 => fd = copy.fd)
    BY <1>2, <1>t, FreeFdType DEF FdOf, FsTypeOK, Fds, Copy
  <2> HIDE DEF fd
  <2>2. copy' \in Copy /\ copy'.fd = fd /\ copy'.started
    BY <1>2, <1>t, <2>1 DEF FsTypeOK, Copy
  <2>3. tftp[j] \in TftpJob /\ tftp[j].blk + 1 \in 0..FsBlocks
    <3>1. tftp[j] \in TftpJob
      BY <1>t DEF FsTypeOK
    <3>2. tftp[j].blk \in 0..FsBlocks /\ tftp[j].blk # FsBlocks
      BY <1>2, <3>1 DEF TftpJob
    <3> QED
      BY <3>1, <3>2, FsAssumption
  <2>4. tftp' \in [Jobs -> TftpJob]
    BY <1>2, <1>t, <2>3 DEF FsTypeOK, TftpJob
  <2>5. open' \in [Fds -> {"none", "copy", "script"}]
    BY <1>2, <1>t, <2>1 DEF FsTypeOK
  <2>6. FsTypeOK'
    BY <1>0, <1>t, <2>2, <2>4, <2>5 DEF FsTypeOK
  <2>7. ASSUME NEW f \in Fds, open'[f] # "none" PROVE f \in {copy'.fd, reader'.fd}
    <3>1. f = fd \/ open[f] # "none"
      BY <1>2, <1>t, <2>1, <2>7 DEF FsTypeOK
    <3>2. copy.fd = 0 => copy.fd \notin Fds
      BY DEF Fds
    <3> QED
      BY <1>0, <1>t, <2>1, <2>2, <3>1, <3>2 DEF CopyLetsGo
  <2> QED
    BY <1>0, <2>2, <2>6, <2>7 DEF FsInv, CopyLetsGo
<1> QED
  BY <1>1, <1>2 DEF FsHookBlock

\* A copy of the web begins.
LEMMA WebCpKeeps ==
    ASSUME FsInv, NEW get \in BOOLEAN, WebCp(get)
    PROVE  FsInv'
<1>t. FsTypeOK /\ copies \in 0..NCopies /\ tftp \in [Jobs -> TftpJob]
  BY DEF FsInv, FsTypeOK
<1>1. copies' = copies + 1 /\ copies' \in 0..NCopies /\ UNCHANGED <<cmd, reader>>
  BY <1>t, FsAssumption DEF WebCp
<1>2. CASE CpReset /\ UNCHANGED tftp
  BY <1>t, <1>1, <1>2, CpResetKeeps, ResetIs, FsParts DEF CpReset, FsTypeOK
<1>3. ASSUME NEW j \in FreeJobs, tftp' = [tftp EXCEPT ![j] = CopyJob(copies + 1, get)],
             copy' = [id |-> copies + 1, way |-> IF get THEN "get" ELSE "put",
                      started |-> TRUE, fd |-> 0, web |-> TRUE],
             UNCHANGED open, ~copy.started
      PROVE  FsInv'
  <2>1. tftp' \in [Jobs -> TftpJob]
    BY <1>t, <1>1, <1>3, FsParts DEF FreeJobs
  <2>2. copy' \in Copy /\ copy'.fd = 0 /\ copy'.started
    BY <1>1, <1>3, FsAssumption DEF Copy, Ways
  <2>3. FsTypeOK'
    BY <1>t, <1>1, <1>3, <2>1, <2>2 DEF FsTypeOK
  <2>4. copy.fd = 0
    BY <1>3 DEF FsInv, CopyLetsGo
  <2> QED
    BY <1>1, <1>3, <2>2, <2>3, <2>4 DEF FsInv, CopyLetsGo
<1> QED
  BY <1>2, <1>3 DEF WebCp

\* The steps of a command in the main loop.
LEMMA MainCpKeeps ==
    ASSUME FsInv, MainCp \/ OtherScan \/ OtherFill
    PROVE  FsInv'
<1>t. /\ FsTypeOK /\ copies \in 0..NCopies /\ tftp \in [Jobs -> TftpJob]
      /\ cmd \in Command /\ copy \in Copy
  BY DEF FsInv, FsTypeOK
<1>1. CASE CpCheck
  <2>1. PICK a \in {"checked", "closing"} : cmd' = [at |-> a, get |-> FALSE, slot |-> 0]
    BY <1>1 DEF CpCheck
  <2>2. cmd' \in Command /\ cmd'.at \notin {"claimed", "other"}
    BY <2>1, FsAssumption DEF Command, CmdPlaces
  <2> QED
    BY <1>t, <1>1, <2>2, StoreKeeps DEF CpCheck
<1>2. CASE CpParse
  <2>1. cmd' \in Command /\ cmd'.at \notin {"claimed", "other"}
    <3>1. PICK a \in {"parsed", "closing"} : cmd' = [cmd EXCEPT !.at = a]
      BY <1>2 DEF CpParse
    <3> QED
      BY <1>t, <3>1 DEF Command, CmdPlaces
  <2>2. copy' \in Copy /\ copy'.fd = 0 /\ ~copy'.web /\ copies' \in 0..NCopies
    <3>1. CASE copy' = NoCopy /\ UNCHANGED copies
      BY <1>t, <3>1, FsParts DEF NoCopy
    <3>2. ASSUME NEW way \in {"local", "get", "put"}, copies < NCopies,
                 copy' = [id |-> copies + 1, way |-> way, started |-> FALSE, fd |-> 0,
                          web |-> FALSE],
                 copies' = copies + 1
          PROVE  copy' \in Copy /\ copy'.fd = 0 /\ ~copy'.web /\ copies' \in 0..NCopies
      <4>1. copies + 1 \in 0..NCopies
        BY <1>t, <3>2, FsAssumption
      <4> QED
        BY <3>2, <4>1, FsAssumption DEF NoCopy, Copy, Ways
    <3> QED
      BY <1>2, <3>1, <3>2 DEF CpParse
  <2> QED
    BY <1>t, <1>2, <2>1, <2>2, CpResetKeeps DEF CpParse
<1>3. CASE CpStart
  <2>1. cmd' \in Command /\ cmd'.at \notin {"claimed", "other"}
    BY <1>t, <1>3 DEF CpStart, Command, CmdPlaces
  <2>2. copy' \in Copy /\ copy'.fd = copy.fd /\ copy'.started /\ copy'.web = copy.web
    BY <1>t, <1>3 DEF CpStart, Copy
  <2> QED
    BY <1>t, <1>3, <2>1, <2>2, StoreKeeps DEF CpStart
<1>4. CASE CpScan
  <2>1. cmd' \in Command /\ (cmd'.at = "claimed" => cmd'.slot # 0) /\ cmd'.at # "other"
    <3>1. ASSUME NEW j \in FreeJobs, cmd' = [cmd EXCEPT !.at = "claimed", !.slot = j]
          PROVE  cmd' \in Command /\ cmd'.slot # 0 /\ cmd'.at # "other"
      BY <1>t, <3>1, SlotTypes DEF Command, CmdPlaces
    <3>2. ASSUME cmd' = [cmd EXCEPT !.at = "closing"]
          PROVE  cmd' \in Command /\ cmd'.at = "closing"
      BY <1>t, <3>2 DEF Command, CmdPlaces
    <3> QED
      BY <1>4, <3>1, <3>2 DEF CpScan
  <2> QED
    BY <1>t, <1>4, <2>1, StoreKeeps DEF CpScan
<1>5. CASE CpFill
  <2>1. cmd' \in Command /\ cmd'.at \notin {"claimed", "other"}
    <3>1. cmd' = [cmd EXCEPT !.at = "filled", !.slot = 0] /\ 0 \in 0..MaxTftp
      BY <1>5, FsAssumption DEF CpFill
    <3> QED
      BY <1>t, <3>1 DEF Command, CmdPlaces
  <2>2. CopyJob(copy.id, cmd.get) \in TftpJob
    BY <1>t, FsParts DEF Copy, Command
  <2> QED
    BY <1>t, <1>5, <2>1, <2>2, StoreKeeps DEF CpFill
<1>6. CASE CpStored
  <2>1. copy' \in Copy /\ copy'.fd = copy.fd /\ copy'.started = copy.started /\ ~copy'.web
    BY <1>t, <1>6 DEF CpStored, Copy
  <2> QED
    BY <1>t, <1>6, <2>1, StoreKeeps, FsParts DEF CpStored, NoCommand
<1>7. CASE CpClose
  BY <1>t, <1>7, CpResetKeeps, ResetIs, FsParts DEF CpClose, CpReset, NoCommand
<1>8. CASE OtherScan
  <2>1. cmd' \in Command /\ cmd'.slot # 0
    <3>1. PICK j \in FreeJobs : cmd' = [cmd EXCEPT !.at = "other", !.slot = j]
      BY <1>8 DEF OtherScan
    <3> QED
      BY <1>t, <3>1, SlotTypes DEF Command, CmdPlaces
  <2> QED
    BY <1>t, <1>8, <2>1, StoreKeeps DEF OtherScan
<1>9. CASE OtherFill
  BY <1>t, <1>9, StoreKeeps, FsParts DEF OtherFill, NoCommand
<1> QED
  BY <1>1, <1>2, <1>3, <1>4, <1>5, <1>6, <1>7, <1>8, <1>9 DEF MainCp

\* Every step keeps the invariant of the copies.
LEMMA FsInvNext == FsInv /\ [FsNext]_fsVars => FsInv'
<1> SUFFICES ASSUME FsInv, [FsNext]_fsVars PROVE FsInv'
  OBVIOUS
<1>t. /\ copy \in Copy /\ tftp \in [Jobs -> TftpJob] /\ cmd \in Command
      /\ cmd.at \in {"claimed", "other"} => cmd.slot # 0
      /\ open \in [Fds -> {"none", "copy", "script"}]
      /\ reader \in [fd : 0..MaxOpen, scan : 0..MaxOpen] /\ copies \in 0..NCopies
  BY DEF FsInv, FsTypeOK
<1>1. CASE WebCpRefused \/ WebCpLocal
  BY <1>1, <1>t, CpResetKeeps, ResetIs, FsParts DEF WebCpRefused, WebCpLocal, CpReset
<1>2. CASE OtherNew \/ \E j \in Jobs : JobSent(j) \/ OtherEnd(j)
  <2>1. tftp' \in [Jobs -> TftpJob]
    <3>1. ASSUME NEW j \in Jobs, JobSent(j) PROVE tftp' \in [Jobs -> TftpJob]
      <4>1. [tftp[j] EXCEPT !.out = TRUE] \in TftpJob
        BY <1>t DEF TftpJob
      <4> QED
        BY <1>t, <3>1, <4>1 DEF JobSent
    <3>2. CASE OtherNew \/ \E j \in Jobs : OtherEnd(j)
      BY <1>t, <3>2, FsParts DEF OtherNew, OtherEnd, FreeJobs
    <3> QED
      BY <1>2, <3>1, <3>2
  <2> QED
    BY <1>2, <1>t, <2>1, StoreKeeps DEF OtherNew, JobSent, OtherEnd
<1>3. CASE FsHooks
  BY <1>2, <1>3, EndJobKeeps, HookBlockKeeps DEF FsHooks, FsHookEnd
<1>4. CASE ScriptScan
  <2>1. reader' \in [fd : 0..MaxOpen, scan : 0..MaxOpen] /\ reader'.fd = reader.fd
    BY <1>4, <1>t, FreeFdType DEF ScriptScan, FsInv
  <2>2. FsTypeOK'
    BY <1>4, <1>t, <2>1 DEF ScriptScan, FsTypeOK
  <2> QED
    BY <1>4, <2>1, <2>2 DEF ScriptScan, FsInv, CopyLetsGo
<1>5. CASE ScriptOpen
  <2>1. reader.scan \in Fds /\ reader.fd = 0
    BY <1>5, <1>t DEF ScriptOpen, FsInv, Fds
  <2>2. reader' \in [fd : 0..MaxOpen, scan : 0..MaxOpen] /\ reader'.fd = reader.scan /\ reader'.scan = 0
    BY <1>5, <1>t, FsAssumption DEF ScriptOpen
  <2>3. FsTypeOK'
    BY <1>5, <1>t, <2>1, <2>2 DEF ScriptOpen, FsTypeOK
  <2>4. ASSUME NEW f \in Fds, open'[f] # "none" PROVE f \in {copy'.fd, reader'.fd}
    <3>1. f = reader.scan \/ (open[f] # "none" /\ f # 0)
      BY <1>5, <1>t, <2>1, <2>4 DEF ScriptOpen, Fds
    <3> QED
      BY <1>5, <2>1, <2>2, <3>1 DEF ScriptOpen, FsInv, CopyLetsGo
  <2> QED
    BY <1>5, <2>2, <2>3, <2>4 DEF ScriptOpen, FsInv, CopyLetsGo
<1>6. CASE ScriptClose
  <2>1. reader.fd \in Fds /\ reader.scan = 0
    BY <1>6, <1>t DEF ScriptClose, FsMainIdle, FsInv, Fds
  <2>2. reader' \in [fd : 0..MaxOpen, scan : 0..MaxOpen] /\ reader'.fd = 0 /\ reader'.scan = 0
    BY <1>6, <1>t, <2>1, FsAssumption DEF ScriptClose
  <2>3. FsTypeOK'
    BY <1>6, <1>t, <2>1, <2>2 DEF ScriptClose, FsTypeOK
  <2>4. ASSUME NEW f \in Fds, open'[f] # "none" PROVE f \in {copy'.fd, reader'.fd}
    <3>1. f # reader.fd /\ open[f] # "none"
      BY <1>6, <1>t, <2>1, <2>4 DEF ScriptClose
    <3> QED
      BY <1>6, <3>1 DEF ScriptClose, FsInv, CopyLetsGo
  <2> QED
    BY <1>6, <2>2, <2>3, <2>4 DEF ScriptClose, FsInv, CopyLetsGo
<1>7. CASE CloseAllFiles
  BY <1>7, <1>t DEF CloseAllFiles, FsInv, CopyLetsGo, FsTypeOK
<1>8. CASE UNCHANGED fsVars
  BY <1>8 DEF fsVars, FsInv, CopyLetsGo, FsTypeOK
<1> QED
  BY <1>1, <1>2, <1>3, <1>4, <1>5, <1>6, <1>7, <1>8, WebCpKeeps, MainCpKeeps DEF FsNext

\* When no copy runs nothing is kept for one, and every open file has an owner that
\* closes it (fs_cp_reset, fs_close), for any number of descriptors, jobs and copies:
\* through refused copies, late hooks, full tables, commands of the main loop that are
\* interrupted anywhere, and fs?close_all.
THEOREM CopiesLetGo == FsSpec => []CopyLetsGo
<1>1. FsInv => CopyLetsGo
  BY DEF FsInv
<1> QED
  BY <1>1, FsInvInit, FsInvNext, PTL DEF FsSpec

----
\* The job of a copy.

\* A step that leaves the copy, the command and what the jobs are for.
CopyStays ==
    /\ copy'.started = copy.started /\ copy'.id = copy.id /\ cmd'.at = cmd.at
    /\ \A j \in Jobs : tftp[j].for = "copy" => tftp'[j].for = "copy" /\ tftp'[j].id = tftp[j].id

\* Every step of FsNext but those of a cp, of the end of its job and of a command of
\* the main loop is such a step.
LEMMA OthersStay ==
    ASSUME FsTypeOK,
           \/ OtherNew \/ CloseAllFiles \/ UNCHANGED fsVars
           \/ ScriptScan \/ ScriptOpen \/ ScriptClose
           \/ \E j \in Jobs : JobSent(j) \/ OtherEnd(j) \/ (FsHookBlock(j) /\ ~EndJob(j))
    PROVE  CopyStays
<1>t. tftp \in [Jobs -> TftpJob] /\ copy \in Copy
  BY DEF FsTypeOK
<1>1. CASE OtherNew
  BY <1>1, <1>t DEF OtherNew, FreeJobs, CopyStays
<1>2. CASE \/ CloseAllFiles \/ UNCHANGED fsVars
           \/ ScriptScan \/ ScriptOpen \/ ScriptClose
  BY <1>2 DEF CloseAllFiles, fsVars, ScriptScan, ScriptOpen, ScriptClose, CopyStays
<1>3. ASSUME NEW j \in Jobs, JobSent(j) \/ OtherEnd(j) PROVE CopyStays
  BY <1>3, <1>t DEF JobSent, OtherEnd, TftpJob, CopyStays
<1>4. ASSUME NEW j \in Jobs, FsHookBlock(j), ~EndJob(j) PROVE CopyStays
  BY <1>4, <1>t DEF FsHookBlock, TftpJob, Copy, CopyStays
<1> QED
  BY <1>1, <1>2, <1>3, <1>4

\* The steps that end a job of a copy reset the copy_job.
LEMMA EndsReset ==
    ASSUME FsTypeOK, NEW j \in Jobs, FsHookEnd(j) \/ (FsHookBlock(j) /\ EndJob(j))
    PROVE  /\ ~copy'.started /\ tftp[j].for = "copy" /\ tftp'[j].for = "none"
           /\ cmd' = cmd /\ \A k \in Jobs \ {j} : tftp'[k] = tftp[k]
BY ResetIs DEF FsTypeOK, FsHookEnd, FsHookBlock, EndJob, NoJob

\* No step of a copy leaves it without its job, but a command that found the job free.
LEMMA KeepsJobStep ==
    ASSUME FsTypeOK, [FsNext]_fsVars, CopyRuns', ~CopyHasJob', ~(CopyRuns /\ ~CopyHasJob)
    PROVE  cmd.at = "other" /\ tftp[cmd.slot].for = "copy" /\ OtherFill
<1>t. /\ tftp \in [Jobs -> TftpJob] /\ copy \in Copy /\ cmd \in Command
      /\ cmd.at \in {"claimed", "other"} => cmd.slot \in Jobs
  BY DEF FsTypeOK, Jobs, Command
<1>r. copy'.started /\ cmd'.at \notin {"scanning", "claimed", "closing"}
  BY DEF CopyRuns
<1>1. ASSUME NEW get \in BOOLEAN, WebCp(get) PROVE FALSE
  <2>1. PICK j \in FreeJobs : /\ tftp' = [tftp EXCEPT ![j] = CopyJob(copies + 1, get)]
                              /\ copy'.id = copies + 1
    BY <1>1, <1>r, ResetIs DEF WebCp
  <2>2. j \in Jobs /\ tftp'[j].for = "copy" /\ tftp'[j].id = copy'.id
    BY <1>t, <2>1 DEF FreeJobs, CopyJob, NoJob
  <2> QED
    BY <2>2 DEF CopyHasJob
<1>2. ~WebCpRefused /\ ~WebCpLocal /\ ~CpClose
  BY <1>r, ResetIs DEF WebCpRefused, WebCpLocal, CpClose
<1>3. ~CopyStays
  BY DEF CopyRuns, CopyHasJob, CopyStays
<1>4. ASSUME NEW j \in Jobs, FsHookEnd(j) \/ (FsHookBlock(j) /\ EndJob(j)) PROVE FALSE
  BY <1>4, <1>r, EndsReset
<1>5. CASE MainCp
  <2>1. CpParse => ~copy'.started
    BY DEF CpParse, NoCopy
  <2>2. ASSUME CpCheck PROVE FALSE
    BY <1>r, <2>2 DEF CpCheck, FsMainIdle, CopyRuns, CopyHasJob
  <2>3. ~CpStart /\ ~CpScan
    BY <1>r, <1>t DEF CpStart, CpScan, Command
  <2>4. ASSUME CpFill PROVE FALSE
    <3>1. cmd.slot \in Jobs /\ tftp'[cmd.slot] = CopyJob(copy.id, cmd.get) /\ copy' = copy
      BY <1>t, <2>4 DEF CpFill
    <3> QED
      BY <3>1 DEF CopyHasJob, CopyJob, NoJob
  <2>5. ASSUME CpStored PROVE FALSE
    BY <1>t, <2>5 DEF CpStored, Copy, CopyRuns, CopyHasJob
  <2> QED
    BY <1>2, <1>5, <1>r, <2>1, <2>2, <2>3, <2>4, <2>5 DEF MainCp
<1>6. CASE OtherScan
  BY <1>6, <1>t DEF OtherScan, FsMainIdle, CopyRuns, CopyHasJob
<1>7. CASE OtherFill
  <2>1. copy.started /\ CopyRuns
    BY <1>7, <1>r DEF OtherFill, CopyRuns
  <2>2. PICK j \in Jobs : tftp[j].for = "copy" /\ tftp[j].id = copy.id
    BY <2>1 DEF CopyHasJob
  <2>3. j = cmd.slot
    BY <1>t, <1>7, <2>2 DEF OtherFill, CopyHasJob
  <2> QED
    BY <1>7, <2>2, <2>3 DEF OtherFill
<1> QED
  BY <1>1, <1>2, <1>3, <1>4, <1>5, <1>6, <1>7, OthersStay DEF FsNext, FsHooks

\* A copy that runs has a job of the tftp client whose hooks will end it: refused copies,
\* full tables, jobs of earlier copies and a cp of the main loop interrupted by one of the
\* web never leave a copy that nothing ends (fs_cp_file, fs_cp_reset).  It loses its job
\* in one way only, to a command of the main loop that found the job free before the copy
\* took it, and which then makes a job of its own there (tftp_clinet_new_job).
THEOREM RunningCopyKeepsJob == FsSpec => CopyKeepsJob
<1>1. FsInv => FsTypeOK
  BY DEF FsInv
<1>2. FsTypeOK /\ [FsNext]_fsVars =>
        [CopyRuns' /\ ~CopyHasJob' =>
           \/ CopyRuns /\ ~CopyHasJob
           \/ cmd.at = "other" /\ tftp[cmd.slot].for = "copy" /\ OtherFill]_fsVars
  BY KeepsJobStep
<1> QED
  BY <1>1, <1>2, FsInvInit, FsInvNext, PTL DEF FsSpec, CopyKeepsJob

----
\* What stops a copy.

\* fs?cp of the web.
WebAsks == (\E get \in BOOLEAN : WebCp(get)) \/ WebCpRefused \/ WebCpLocal

\* fs?cp is used when no copy runs, and that of the web when none is on its way in the
\* main loop.
OneAtATime ==
    [][/\ WebAsks => ~copy.started /\ cmd.at \in {"idle", "other"}
       /\ CpCheck => ~copy.started]_fsVars

\* Then there is no job but that of the copy, and a cp on its way finds none.
JobsOfCopy ==
    /\ \A j \in Jobs : tftp[j].for = "copy" => copy.started /\ tftp[j].id = copy.id
    /\ \A j, k \in Jobs : tftp[j].for = "copy" /\ tftp[k].for = "copy" => j = k
    /\ cmd.at \in {"checked", "parsed"} => ~copy.started
    /\ cmd.at \in {"scanning", "claimed"} => copy.started
    /\ cmd.at \in {"scanning", "claimed", "closing"} => \A j \in Jobs : tftp[j].for # "copy"

\* Used one at a time, a copy ends with its own job.
LEMMA OneAtATimeStep ==
    ASSUME FsTypeOK, FsTypeOK', JobsOfCopy, [FsNext]_fsVars,
           [/\ WebAsks => ~copy.started /\ cmd.at \in {"idle", "other"}
            /\ CpCheck => ~copy.started]_fsVars
    PROVE  /\ JobsOfCopy'
           /\ copy.started /\ CopyHasJob /\ ~(copy'.started /\ copy'.id = copy.id) =>
                \E j \in Jobs : /\ tftp[j].for = "copy" /\ tftp[j].id = copy.id
                                /\ tftp'[j].for # "copy"
<1> DEFINE Ended == \E j \in Jobs : /\ tftp[j].for = "copy" /\ tftp[j].id = copy.id
                                    /\ tftp'[j].for # "copy"
           Goal == /\ JobsOfCopy'
                   /\ copy.started /\ CopyHasJob /\ ~(copy'.started /\ copy'.id = copy.id)
                        => Ended
<1>t. /\ tftp \in [Jobs -> TftpJob] /\ copy \in Copy /\ cmd \in Command
      /\ cmd.at \in {"claimed", "other"} => cmd.slot \in Jobs
  BY DEF FsTypeOK, Jobs, Command
<1>0. CASE UNCHANGED fsVars
  BY <1>0 DEF fsVars, JobsOfCopy
<1>1. ASSUME NEW get \in BOOLEAN, WebCp(get), fsVars' # fsVars PROVE Goal
  <2>1. ~copy.started /\ cmd.at \in {"idle", "other"} /\ cmd' = cmd
    BY <1>1 DEF WebAsks, WebCp
  <2>2. \A j \in Jobs : tftp[j].for # "copy"
    BY <2>1 DEF JobsOfCopy
  <2>3. CASE CpReset /\ UNCHANGED tftp
    BY <2>1, <2>2, <2>3, ResetIs DEF JobsOfCopy
  <2>4. ASSUME NEW j \in FreeJobs, tftp' = [tftp EXCEPT ![j] = CopyJob(copies + 1, get)],
               copy'.id = copies + 1, copy'.started
        PROVE  Goal
    <3>1. /\ j \in Jobs /\ tftp'[j].for = "copy" /\ tftp'[j].id = copy'.id
          /\ \A k \in Jobs \ {j} : tftp'[k].for # "copy"
      BY <1>t, <2>2, <2>4 DEF FreeJobs, CopyJob, NoJob
    <3> QED
      BY <2>1, <2>4, <3>1 DEF JobsOfCopy
  <2> QED
    BY <1>1, <2>3, <2>4 DEF WebCp
<1>2. ASSUME WebCpRefused \/ WebCpLocal, fsVars' # fsVars PROVE Goal
  <2>1. ~copy.started /\ cmd.at \in {"idle", "other"} /\ UNCHANGED <<cmd, tftp>> /\ ~copy'.started
    BY <1>2, ResetIs DEF WebAsks, WebCpRefused, WebCpLocal
  <2> QED
    BY <2>1 DEF JobsOfCopy
<1>3. CASE CopyStays /\ (OtherNew \/ UNCHANGED tftp \/ \E j \in Jobs : JobSent(j) \/ OtherEnd(j)
                           \/ FsHookBlock(j))
  <2>1. \A j \in Jobs : tftp'[j].for = "copy" => tftp[j].for = "copy"
    BY <1>3, <1>t DEF OtherNew, OtherJob, JobSent, OtherEnd, FsHookBlock, EndJob, NoJob, TftpJob
  <2> QED
    BY <1>3, <2>1 DEF CopyStays, JobsOfCopy
<1>4. ASSUME NEW j \in Jobs, FsHookEnd(j) \/ (FsHookBlock(j) /\ EndJob(j)) PROVE Goal
  BY <1>4, EndsReset DEF JobsOfCopy
<1>5. ASSUME MainCp, fsVars' # fsVars PROVE Goal
  <2>1. CASE CpCheck
    <3>1. ~copy.started /\ cmd'.at \in {"checked", "closing"} /\ UNCHANGED <<copy, tftp>>
      BY <1>5, <2>1 DEF CpCheck
    <3> QED
      BY <3>1 DEF JobsOfCopy
  <2>2. CASE CpParse
    <3>1. ~copy.started /\ UNCHANGED tftp
      BY <2>2 DEF CpParse, JobsOfCopy
    <3>2. ~copy'.started /\ cmd'.at \in {"parsed", "closing"}
      <4>1. CpParse => ~copy'.started
        BY DEF CpParse, NoCopy
      <4>2. cmd'.at \in {"parsed", "closing"}
        <5>1. PICK a \in {"parsed", "closing"} : cmd' = [cmd EXCEPT !.at = a]
          BY <2>2 DEF CpParse
        <5> QED
          BY <1>t, <5>1 DEF Command
      <4> QED
        BY <2>2, <4>1, <4>2
    <3> QED
      BY <3>1, <3>2 DEF JobsOfCopy
  <2>3. CASE CpStart
    <3>1. copy'.started /\ cmd'.at \in {"scanning", "closing"} /\ UNCHANGED tftp /\ ~copy.started
      BY <1>t, <2>3 DEF CpStart, Command, Copy, JobsOfCopy
    <3> QED
      BY <3>1 DEF JobsOfCopy
  <2>4. CASE CpScan
    <3>1. cmd'.at \in {"claimed", "closing"} /\ UNCHANGED <<copy, tftp>>
      BY <1>t, <2>4 DEF CpScan, Command
    <3> QED
      BY <2>4, <3>1 DEF CpScan, JobsOfCopy
  <2>5. CASE CpFill
    <3>1. /\ cmd.slot \in Jobs /\ cmd'.at = "filled" /\ copy' = copy /\ copy.started
          /\ tftp'[cmd.slot].for = "copy" /\ tftp'[cmd.slot].id = copy.id
          /\ \A k \in Jobs \ {cmd.slot} : tftp'[k].for # "copy"
      BY <1>t, <2>5 DEF CpFill, CopyJob, NoJob, Command, JobsOfCopy
    <3> QED
      BY <3>1 DEF JobsOfCopy
  <2>6. CASE CpStored
    <3>1. /\ copy'.started = copy.started /\ copy'.id = copy.id /\ cmd'.at = "idle"
          /\ UNCHANGED tftp
      BY <1>t, <2>6 DEF CpStored, Copy, NoCommand
    <3> QED
      BY <3>1 DEF JobsOfCopy
  <2>7. CASE CpClose
    <3>1. cmd.at = "closing" /\ ~copy'.started /\ cmd'.at = "idle" /\ UNCHANGED tftp
      BY <2>7, ResetIs DEF CpClose, NoCommand
    <3> QED
      BY <3>1 DEF JobsOfCopy, CopyHasJob
  <2> QED
    BY <1>5, <2>1, <2>2, <2>3, <2>4, <2>5, <2>6, <2>7 DEF MainCp
<1>6. CASE OtherScan
  <2>1. cmd'.at = "other" /\ UNCHANGED <<copy, tftp>>
    BY <1>t, <1>6 DEF OtherScan, Command
  <2> QED
    BY <2>1 DEF JobsOfCopy
<1>7. CASE OtherFill
  <2>1. cmd'.at = "idle" /\ UNCHANGED copy /\ \A j \in Jobs : tftp'[j].for = "copy" => tftp'[j] = tftp[j]
    BY <1>t, <1>7 DEF OtherFill, NoCommand, OtherJob, NoJob
  <2> QED
    BY <2>1 DEF JobsOfCopy
<1>8. CASE \/ OtherNew \/ CloseAllFiles \/ ScriptScan \/ ScriptOpen \/ ScriptClose
           \/ \E j \in Jobs : JobSent(j) \/ OtherEnd(j) \/ (FsHookBlock(j) /\ ~EndJob(j))
  BY <1>3, <1>8, OthersStay DEF CloseAllFiles, ScriptScan, ScriptOpen, ScriptClose
<1> QED
  BY <1>0, <1>1, <1>2, <1>4, <1>5, <1>6, <1>7, <1>8 DEF FsNext, FsHooks

\* A copy is stopped by its own transfer or by another fs?cp, whose error path or parsing
\* resets the copy_job, and by nothing else: if fs?cp is used one at a time,
\* RunningCopyGoesOn holds, for any number of copies and jobs, and whatever else uses the
\* jobs.
THEOREM OnlyAnotherCopyStops == FsSpec /\ OneAtATime => RunningCopyGoesOn
<1>1. FsInit => JobsOfCopy
  BY DEF FsInit, NoCopy, NoJob, NoCommand, JobsOfCopy
<1>2. FsInv => FsTypeOK
  BY DEF FsInv
<1>3. /\ FsTypeOK /\ FsTypeOK' /\ JobsOfCopy /\ [FsNext]_fsVars
      /\ [/\ WebAsks => ~copy.started /\ cmd.at \in {"idle", "other"}
          /\ CpCheck => ~copy.started]_fsVars
      => /\ JobsOfCopy'
         /\ [copy.started /\ CopyHasJob /\ ~(copy'.started /\ copy'.id = copy.id) =>
               \E j \in Jobs : /\ tftp[j].for = "copy" /\ tftp[j].id = copy.id
                               /\ tftp'[j].for # "copy"]_fsVars
  BY OneAtATimeStep
<1> QED
  BY <1>1, <1>2, <1>3, FsInvInit, FsInvNext, PTL
  DEF FsSpec, OneAtATime, RunningCopyGoesOn

----
\* The web server.

WSlot == [tcp : Conns \cup {NoConn}, init : BOOLEAN, sending : BOOLEAN,
          close : BOOLEAN, raced : BOOLEAN]
Plain == [at : {"idle", "log", "forward", "unhook", "hung"}]
OfSlot == [at : {"closing", "window", "written", "unhook_close"}, s : WebSlots]
Forwarding == [client : 0..MaxClients, http : BOOLEAN, status : BOOLEAN]

\* What ServedIsInit says of a slot.
Served(sl) == sl.tcp # NoConn /\ ~sl.init => sl.raced

\* A connection in the slot the main loop is giving free was accepted since.
WindowIsRaced ==
    \A s \in WebSlots : ClientLocked(s) /\ wslot[s].tcp # NoConn => wslot[s].raced

WebInv == WebTypeOK /\ ServedIsInit /\ WindowIsRaced

\* The types of the web server, by their parts.
LEMMA WebTypes ==
    WebTypeOK <=> wslot \in [WebSlots -> WSlot] /\ fwd \in Forwarding /\ main \in Plain \cup OfSlot
BY DEF WebTypeOK, WSlot, Forwarding, Plain, OfSlot

\* A free slot is one, and holds no connection.
LEMMA FreeSlotType == FreeSlot \in WSlot /\ Served(FreeSlot) /\ FreeSlot.tcp = NoConn
BY DEF FreeSlot, WSlot, Served

\* The forwarding of the log and of the status to a client is typed.
LEMMA ForwardType ==
    ASSUME NEW f \in Forwarding, NEW s \in 0..MaxClients
    PROVE  Forward(f, s) \in Forwarding
BY DEF Forward, Forwarding

\* The invariant of the web server holds at first.
LEMMA WebInvInit == WebInit => WebInv
<1> SUFFICES ASSUME WebInit PROVE WebInv
  OBVIOUS
<1>1. wslot \in [WebSlots -> WSlot] /\ \A s \in WebSlots : wslot[s].tcp = NoConn
  BY FreeSlotType DEF WebInit
<1>2. fwd \in Forwarding /\ main \in Plain
  BY WebAssumption DEF WebInit, Fwd0, Idle0, Forwarding, Plain
<1> QED
  BY <1>1, <1>2, WebTypes DEF WebInv, ServedIsInit, WindowIsRaced

\* A step that changes one slot at most, while the main loop does not come to a
\* window but in that slot.
LEMMA SlotKeeps ==
    ASSUME WebInv, fwd' \in Forwarding, main' \in Plain \cup OfSlot,
           NEW s \in WebSlots, NEW sl \in WSlot, wslot' = [wslot EXCEPT ![s] = sl],
           Served(sl),
           main'.at = "window" /\ main'.s = s /\ sl.tcp # NoConn => sl.raced,
           main'.at = "window" => main'.s = s \/ main' = main
    PROVE  WebInv'
<1>1. wslot \in [WebSlots -> WSlot]
  BY WebTypes DEF WebInv
<1>2. wslot' \in [WebSlots -> WSlot] /\ wslot'[s] = sl
      /\ \A o \in WebSlots : o # s => wslot'[o] = wslot[o]
  BY <1>1
<1>3. WebTypeOK'
  BY <1>2, WebTypes DEF WebTypeOK, WSlot, Forwarding, Plain, OfSlot
<1>4. ServedIsInit'
  BY <1>2 DEF WebInv, ServedIsInit, Served
<1>5. WindowIsRaced'
  BY <1>2 DEF WebInv, WindowIsRaced, ClientLocked
<1> QED
  BY <1>3, <1>4, <1>5 DEF WebInv

\* A step that changes no slot.
LEMMA SlotsSame ==
    ASSUME WebInv, fwd' \in Forwarding, main' \in Plain \cup OfSlot, UNCHANGED wslot,
           main'.at # "window" \/ main' = main
    PROVE  WebInv'
<1>1. WebTypeOK'
  BY WebTypes DEF WebInv, WebTypeOK, WSlot, Forwarding, Plain, OfSlot
<1> QED
  BY <1>1 DEF WebInv, ServedIsInit, WindowIsRaced, ClientLocked

\* The device starts again.
LEMMA RestartKeeps ==
    ASSUME wslot' = [s \in WebSlots |-> FreeSlot], fwd' = Fwd0, main' = Idle0
    PROVE  WebInv'
<1>1. wslot' \in [WebSlots -> WSlot] /\ \A s \in WebSlots : wslot'[s].tcp = NoConn
  BY FreeSlotType
<1>2. fwd' \in Forwarding /\ main' \in Plain
  BY WebAssumption DEF Fwd0, Idle0, Forwarding, Plain
<1>3. WebTypeOK'
  BY <1>1, <1>2 DEF WebTypeOK, WSlot, Forwarding, Plain, OfSlot
<1> QED
  BY <1>1, <1>3 DEF WebInv, ServedIsInit, WindowIsRaced

\* A request that waits for the mutex keeps the invariant.
LEMMA HangKeeps == WebInv /\ Hang => WebInv'
<1> SUFFICES ASSUME WebInv, Hang PROVE WebInv'
  OBVIOUS
<1>1. main' \in Plain /\ main'.at # "window" /\ fwd' \in Forwarding /\ UNCHANGED wslot
  BY WebTypes DEF Hang, Plain, WebInv
<1> QED
  BY <1>1, SlotsSame

\* The interrupts: webserv_accept(), ws_tcp_recv_cb(), ws_tcp_err_cb().
LEMMA InterruptKeeps == WebInv /\ Interrupt => WebInv'
<1> SUFFICES ASSUME WebInv, Interrupt PROVE WebInv'
  OBVIOUS
<1>t. wslot \in [WebSlots -> WSlot] /\ fwd \in Forwarding /\ main \in Plain \cup OfSlot
  BY WebTypes DEF WebInv
<1>1. ASSUME NEW c \in Conns, WebAccept(c) PROVE WebInv'
  <2>0. FreeWebSlots # {}
    BY <1>1, Zenon DEF WebAccept
  <2>1. FreeWebSlots \in SUBSET Nat /\ FreeWebSlots # {} /\ FreeWebSlots \subseteq WebSlots
    BY <2>0 DEF FreeWebSlots, WebSlots
  <2>2. \E s \in FreeWebSlots : \A o \in FreeWebSlots : s <= o
    BY <2>1, HasLeast
  <2>3. PICK s : s = CHOOSE f \in FreeWebSlots : \A o \in FreeWebSlots : f <= o
    OBVIOUS
  <2>4. s \in WebSlots
    BY <2>1, <2>2, <2>3
  <2>5. PICK sl : sl = [wslot[s] EXCEPT !.tcp = c, !.init = TRUE, !.raced = ClientLocked(s)]
    OBVIOUS
  <2>a. /\ wslot' = [wslot EXCEPT ![s].tcp = c, ![s].init = TRUE, ![s].raced = ClientLocked(s)]
        /\ UNCHANGED <<fwd, main>>
    BY <1>1, <2>3, Zenon DEF WebAccept
  <2>6. wslot' = [wslot EXCEPT ![s] = sl] /\ UNCHANGED <<fwd, main>>
    BY <1>t, <2>4, <2>5, <2>a
  <2>7. ClientLocked(s) \in BOOLEAN
    BY DEF ClientLocked
  <2>8. sl \in WSlot /\ sl.init = TRUE /\ sl.raced = ClientLocked(s)
    BY <1>t, <2>4, <2>5, <2>7 DEF WSlot
  <2> QED
    BY <1>t, <2>4, <2>6, <2>8, SlotKeeps DEF Served, ClientLocked
<1>2. ASSUME NEW s \in WebSlots, NEW what \in {"log_on", "status", "other"}, Request(s, what)
      PROVE  WebInv'
  <2>1. CASE LogLocked \/ ClientLocked(s)
    BY <1>2, <2>1, HangKeeps DEF Request
  <2>2. CASE ~(LogLocked \/ ClientLocked(s))
    <3>1. PICK left \in {wslot[s].sending, TRUE} :
            wslot' = [wslot EXCEPT ![s].sending = left,
                            ![s].close = @ \/ what \notin {"log_on", "status"}]
      BY <1>2, <2>2 DEF Request
    <3>2. PICK sl : sl = [wslot[s] EXCEPT !.sending = left,
                            !.close = @ \/ what \notin {"log_on", "status"}]
      OBVIOUS
    <3>3. left \in BOOLEAN /\ (wslot[s].close \/ what \notin {"log_on", "status"}) \in BOOLEAN
      BY <1>t DEF WSlot
    <3>4. /\ sl \in WSlot /\ sl.tcp = wslot[s].tcp /\ sl.init = wslot[s].init
          /\ sl.raced = wslot[s].raced
      BY <1>t, <3>2, <3>3 DEF WSlot
    <3>5. wslot' = [wslot EXCEPT ![s] = sl]
      BY <1>t, <3>1, <3>2
    <3>6. s \in 0..MaxClients /\ 0 \in 0..MaxClients
      BY WebAssumption DEF WebSlots
    <3>7. fwd' \in Forwarding /\ UNCHANGED main
      <4> DEFINE to == IF wslot'[s].sending THEN 0 ELSE s
      <4>1. Forward(fwd, s) \in Forwarding /\ Forward(fwd, 0) \in Forwarding
            /\ Forward(fwd, to) \in Forwarding
        BY <1>t, <3>6, ForwardType
      <4>2. [Forward(fwd, to) EXCEPT !.status = TRUE] \in Forwarding
        <5> HIDE DEF to
        <5> QED BY <4>1 DEF Forwarding
      <4> QED
        BY <1>2, <2>2, <4>1, <4>2 DEF Request
    <3>8. Served(sl) /\ (ClientLocked(s) /\ sl.tcp # NoConn => sl.raced)
      BY <3>4 DEF WebInv, ServedIsInit, WindowIsRaced, Served
    <3> QED
      BY <1>t, <3>4, <3>5, <3>7, <3>8, SlotKeeps DEF ClientLocked
  <2> QED
    BY <2>1, <2>2
<1>3. ASSUME NEW s \in WebSlots, RemoteClose(s) \/ TcpErr(s) PROVE WebInv'
  <2>1. CASE Hang
    BY <2>1, HangKeeps
  <2>2. CASE UNCHANGED <<fwd, main>> /\ \E sl : /\ wslot' = [wslot EXCEPT ![s] = sl]
                                               /\ sl \in {FreeSlot, wslot[s],
                                                          [wslot[s] EXCEPT !.tcp = NoConn, !.raced = FALSE]}
    <3>1. PICK sl \in {FreeSlot, wslot[s], [wslot[s] EXCEPT !.tcp = NoConn, !.raced = FALSE]} :
            wslot' = [wslot EXCEPT ![s] = sl]
      BY <2>2
    <3>a. wslot[s] \in WSlot
      BY <1>t
    <3>b. [wslot[s] EXCEPT !.tcp = NoConn, !.raced = FALSE] \in WSlot
          /\ [wslot[s] EXCEPT !.tcp = NoConn, !.raced = FALSE].tcp = NoConn
      BY <3>a DEF WSlot
    <3>2. sl \in WSlot /\ (sl = wslot[s] \/ sl.tcp = NoConn)
      BY <3>1, <3>a, <3>b, FreeSlotType, Zenon
    <3>3. Served(sl) /\ (ClientLocked(s) /\ sl.tcp # NoConn => sl.raced)
      BY <3>2 DEF WebInv, ServedIsInit, WindowIsRaced, Served
    <3> QED
      BY <1>t, <2>2, <3>1, <3>2, <3>3, SlotKeeps DEF ClientLocked
  <2> QED
    BY <1>3, <1>t, <2>1, <2>2 DEF RemoteClose, TcpErr, Released
<1> QED
  BY <1>1, <1>2, <1>3 DEF Interrupt

\* The main loop.
LEMMA WebMainKeeps == WebInv /\ WebMain => WebInv'
<1> SUFFICES ASSUME WebInv, WebMain PROVE WebInv'
  OBVIOUS
<1>t. wslot \in [WebSlots -> WSlot] /\ fwd \in Forwarding /\ main \in Plain \cup OfSlot
  BY WebTypes DEF WebInv
<1>s. main.at \in {"closing", "window", "written", "unhook_close"} => main.s \in WebSlots
  BY <1>t DEF Plain, OfSlot
<1>p. /\ Idle0 \in Plain /\ Idle0.at = "idle"
      /\ \A a \in {"idle", "log", "forward", "unhook", "hung"} : [at |-> a] \in Plain
      /\ \A a \in {"closing", "window", "written", "unhook_close"}, s \in WebSlots :
            [at |-> a, s |-> s] \in OfSlot
  BY DEF Idle0, Plain, OfSlot
<1>1. ASSUME NEW s \in WebSlots, CloseCheck(s) \/ CloseAll(s) PROVE WebInv'
  <2>1. main' = [at |-> "closing", s |-> s] /\ UNCHANGED <<wslot, fwd>>
    BY <1>1 DEF CloseCheck, CloseAll, Go
  <2> QED
    BY <1>t, <1>p, <2>1, SlotsSame
<1>2. CASE Disconnect
  <2>0. main.s \in WebSlots /\ UNCHANGED fwd
    BY <1>2, <1>s DEF Disconnect
  <2>1. CASE main' = Idle0 /\ UNCHANGED wslot
    BY <1>t, <1>p, <2>0, <2>1, SlotsSame
  <2>2. CASE /\ wslot' = [wslot EXCEPT ![main.s].tcp = NoConn, ![main.s].raced = FALSE]
             /\ main' = [at |-> "window", s |-> main.s]
    <3>1. PICK s \in WebSlots : s = main.s
      BY <2>0
    <3>2. PICK sl : sl = [wslot[s] EXCEPT !.tcp = NoConn, !.raced = FALSE]
      OBVIOUS
    <3>3. wslot' = [wslot EXCEPT ![s] = sl]
      BY <1>t, <2>2, <3>1, <3>2
    <3>4. sl \in WSlot /\ sl.tcp = NoConn
      BY <1>t, <3>2 DEF WSlot
    <3>5. main' \in OfSlot /\ main'.s = s
      BY <1>p, <2>2, <3>1
    <3> QED
      BY <1>t, <2>0, <3>3, <3>4, <3>5, SlotKeeps DEF Served
  <2> QED
    BY <1>2, <2>1, <2>2 DEF Disconnect
<1>3. CASE Release
  <2>0. main.s \in WebSlots /\ UNCHANGED fwd /\ main' = Idle0 /\ main.at = "window"
    BY <1>3, <1>s DEF Release
  <2>1. PICK s \in WebSlots : s = main.s
    BY <2>0
  <2>2. PICK sl : sl = [FreeSlot EXCEPT !.tcp = wslot[s].tcp, !.raced = wslot[s].raced]
    OBVIOUS
  <2>3. wslot' = [wslot EXCEPT ![s] = sl]
    BY <1>3, <2>1, <2>2 DEF Release
  <2>4. sl \in WSlot /\ sl.tcp = wslot[s].tcp /\ sl.raced = wslot[s].raced
    BY <1>t, <2>2 DEF WSlot, FreeSlot
  <2>5. wslot[s].tcp # NoConn => wslot[s].raced
    BY <2>0, <2>1 DEF WebInv, WindowIsRaced, ClientLocked
  <2> QED
    BY <1>t, <1>p, <2>0, <2>3, <2>4, <2>5, SlotKeeps DEF Served
<1>4. CASE LogLine
  <2>1. main' = [at |-> "log"] /\ UNCHANGED <<wslot, fwd>>
    BY <1>4 DEF LogLine, Go
  <2> QED
    BY <1>t, <1>p, <2>1, SlotsSame
<1>5. CASE LogWeb
  <2>1. (main' = [at |-> "forward"] \/ main' = Idle0) /\ UNCHANGED <<wslot, fwd>>
    BY <1>5 DEF LogWeb
  <2> QED
    BY <1>t, <1>p, <2>1, SlotsSame
<1>6. ASSUME NEW s \in WebSlots, NEW left \in BOOLEAN, wslot' = [wslot EXCEPT ![s].sending = left],
             UNCHANGED fwd, main' \in Plain \cup OfSlot, main'.at # "window"
      PROVE  WebInv'
  <2>1. PICK sl : sl = [wslot[s] EXCEPT !.sending = left]
    OBVIOUS
  <2>2. wslot' = [wslot EXCEPT ![s] = sl]
    BY <1>6, <1>t, <2>1
  <2>3. /\ sl \in WSlot /\ sl.tcp = wslot[s].tcp /\ sl.init = wslot[s].init
        /\ sl.raced = wslot[s].raced
    BY <1>t, <2>1 DEF WSlot
  <2>4. Served(sl)
    BY <2>3 DEF WebInv, ServedIsInit, Served
  <2> QED
    BY <1>6, <1>t, <2>2, <2>3, <2>4, SlotKeeps
<1>7. CASE LogForward
  <2>1. PICK s : s = fwd.client
    OBVIOUS
  <2>2. CASE /\ s # 0 /\ wslot' = [wslot EXCEPT ![s].sending = TRUE]
             /\ main' = [at |-> "written", s |-> s] /\ UNCHANGED fwd
    <3>1. s \in WebSlots
      BY <1>t, <2>1, <2>2 DEF Forwarding, WebSlots
    <3> QED
      BY <1>6, <1>p, <2>2, <3>1
  <2>3. CASE fwd' = Forward(fwd, 0) /\ main' = Idle0 /\ UNCHANGED wslot
    <3>1. fwd' \in Forwarding
      BY <1>t, <2>3, ForwardType, WebAssumption
    <3> QED
      BY <1>p, <2>3, <3>1, SlotsSame
  <2> QED
    BY <1>7, <2>1, <2>2, <2>3 DEF LogForward
<1>8. CASE LogWritten
  <2>0. main.s \in WebSlots /\ UNCHANGED fwd /\ main' = Idle0
    BY <1>8, <1>s DEF LogWritten
  <2>1. PICK s \in WebSlots : s = main.s
    BY <2>0
  <2>2. PICK left \in {wslot[s].sending, FALSE} : wslot' = [wslot EXCEPT ![s].sending = left]
    BY <1>8, <2>1 DEF LogWritten
  <2>3. left \in BOOLEAN
    BY <1>t DEF WSlot
  <2> QED
    BY <1>6, <1>p, <2>0, <2>2, <2>3
<1>9. CASE StatusDone
  <2>1. fwd' \in Forwarding /\ UNCHANGED wslot
    BY <1>9, <1>t DEF StatusDone, Forwarding
  <2>2. fwd.client # 0 => fwd.client \in WebSlots
    BY <1>t DEF Forwarding, WebSlots
  <2>3. \/ main' = Idle0
        \/ fwd.client \in WebSlots /\ main' = [at |-> "unhook_close", s |-> fwd.client]
    BY <1>9, <2>2 DEF StatusDone, Go
  <2>4. main' \in Plain \cup OfSlot /\ main'.at # "window"
    BY <1>p, <2>3
  <2> QED
    BY <2>1, <2>4, SlotsSame
<1>10. CASE StatusClose
  <2>0. main.s \in WebSlots /\ main' = [at |-> "unhook"]
    BY <1>10, <1>s DEF StatusClose
  <2>1. PICK s \in WebSlots : s = main.s
    BY <2>0
  <2>2. PICK sl : sl = [wslot[s] EXCEPT !.close = TRUE]
    OBVIOUS
  <2>3. wslot' = [wslot EXCEPT ![s] = sl]
    BY <1>10, <1>t, <2>1, <2>2 DEF StatusClose
  <2>4. /\ sl \in WSlot /\ sl.tcp = wslot[s].tcp /\ sl.init = wslot[s].init
        /\ sl.raced = wslot[s].raced
    BY <1>t, <2>2 DEF WSlot
  <2>5. Served(sl)
    BY <2>4 DEF WebInv, ServedIsInit, Served
  <2>6. fwd' \in Forwarding
    BY <1>10, <1>t, WebAssumption DEF StatusClose, Forwarding
  <2> QED
    BY <1>p, <2>0, <2>3, <2>4, <2>5, <2>6, SlotKeeps
<1>11. CASE StatusUnhook
  <2>1. fwd' \in Forwarding /\ UNCHANGED wslot /\ main' = Idle0
    BY <1>11, <1>t DEF StatusUnhook, Forwarding
  <2> QED
    BY <1>p, <2>1, SlotsSame
<1> QED
  BY <1>1, <1>2, <1>3, <1>4, <1>5, <1>7, <1>8, <1>9, <1>10, <1>11 DEF WebMain

\* Every step keeps the invariant of the web server.
LEMMA WebInvNext == WebInv /\ [WebNext]_webVars => WebInv'
<1> SUFFICES ASSUME WebInv, [WebNext]_webVars PROVE WebInv'
  OBVIOUS
<1>1. CASE Interrupt
  BY <1>1, InterruptKeeps
<1>2. CASE WebMain
  BY <1>2, WebMainKeeps
<1>3. CASE Watchdog
  BY <1>3, RestartKeeps DEF Watchdog
<1>4. CASE UNCHANGED webVars
  <2>1. fwd' \in Forwarding /\ main' \in Plain \cup OfSlot /\ UNCHANGED <<wslot, main>>
    BY <1>4, WebTypes DEF webVars, WebInv
  <2> QED
    BY <2>1, SlotsSame
<1> QED
  BY <1>1, <1>2, <1>3, <1>4 DEF WebNext

\* A connection that webclient_close_check() does not look at was accepted while its
\* slot was given free, for any number of clients and slots: no other race of the
\* interrupts with webclient_disconnect(), the log or the commands loses one.
THEOREM ConnectionsServed == WebSpec => []ServedIsInit
<1>1. WebInv => ServedIsInit
  BY DEF WebInv
<1> QED
  BY <1>1, WebInvInit, WebInvNext, PTL DEF WebSpec

----
\* The web hook.

Hook == [ip : {"no", "resolving", "yes"}, addr : Addrs \cup {"junk"},
         tcp : {"off", "connecting", "connected"}, sending : BOOLEAN,
         at : {"idle", "queried", "hung"}]

\* The web hook is typed at first.
LEMMA WhTypesInit == WhInit => WhTypeOK
<1>1. WhFresh \in Hook
  BY DEF WhFresh, Hook
<1>2. 0 \in 0..WhMaxFaults
  BY WebHookAssumption
<1> QED
  BY <1>1, <1>2, Zenon DEF WhInit, WhTypeOK, Hook

\* Every step of the web hook keeps its types.
LEMMA WhTypesNext == WhTypeOK /\ [WhNext]_whVars => WhTypeOK'
<1> SUFFICES ASSUME WhTypeOK, [WhNext]_whVars PROVE WhTypeOK'
  OBVIOUS
<1>t. wh \in Hook /\ server \in Addrs /\ asked \in BOOLEAN /\ whFaults \in 0..WhMaxFaults
  BY DEF WhTypeOK, Hook
<1>1. server' \in Addrs
  BY <1>t
  DEF WhNext, WhResolve, WhResolving, WhResolveTimeout, WhConnect, WhConnectTimeout, WhSend,
      WhSendLate, WhSendTimeout, WhNoWifi, WhInterrupted, WhWatchdog, WhFound, WhConnected,
      WhEnd, WhMoves, whVars
<1>2. asked' \in BOOLEAN
  BY <1>t, Zenon
  DEF WhNext, WhResolve, WhResolving, WhResolveTimeout, WhConnect, WhConnectTimeout, WhSend,
      WhSendLate, WhSendTimeout, WhNoWifi, WhInterrupted, WhWatchdog, WhFound, WhConnected,
      WhEnd, WhMoves, whVars
<1>3. WhFault \/ UNCHANGED whFaults
  BY DEF WhNext, WhResolve, WhResolving, WhResolveTimeout, WhConnect, WhConnectTimeout, WhSend,
      WhSendLate, WhSendTimeout, WhNoWifi, WhInterrupted, WhWatchdog, WhFound, WhConnected,
      WhEnd, WhMoves, whVars
<1>4. whFaults' \in 0..WhMaxFaults
  BY <1>t, <1>3, WebHookAssumption DEF WhFault
<1>5. WhClosed \in Hook /\ [wh EXCEPT !.at = "hung"] \in Hook /\ WhFresh \in Hook
  BY <1>t DEF WhClosed, WhFresh, Hook
<1>6. wh' \in Hook
  <2>1. CASE \/ WhConnectTimeout \/ WhSendLate \/ WhNoWifi \/ WhInterrupted \/ WhWatchdog
             \/ WhEnd \/ WhMoves \/ UNCHANGED whVars
    BY <1>t, <1>5, <2>1
    DEF WhConnectTimeout, WhSendLate, WhNoWifi, WhInterrupted, WhWatchdog, WhEnd, WhMoves,
        WhHang, whVars
  <2>2. CASE WhResolve \/ WhResolving \/ WhResolveTimeout
    BY <1>t, <2>2 DEF WhResolve, WhResolving, WhResolveTimeout, Hook
  <2>3. CASE WhConnect \/ WhConnected \/ WhSendTimeout
    BY <1>t, <2>3 DEF WhConnect, WhConnected, WhSendTimeout, Hook
  <2>4. CASE WhSend
    BY <1>t, <2>4 DEF WhSend, WhWritten, Hook
  <2>5. CASE WhFound
    BY <1>t, <2>5 DEF WhFound, Hook
  <2> QED
    BY <2>1, <2>2, <2>3, <2>4, <2>5 DEF WhNext
<1> QED
  BY <1>1, <1>2, <1>4, <1>6 DEF WhTypeOK, Hook

----
\* The scripts and the time.

Script == [runNow : 0..(MaxClock + Delay), line : 0..(NLines + 1), enable : BOOLEAN,
           next : 0..(MaxClock + Period)]
Ntp == [init : BOOLEAN, synched : BOOLEAN, valid : BOOLEAN, hung : BOOLEAN]
Pass == [i : 0..NScripts, known : BOOLEAN]

\* The types of the scripts, by their parts.
LEMMA ScTypes ==
    ScTypeOK <=> /\ script \in [Ids -> Script] /\ run \in 0..NScripts /\ cron \in Pass
                 /\ startup \in BOOLEAN /\ ntp \in Ntp /\ clock \in 1..MaxClock
                 /\ scEvents \in 0..ScMaxEvents
BY DEF ScTypeOK, Script, Ntp, Pass

\* scripts_init()
LEMMA LoadedType == \A enabled \in SUBSET Ids : Loaded(enabled) \in [Ids -> Script]
<1> SUFFICES ASSUME NEW enabled \in SUBSET Ids, NEW s \in Ids
             PROVE  [runNow |-> 0, line |-> 0, enable |-> s \in enabled, next |-> 0] \in Script
  BY DEF Loaded
<1> QED
  BY ScriptsAssumption DEF Script

\* The time that is not known, and no check of the schedules, are typed.
LEMMA FreshTypes == NtpFresh \in Ntp /\ NoCheck \in Pass
BY ScriptsAssumption DEF NtpFresh, Ntp, NoCheck, Pass

\* The scripts are typed at first.
LEMMA ScTypesInit == ScInit => ScTypeOK
<1> SUFFICES ASSUME ScInit PROVE ScTypeOK
  OBVIOUS
<1>1. script \in [Ids -> Script] /\ cron \in Pass /\ ntp \in Ntp
  BY LoadedType, FreshTypes DEF ScInit
<1>2. run \in 0..NScripts /\ clock \in 1..MaxClock /\ scEvents \in 0..ScMaxEvents
  BY ScriptsAssumption DEF ScInit
<1>3. startup \in BOOLEAN
  BY DEF ScInit
<1> QED
  BY <1>1, <1>2, <1>3, ScTypes

\* script_cron_set_next()
LEMMA WithNextType ==
    ASSUME ScTypeOK, NEW sc \in Script
    PROVE  WithNext(sc) \in Script /\ WithNext(sc).runNow = sc.runNow
<1>1. clock + Period \in 0..(MaxClock + Period)
  BY ScriptsAssumption DEF ScTypeOK
<1> QED
  BY <1>1 DEF WithNext, Script

\* Every step changes at most one script, but the ones that change them all.
LEMMA ScTypesNext == ScTypeOK /\ [ScNext]_scVars => ScTypeOK'
<1> SUFFICES ASSUME ScTypeOK, [ScNext]_scVars PROVE ScTypeOK'
  OBVIOUS
<1>t. /\ script \in [Ids -> Script] /\ run \in 0..NScripts /\ cron \in Pass
      /\ startup \in BOOLEAN /\ ntp \in Ntp /\ clock \in 1..MaxClock
      /\ scEvents \in 0..ScMaxEvents
  BY ScTypes
<1>r. clock + Delay \in 0..(MaxClock + Delay) /\ clock \in 0..(MaxClock + Delay)
      /\ 0 \in 0..(MaxClock + Delay)
  BY <1>t, ScriptsAssumption
<1>p. \A i \in 0..NScripts : [NoCheck EXCEPT !.i = i] \in Pass
  BY DEF NoCheck, Pass
<1>n. NextCheck \in Pass
  <2>1. cron.i \in 0..NScripts
    BY <1>t DEF Pass
  <2>2. cron.i < NScripts => cron.i + 1 \in 0..NScripts
    BY <2>1, ScriptsAssumption
  <2> QED
    BY <1>p, <2>2, FreshTypes DEF NextCheck
<1>e. (ScEvent \/ UNCHANGED scEvents) => scEvents' \in 0..ScMaxEvents
  BY <1>t, ScriptsAssumption DEF ScEvent
<1>s. ASSUME NEW s \in Ids, NEW sc \in Script, script' = [script EXCEPT ![s] = sc]
      PROVE  script' \in [Ids -> Script]
  BY <1>s, <1>t
<1>1. CASE NtpConnect \/ NtpReconnect \/ NtpAnswer
  <2>1. ntp' \in Ntp
    BY <1>1, <1>t, FreshTypes DEF NtpConnect, NtpReconnect, NtpAnswer, Ntp
  <2>2. UNCHANGED <<script, run, startup, clock, cron>> /\ (ScEvent \/ UNCHANGED scEvents)
    BY <1>1 DEF NtpConnect, NtpReconnect, NtpAnswer
  <2> QED
    BY <1>t, <1>e, <2>1, <2>2 DEF ScTypeOK, Script, Ntp, Pass
<1>2. CASE ScWatchdog
  <2>1. script' \in [Ids -> Script] /\ cron' \in Pass /\ ntp' \in Ntp
    BY <1>2, LoadedType, FreshTypes DEF ScWatchdog
  <2>2. run' \in 0..NScripts /\ UNCHANGED <<clock, scEvents>>
    BY <1>2, ScriptsAssumption DEF ScWatchdog
  <2>3. startup' \in BOOLEAN
    BY <1>2 DEF ScWatchdog
  <2> QED
    BY <1>t, <2>1, <2>2, <2>3 DEF ScTypeOK, Script, Ntp, Pass
<1>3. CASE ScTick
  <2>1. clock' \in 1..MaxClock
    BY <1>3, <1>t, ScriptsAssumption DEF ScTick
  <2> QED
    BY <1>3, <1>t, <2>1 DEF ScTick, ScTypeOK, Script, Ntp, Pass
<1>4. CASE ScStartup
  <2>1. \A s \in Ids : [script[s] EXCEPT !.runNow = clock + Delay] \in Script
    BY <1>t, <1>r DEF Script
  <2>2. script' \in [Ids -> Script]
    BY <1>4, <2>1 DEF ScStartup
  <2> QED
    BY <1>4, <1>t, <2>2 DEF ScStartup, ScTypeOK, Script, Ntp, Pass
<1>5. CASE ScStart
  <2>1. run' \in 0..NScripts /\ script' \in [Ids -> Script]
    <3>1. CASE UNCHANGED <<script, run>>
      BY <1>t, <3>1
    <3>2. ASSUME NEW s \in Ids, run' = s, script' = [script EXCEPT ![s].runNow = 0]
          PROVE  run' \in 0..NScripts /\ script' \in [Ids -> Script]
      <4>1. [script[s] EXCEPT !.runNow = 0] \in Script
        BY <1>t, <1>r DEF Script
      <4>2. script' = [script EXCEPT ![s] = [script[s] EXCEPT !.runNow = 0]]
        BY <3>2, <1>t
      <4> QED
        BY <1>t, <3>2, <4>1, <4>2, ScriptsAssumption DEF Ids
    <3> QED
      BY <1>5, <3>1, <3>2 DEF ScStart, Requested
  <2>2. cron' \in Pass
    <3>1. 1 \in 0..NScripts
      BY ScriptsAssumption
    <3> QED
      BY <1>5, <1>p, <3>1 DEF ScStart
  <2> QED
    BY <1>5, <1>t, <2>1, <2>2 DEF ScStart, ScTypeOK, Script, Ntp, Pass
<1>6. CASE ScExec
  <2>0. run \in Ids
    BY <1>6, <1>t DEF ScExec, Ids
  <2>1. script' \in [Ids -> Script]
    <3>1. ASSUME NEW n \in 0..(NLines + 1), script' = [script EXCEPT ![run].line = n]
          PROVE  script' \in [Ids -> Script]
      <4>1. [script[run] EXCEPT !.line = n] \in Script
        BY <1>t, <2>0 DEF Script
      <4>2. script' = [script EXCEPT ![run] = [script[run] EXCEPT !.line = n]]
        BY <3>1, <1>t, <2>0
      <4> QED
        BY <1>s, <2>0, <4>1, <4>2
    <3>2. script[run].line \in Nat
      BY <1>t, <2>0 DEF Script
    <3>3. script[run].line <= NLines => script[run].line + 1 \in 0..(NLines + 1)
      BY <3>2, ScriptsAssumption
    <3>4. 0 \in 0..(NLines + 1)
      BY ScriptsAssumption
    <3>5. CASE script[run].line <= NLines /\ script' = [script EXCEPT ![run].line = @ + 1]
      <4>1. script' = [script EXCEPT ![run].line = script[run].line + 1]
        BY <1>t, <2>0, <3>5
      <4> QED
        BY <3>1, <3>3, <3>5, <4>1
    <3> QED
      BY <1>6, <1>t, <3>1, <3>4, <3>5 DEF ScExec
  <2>2. run' \in 0..NScripts /\ (ScEvent \/ UNCHANGED scEvents) /\ UNCHANGED <<startup, ntp, clock, cron>>
    BY <1>6, <1>t, ScriptsAssumption DEF ScExec
  <2> QED
    BY <1>t, <1>e, <2>1, <2>2 DEF ScTypeOK, Script, Ntp, Pass
<1>7. CASE CronLook
  <2>1. cron.i \in Ids
    BY <1>7, <1>t DEF CronLook, Ids, Pass
  <2>2. cron' \in Pass
    BY <1>7, <1>t, <1>n DEF CronLook, Pass
  <2>3. script' \in [Ids -> Script]
    <3>1. WithNext(script[cron.i]) \in Script
      BY <1>t, <2>1, WithNextType
    <3>2. \/ script' = script
          \/ script' = [script EXCEPT ![cron.i] = WithNext(script[cron.i])]
      BY <1>7, <1>t, <2>1 DEF CronLook
    <3> QED
      BY <1>t, <1>s, <2>1, <3>1, <3>2
  <2> QED
    BY <1>7, <1>t, <2>2, <2>3 DEF CronLook, ScTypeOK, Script, Ntp, Pass
<1>8. CASE CronDue
  <2>1. script' \in [Ids -> Script]
    <3>1. ASSUME cron.i \in Ids, script' # script PROVE script' \in [Ids -> Script]
      <4>1. [script[cron.i] EXCEPT !.runNow = clock] \in Script
        BY <1>t, <1>r, <3>1 DEF Script
      <4>2. script' = [script EXCEPT ![cron.i] = WithNext([script[cron.i] EXCEPT !.runNow = clock])]
        BY <1>8, <1>t, <3>1 DEF CronDue
      <4> QED
        BY <1>s, <3>1, <4>1, <4>2, WithNextType
    <3>2. CASE cron.i \notin Ids
      BY <1>8, <1>t, <3>2 DEF CronDue
    <3> QED
      BY <1>t, <3>1, <3>2
  <2> QED
    BY <1>8, <1>t, <1>n, <2>1 DEF CronDue, ScTypeOK, Script, Ntp, Pass
<1>9. CASE ScCommand
  <2>1. ASSUME NEW s \in Ids, ScRun(s) PROVE script' \in [Ids -> Script]
    <3>1. [script[s] EXCEPT !.runNow = clock] \in Script
      BY <1>t, <1>r DEF Script
    <3>2. script' = [script EXCEPT ![s] = [script[s] EXCEPT !.runNow = clock]]
      BY <1>t, <2>1 DEF ScRun
    <3> QED
      BY <1>s, <3>1, <3>2
  <2>2. ASSUME NEW s \in Ids, NEW enable \in BOOLEAN, ScAutoRun(s, enable)
        PROVE  script' \in [Ids -> Script]
    <3>1. [script[s] EXCEPT !.enable = TRUE] \in Script
      BY <1>t DEF Script
    <3>2. [script[s] EXCEPT !.enable = FALSE, !.next = 0] \in Script
      <4>1. 0 \in 0..(MaxClock + Period)
        BY ScriptsAssumption
      <4> QED
        BY <1>t, <4>1 DEF Script
    <3>3. WithNext([script[s] EXCEPT !.enable = TRUE]) \in Script
      BY <3>1, WithNextType
    <3>4. \/ script' = [script EXCEPT ![s] = WithNext([script[s] EXCEPT !.enable = TRUE])]
          \/ script' = [script EXCEPT ![s] = [script[s] EXCEPT !.enable = FALSE, !.next = 0]]
      BY <1>t, <2>2 DEF ScAutoRun
    <3> QED
      BY <1>s, <3>2, <3>3, <3>4
  <2>3. ScEvent /\ UNCHANGED <<run, startup, ntp, clock, cron>> /\ script' \in [Ids -> Script]
    BY <1>9, <2>1, <2>2 DEF ScCommand, ScRun, ScAutoRun
  <2> QED
    BY <1>t, <1>e, <2>3 DEF ScTypeOK, Script, Ntp, Pass
<1>10. CASE UNCHANGED scVars
  BY <1>10 DEF scVars, ScTypeOK
<1> QED
  BY <1>1, <1>2, <1>3, <1>4, <1>5, <1>6, <1>7, <1>8, <1>9, <1>10 DEF ScNext, ScVisit

\* The action property of the scripts.
LEMMA RequestStays ==
    ASSUME ScTypeOK, [ScNext]_scVars, NEW s \in Ids, script[s].runNow > 0, script'[s].runNow = 0
    PROVE  run' = s \/ ntp.hung
<1>t. /\ script \in [Ids -> Script] /\ clock \in 1..MaxClock /\ cron \in Pass /\ run \in 0..NScripts
  BY ScTypes
<1>g. clock > 0 /\ clock + Delay > 0
  BY <1>t, ScriptsAssumption
<1>1. CASE \/ NtpConnect \/ NtpReconnect \/ NtpAnswer \/ ScTick \/ UNCHANGED scVars
  BY <1>1 DEF NtpConnect, NtpReconnect, NtpAnswer, ScTick, scVars
<1>2. CASE ScWatchdog
  BY <1>2 DEF ScWatchdog
<1>3. CASE ScStartup
  <2>1. script'[s].runNow = clock + Delay
    BY <1>3, <1>t DEF ScStartup, Script
  <2> QED
    BY <1>g, <2>1
<1>4. CASE ScStart
  BY <1>4, <1>t DEF ScStart, Requested, Script
<1>5. CASE ScExec
  <2>1. script'[s].runNow = script[s].runNow
    BY <1>5, <1>t DEF ScExec, Script
  <2> QED
    BY <2>1
<1>6. CASE CronLook
  <2>1. WithNext(script[cron.i]).runNow = script[cron.i].runNow \/ cron.i \notin Ids
    BY <1>t, WithNextType
  <2>2. script'[s].runNow = script[s].runNow
    BY <1>6, <1>t, <2>1 DEF CronLook
  <2> QED
    BY <2>2
<1>7. CASE CronDue
  <2>1. ASSUME cron.i \in Ids
        PROVE  WithNext([script[cron.i] EXCEPT !.runNow = clock]).runNow = clock
    <3>1. clock \in 0..(MaxClock + Delay)
      BY <1>t, ScriptsAssumption
    <3>2. [script[cron.i] EXCEPT !.runNow = clock] \in Script
      BY <1>t, <2>1, <3>1 DEF Script
    <3> QED
      BY <1>t, <2>1, <3>2, WithNextType DEF Script
  <2>2. script'[s].runNow = script[s].runNow \/ script'[s].runNow = clock
    BY <1>7, <1>t, <2>1 DEF CronDue
  <2> QED
    BY <1>g, <2>2
<1>8. ASSUME NEW o \in Ids, ScRun(o) PROVE run' = s \/ ntp.hung
  <2>1. script'[s].runNow = script[s].runNow \/ script'[s].runNow = clock
    BY <1>8, <1>t DEF ScRun, Script
  <2> QED
    BY <1>g, <2>1
<1>9. ASSUME NEW o \in Ids, NEW enable \in BOOLEAN, ScAutoRun(o, enable) PROVE run' = s \/ ntp.hung
  <2>1. [script[o] EXCEPT !.enable = TRUE] \in Script
    BY <1>t DEF Script
  <2>2. WithNext([script[o] EXCEPT !.enable = TRUE]).runNow = script[o].runNow
    BY <1>t, <2>1, WithNextType DEF Script
  <2>3. [script[o] EXCEPT !.enable = FALSE, !.next = 0].runNow = script[o].runNow
    BY <1>t DEF Script
  <2>4. script'[s].runNow = script[s].runNow
    BY <1>9, <1>t, <2>2, <2>3 DEF ScAutoRun
  <2> QED
    BY <2>4
<1> QED
  BY <1>1, <1>2, <1>3, <1>4, <1>5, <1>6, <1>7, <1>8, <1>9 DEF ScNext, ScVisit, ScCommand

\* A script that is asked for stays so until it is started, for any number of scripts,
\* schedule and startup delay: neither script_startup(), nor script_cron_check() nor
\* auto_run withdraws a request.
THEOREM RequestsKept == ScSpec => RequestsStay
<1>1. ScTypeOK /\ [ScNext]_scVars
        => [\A s \in Ids :
              script[s].runNow > 0 /\ script'[s].runNow = 0 => run' = s \/ ntp.hung]_scVars
  BY RequestStays
<1> QED
  BY <1>1, ScTypesInit, ScTypesNext, PTL DEF ScSpec, RequestsStay

\* A script whose file is open is the one that runs.
OpenIsRunning == \A s \in Ids : script[s].line > 0 => run = s

\* Every step keeps it.
LEMMA OpenStep ==
    ASSUME ScTypeOK, OpenIsRunning, [ScNext]_scVars
    PROVE  OpenIsRunning'
<1>t. script \in [Ids -> Script] /\ run \in 0..NScripts /\ 0 \notin Ids
  BY ScTypes DEF Ids
<1>l. \A s \in Ids : script[s].line \in Nat
  BY <1>t, ScriptsAssumption DEF Script
<1>k. ASSUME \A s \in Ids : script'[s].line = script[s].line, run' = run \/ run = 0
      PROVE  OpenIsRunning'
  BY <1>k, <1>t DEF OpenIsRunning
<1>1. CASE NtpConnect \/ NtpReconnect \/ NtpAnswer \/ ScTick
  BY <1>1, <1>k DEF NtpConnect, NtpReconnect, NtpAnswer, ScTick
<1>2. CASE ScWatchdog
  <2>1. \A s \in Ids : script'[s].line = 0
    BY <1>2 DEF ScWatchdog, Loaded
  <2> QED
    BY <2>1 DEF OpenIsRunning
<1>3. CASE ScStartup
  <2>1. \A s \in Ids : script'[s].line = script[s].line
    BY <1>3, <1>t DEF ScStartup, Script
  <2> QED
    BY <1>3, <1>k, <2>1 DEF ScStartup
<1>4. CASE ScStart
  <2>1. ASSUME NEW r \in Ids, script' = [script EXCEPT ![r].runNow = 0]
        PROVE  \A s \in Ids : script'[s].line = script[s].line
    BY <1>t, <2>1 DEF Script
  <2>2. \A s \in Ids : script'[s].line = script[s].line
    BY <1>4, <2>1 DEF ScStart, Requested
  <2> QED
    BY <1>4, <1>k, <2>2 DEF ScStart
<1>5. CASE ScExec
  <2>0. run \in Ids
    BY <1>5, <1>t, ScriptsAssumption DEF ScExec, Ids
  <2>1. CASE run' = run /\ script' = [script EXCEPT ![run].line = @ + 1]
    <3>1. \A s \in Ids \ {run} : script'[s] = script[s]
      BY <1>t, <2>0, <2>1
    <3> QED
      BY <2>1, <3>1 DEF OpenIsRunning
  <2>2. CASE script' = [script EXCEPT ![run].line = 0]
    <3>1. script'[run].line = 0 /\ \A s \in Ids \ {run} : script'[s] = script[s]
      BY <1>t, <2>0, <2>2 DEF Script
    <3> QED
      BY <1>l, <3>1 DEF OpenIsRunning
  <2>3. CASE script[run].line = 0 /\ UNCHANGED script
    BY <1>l, <2>0, <2>3 DEF OpenIsRunning
  <2> QED
    BY <1>5, <2>1, <2>2, <2>3 DEF ScExec
<1>6. CASE CronLook \/ CronDue
  <2>1. \A s \in Ids : script'[s].line = script[s].line
    <3>1. CASE UNCHANGED script
      BY <3>1
    <3>2. CASE script' = [script EXCEPT ![cron.i] = WithNext(@)]
      BY <1>t, <3>2 DEF WithNext, Script
    <3>3. CASE script' = [script EXCEPT ![cron.i] = WithNext([@ EXCEPT !.runNow = clock])]
      BY <1>t, <3>3 DEF WithNext, Script
    <3> QED
      BY <1>6, <3>1, <3>2, <3>3 DEF CronLook, CronDue
  <2> QED
    BY <1>6, <1>k, <2>1 DEF CronLook, CronDue
<1>7. ASSUME NEW s \in Ids, ScRun(s) PROVE OpenIsRunning'
  <2>1. \A q \in Ids : script'[q].line = script[q].line
    BY <1>7, <1>t DEF ScRun, Script
  <2> QED
    BY <1>7, <1>k, <2>1 DEF ScRun
<1>8. ASSUME NEW s \in Ids, NEW enable \in BOOLEAN, ScAutoRun(s, enable) PROVE OpenIsRunning'
  <2>1. \A q \in Ids : script'[q].line = script[q].line
    BY <1>8, <1>t DEF ScAutoRun, WithNext, Script
  <2> QED
    BY <1>8, <1>k, <2>1 DEF ScAutoRun
<1>9. CASE UNCHANGED scVars
  BY <1>9 DEF scVars, OpenIsRunning
<1> QED
  BY <1>1, <1>2, <1>3, <1>4, <1>5, <1>6, <1>7, <1>8, <1>9 DEF ScNext, ScVisit, ScCommand

\* No script leaves its file open: only the script that runs has one, whatever requests,
\* schedules and files that cannot be opened come in between (script_exec,
\* sys_scripts_run), for any number of scripts.
THEOREM OpenScriptRuns == ScSpec => []OpenIsRunning
<1>1. ScInit => OpenIsRunning
  BY DEF ScInit, OpenIsRunning, Loaded
<1>2. ScTypeOK /\ OpenIsRunning /\ [ScNext]_scVars => OpenIsRunning'
  BY OpenStep
<1> QED
  BY <1>1, <1>2, ScTypesInit, ScTypesNext, PTL DEF ScSpec

----
\* The TFTP client.

\* The table of the jobs is typed at first.
LEMMA TftpTypesInit == TftpInit => TftpTypeOK
BY TftpAssumption DEF TftpInit, TftpTypeOK, FreeJob, Job, NoTransfer, Transfer

\* A job as it is after the memset, and lwIP without a transfer.
LEMMA FreeTypes == FreeJob \in Job /\ NoTransfer \in Transfer
BY TftpAssumption DEF FreeJob, Job, NoTransfer, Transfer

\* Every step of the TFTP client keeps its types.
LEMMA TftpTypesNext == TftpTypeOK /\ [TftpNext]_tftpVars => TftpTypeOK'
<1> SUFFICES ASSUME TftpTypeOK, [TftpNext]_tftpVars PROVE TftpTypeOK'
  OBVIOUS
<1>1. ASSUME NEW o \in Owners, NewJob(o) PROVE TftpTypeOK'
  <2>1. FreeSlots \in SUBSET Nat /\ FreeSlots \subseteq Slots /\ FreeSlots # {}
    BY <1>1 DEF NewJob, FreeSlots, Slots
  <2>2. FirstFree \in Slots
    BY <2>1, HasLeast DEF FirstFree
  <2>3. [FreeJob EXCEPT !.owner = o] \in Job
    BY DEF FreeJob, Job
  <2> QED
    BY <1>1, <2>2, <2>3 DEF NewJob, WithNewJob, TftpTypeOK
<1>5. CASE ScanJobs
  <2>1. FreeSlots \in SUBSET Nat /\ FreeSlots \subseteq Slots /\ FreeSlots # {}
    BY <1>5 DEF ScanJobs, FreeSlots, Slots
  <2>2. FirstFree \in Slots
    BY <2>1, HasLeast DEF FirstFree
  <2> QED
    BY <1>5, <2>2 DEF ScanJobs, TftpTypeOK
<1>6. ASSUME NEW o \in Owners, FillJob(o) PROVE TftpTypeOK'
  <2>1. [FreeJob EXCEPT !.owner = o] \in Job
    BY DEF FreeJob, Job
  <2> QED
    BY <1>6, <2>1 DEF FillJob, WithNewJob, TftpTypeOK
<1>2. ASSUME NEW i \in Slots, JobRun(i) PROVE TftpTypeOK'
  <2>1. CASE JobResolved(i)
    BY <2>1 DEF JobResolved, TftpTypeOK, Job, Started
  <2>2. CASE JobResolving(i)
    BY <2>2, TftpAssumption DEF JobResolving, TftpTypeOK, Job, Started
  <2>3. ASSUME NEW s \in Sources, JobRequest(i, s) PROVE TftpTypeOK'
    BY <2>3, TftpAssumption DEF JobRequest, TftpTypeOK, Transfer
  <2>4. CASE JobRequested(i)
    BY <2>4 DEF JobRequested, TftpTypeOK, Job
  <2>5. CASE JobFailed(i)
    BY <2>5, FreeTypes, TftpAssumption DEF JobFailed, TftpTypeOK, NoTransfer, Transfer
  <2> QED
    BY <1>2, <2>1, <2>2, <2>3, <2>4, <2>5 DEF JobRun
<1>3. CASE Network
  <2>1. ASSUME NEW q \in dns, NEW found \in BOOLEAN, PeerFound(q, found) PROVE TftpTypeOK'
    <3>1. q[1] \in Slots /\ q[2] \in Owners
      BY DEF TftpTypeOK
    <3> QED
      BY <2>1, <3>1 DEF PeerFound, TftpTypeOK, Job
  <2>2. ASSUME NEW i \in Slots, PacketNext(i) PROVE TftpTypeOK'
    BY <2>2, TftpAssumption DEF PacketNext, TftpTypeOK, Transfer
  <2>3. ASSUME NEW i \in Slots, PacketEnd(i) PROVE TftpTypeOK'
    BY <2>3, FreeTypes DEF PacketEnd, TftpTypeOK
  <2>4. CASE PacketOrphan
    BY <2>4, FreeTypes DEF PacketOrphan, TftpTypeOK
  <2> QED
    BY <1>3, <2>1, <2>2, <2>3, <2>4 DEF Network
<1>4. CASE UNCHANGED tftpVars
  BY <1>4 DEF tftpVars, TftpTypeOK
<1> QED
  BY <1>1, <1>2, <1>3, <1>4, <1>5, <1>6 DEF TftpNext

\* The answers to name queries come while the job that asked is there, and with an
\* address: no slot was given to another owner meanwhile.
OwnAnswers ==
    [][\A q \in dns \ dns' :
         Started(q[1]) => jobs[q[1]].owner = q[2] /\ jobs'[q[1]].addr # Junk]_tftpVars

\* A job whose name is resolved has the address of its own server.
OwnAddress ==
    \A i \in Slots : Started(i) /\ jobs[i].ip = "resolved" => jobs[i].addr = jobs[i].owner

\* With such answers only, a job gets its own address and its request goes there.
LEMMA OwnAddressStep ==
    ASSUME TftpTypeOK, OwnAddress, [TftpNext]_tftpVars,
           [\A q \in dns \ dns' :
              Started(q[1]) => jobs[q[1]].owner = q[2] /\ jobs'[q[1]].addr # Junk]_tftpVars
    PROVE  /\ OwnAddress'
           /\ \A i \in Slots : cur = 0 /\ cur' = i => jobs[i].addr = jobs[i].owner
<1> DEFINE Own(jb) == jb.owner # None /\ jb.ip = "resolved" => jb.addr = jb.owner
           Goal == /\ OwnAddress'
                   /\ \A i \in Slots : cur = 0 /\ cur' = i => jobs[i].addr = jobs[i].owner
<1>t. jobs \in [Slots -> Job] /\ 0 \notin Slots /\ claim \in Slots \cup {0}
  BY DEF TftpTypeOK, Slots
<1>0. Own(FreeJob) /\ \A i \in Slots : Own(jobs[i])
  BY DEF OwnAddress, Started, FreeJob
<1>1. ASSUME NEW i \in Slots, \A j \in Slots \ {i} : jobs'[j] = jobs[j], Own(jobs'[i]),
             cur' = cur \/ cur' = 0
      PROVE  Goal
  <2>1. \A j \in Slots : Own(jobs'[j])
    BY <1>0, <1>1
  <2> QED
    BY <1>1, <1>t, <2>1 DEF OwnAddress, Started
<1>2. ASSUME NEW o \in Owners, NewJob(o) PROVE Goal
  <2>1. FreeSlots \in SUBSET Nat /\ FreeSlots \subseteq Slots /\ FreeSlots # {}
    BY <1>2 DEF NewJob, FreeSlots, Slots
  <2>2. FirstFree \in Slots
    BY <2>1, HasLeast DEF FirstFree
  <2>3. Own([FreeJob EXCEPT !.owner = o])
    BY DEF FreeJob
  <2>4. jobs'[FirstFree] = [FreeJob EXCEPT !.owner = o]
    BY <1>2, <1>t, <2>2 DEF NewJob, WithNewJob
  <2>5. \A j \in Slots \ {FirstFree} : jobs'[j] = jobs[j]
    BY <1>2, <1>t, <2>2 DEF NewJob, WithNewJob
  <2>6. Own(jobs'[FirstFree]) /\ cur' = cur
    BY <1>2, <2>3, <2>4 DEF NewJob
  <2> QED
    BY <1>1, <2>2, <2>5, <2>6
<1>6. CASE ScanJobs
  BY <1>t, <1>6 DEF ScanJobs, OwnAddress, Started
<1>7. ASSUME NEW o \in Owners, FillJob(o) PROVE Goal
  <2>1. /\ claim \in Slots /\ jobs'[claim] = [FreeJob EXCEPT !.owner = o]
        /\ \A j \in Slots \ {claim} : jobs'[j] = jobs[j]
        /\ cur' = cur
    BY <1>t, <1>7 DEF FillJob, WithNewJob
  <2>2. Own(jobs'[claim])
    BY <2>1 DEF FreeJob
  <2> QED
    BY <1>1, <2>1, <2>2
<1>3. ASSUME NEW i \in Slots, JobRun(i) PROVE Goal
  <2>1. CASE JobResolved(i)
    BY <1>1, <1>t, <2>1 DEF JobResolved, Job
  <2>2. CASE JobResolving(i)
    BY <1>1, <1>t, <2>2 DEF JobResolving, Job
  <2>3. ASSUME NEW s \in Sources, JobRequest(i, s) PROVE Goal
    <3>1. Started(i) /\ jobs[i].ip = "resolved" /\ cur' = i /\ UNCHANGED jobs
      BY <2>3 DEF JobRequest
    <3> QED
      BY <3>1 DEF OwnAddress, Started
  <2>4. CASE JobRequested(i)
    BY <1>0, <1>1, <1>t, <2>4 DEF JobRequested, Job
  <2>5. CASE JobFailed(i)
    BY <1>0, <1>1, <1>t, <2>5 DEF JobFailed
  <2> QED
    BY <1>3, <2>1, <2>2, <2>3, <2>4, <2>5 DEF JobRun
<1>4. CASE Network
  <2>1. ASSUME NEW q \in dns, NEW found \in BOOLEAN, PeerFound(q, found) PROVE Goal
    <3>1. q[1] \in Slots /\ q \in dns \ dns' /\ dns' # dns
      BY <2>1 DEF PeerFound, TftpTypeOK
    <3>2. Started(q[1]) => jobs[q[1]].owner = q[2] /\ jobs'[q[1]].addr # Junk
      BY <3>1 DEF tftpVars
    <3>3. /\ \A j \in Slots \ {q[1]} : jobs'[j] = jobs[j]
          /\ jobs'[q[1]].owner = jobs[q[1]].owner
          /\ jobs'[q[1]].addr = IF found THEN q[2] ELSE Junk
          /\ cur' = cur
      BY <1>t, <2>1, <3>1 DEF PeerFound, Job
    <3>4. Own(jobs'[q[1]])
      BY <3>2, <3>3 DEF Started
    <3> QED
      BY <1>1, <3>1, <3>3, <3>4
  <2>2. ASSUME NEW i \in Slots, PacketNext(i) PROVE Goal
    BY <1>0, <1>1, <2>2 DEF PacketNext
  <2>3. ASSUME NEW i \in Slots, PacketEnd(i) PROVE Goal
    BY <1>0, <1>1, <1>t, <2>3 DEF PacketEnd
  <2>4. CASE PacketOrphan
    BY <1>t, <2>4 DEF PacketOrphan, OwnAddress, Started
  <2> QED
    BY <1>4, <2>1, <2>2, <2>3, <2>4 DEF Network
<1>5. CASE UNCHANGED tftpVars
  BY <1>t, <1>5 DEF tftpVars, OwnAddress, Started
<1> QED
  BY <1>2, <1>3, <1>4, <1>5, <1>6, <1>7 DEF TftpNext

\* An answer that comes for the owner a slot had before, or without an address, is the
\* only way in which a request goes to a foreign server (tftp_peer_found): without them
\* RequestToOwnPeer holds, whatever is delayed, lost or repeated, and however often the
\* slots are reused.
THEOREM OnlyLateAnswersMislead == TftpSpec /\ OwnAnswers => RequestToOwnPeer
<1>1. TftpInit => OwnAddress
  BY DEF TftpInit, OwnAddress, Started, FreeJob
<1>2. /\ TftpTypeOK /\ OwnAddress /\ [TftpNext]_tftpVars
      /\ [\A q \in dns \ dns' :
            Started(q[1]) => jobs[q[1]].owner = q[2] /\ jobs'[q[1]].addr # Junk]_tftpVars
      => /\ OwnAddress'
         /\ [\A i \in Slots : cur = 0 /\ cur' = i => jobs[i].addr = jobs[i].owner]_tftpVars
  BY OwnAddressStep
<1> QED
  BY <1>1, <1>2, TftpTypesInit, TftpTypesNext, PTL DEF TftpSpec, OwnAnswers, RequestToOwnPeer

----
\* The composition.

\* A step of one part leaves the others alone.
LEMMA PartsStep ==
    [SvcNext]_svcVars =>
        /\ [WebNext]_webVars /\ [WhNext]_whVars /\ [FsNext]_fsVars
        /\ [ScNext]_scVars /\ [TftpNext]_tftpVars
<1> SUFFICES ASSUME [SvcNext]_svcVars
             PROVE  /\ [WebNext]_webVars /\ [WhNext]_whVars /\ [FsNext]_fsVars
                    /\ [ScNext]_scVars /\ [TftpNext]_tftpVars
  OBVIOUS
<1>1. CASE WebPart(Interrupt) \/ WebPart(WebMain) \/ WebPart(Watchdog)
  BY <1>1 DEF WebPart, WebNext
<1>2. CASE HookPart(WhNext)
  BY <1>2 DEF HookPart
<1>3. CASE \/ FsPart(\E get \in BOOLEAN : WebCp(get))
           \/ FsPart(WebCpRefused) \/ FsPart(WebCpLocal) \/ FsPart(OtherNew)
           \/ FsPart(MainCp) \/ FsPart(OtherScan) \/ FsPart(OtherFill)
           \/ FsPart(FsHooks) \/ FsPart(ScriptScan) \/ FsPart(ScriptOpen)
           \/ FsPart(ScriptClose) \/ FsPart(CloseAllFiles)
  BY <1>3 DEF FsPart, FsNext
<1>4. CASE \/ ScriptPart(NtpConnect) \/ ScriptPart(NtpReconnect) \/ ScriptPart(NtpAnswer)
           \/ ScriptPart(ScWatchdog) \/ ScriptPart(ScTick) \/ ScriptPart(ScVisit)
           \/ ScriptPart(ScCommand)
  BY <1>4 DEF ScriptPart, ScNext
<1>5. CASE \/ TftpPart(\E o \in Owners : NewJob(o) \/ FillJob(o))
           \/ TftpPart(ScanJobs)
           \/ \E i \in Slots : TftpPart(JobRun(i))
           \/ TftpPart(Network)
  BY <1>5 DEF TftpPart, TftpNext
<1>6. CASE UNCHANGED svcVars
  BY <1>6 DEF svcVars
<1> QED
  BY <1>1, <1>2, <1>3, <1>4, <1>5, <1>6 DEF SvcNext

\* The services keep their types, for any sizes of their tables: slots, descriptors and
\* jobs that a scan finds exist, and every index, block and counter stays within its
\* array or bound.
THEOREM ServicesTypes == SvcSpec => []SvcTypeOK
<1> DEFINE Inv == WebInv /\ WhTypeOK /\ FsInv /\ ScTypeOK /\ TftpTypeOK
<1>1. SvcInit => Inv
  BY WebInvInit, WhTypesInit, FsInvInit, ScTypesInit, TftpTypesInit DEF SvcInit
<1>2. Inv /\ [SvcNext]_svcVars => Inv'
  BY PartsStep, WebInvNext, WhTypesNext, FsInvNext, ScTypesNext, TftpTypesNext
<1>3. Inv => SvcTypeOK
  BY DEF WebInv, FsInv, SvcTypeOK
<1> QED
  BY <1>1, <1>2, <1>3, PTL DEF SvcSpec
====
