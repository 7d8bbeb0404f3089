---- MODULE MCServices ----
(***************************************************************************)
(* The services whose progress is checked, for TLC.  They share no state   *)
(* in the model, so each one runs by itself and the others stay in their   *)
(* initial states: part says which one runs, and never changes.  As it     *)
(* never changes, a fairness condition stands for one of every part.       *)
(***************************************************************************)
EXTENDS MCTftp, WebServer, WebHook, FileSystem, Scripts

VARIABLE part

svcVars == <<part, webVars, whVars, fsVars, scVars, tftpVars>>

WebPart(A) == part = "web" /\ A /\ UNCHANGED <<part, whVars, fsVars, scVars, tftpVars>>
HookPart(A) == part = "hook" /\ A /\ UNCHANGED <<part, webVars, fsVars, scVars, tftpVars>>
FsPart(A) == part = "fs" /\ A /\ UNCHANGED <<part, webVars, whVars, scVars, tftpVars>>
ScriptPart(A) == part = "scripts" /\ A /\ UNCHANGED <<part, webVars, whVars, fsVars, tftpVars>>
TftpPart(A) == part = "tftp" /\ A /\ UNCHANGED <<part, webVars, whVars, fsVars, scVars>>

SvcInit ==
    /\ part \in {"web", "hook", "fs", "scripts", "tftp"}
    /\ WebInit /\ WhInit /\ FsInit /\ ScInit /\ TftpInit
    /\ part # "hook" => server = "x"
    /\ part # "scripts" => script = Loaded({})

SvcNext ==
    \/ WebPart(Interrupt)
    \/ WebPart(WebMain)
    \/ WebPart(Watchdog)
    \/ HookPart(WhNext)
    \/ FsPart(\E get \in BOOLEAN : WebCp(get))
    \/ FsPart(WebCpRefused)
    \/ FsPart(WebCpLocal)
    \/ FsPart(OtherNew)
    \/ FsPart(MainCp)
    \/ FsPart(OtherScan)
    \/ FsPart(OtherFill)
    \/ FsPart(FsHooks)
    \/ FsPart(ScriptScan)
    \/ FsPart(ScriptOpen)
    \/ FsPart(ScriptClose)
    \/ FsPart(CloseAllFiles)
    \/ ScriptPart(NtpConnect)
    \/ ScriptPart(NtpReconnect)
    \/ ScriptPart(NtpAnswer)
    \/ ScriptPart(ScWatchdog)
    \/ ScriptPart(ScTick)
    \/ ScriptPart(ScVisit)
    \/ ScriptPart(ScCommand)
    \/ TftpPart(\E o \in Owners : NewJob(o) \/ FillJob(o))
    \/ TftpPart(ScanJobs)
    \/ \E i \in Slots : TftpPart(JobRun(i))
    \/ TftpPart(Network)

SvcFairness ==
    /\ WF_svcVars(\/ WebPart(main.at # "idle" /\ WebMain)
                  \/ HookPart(wh.tcp = "off" /\ WhProgress)
                  \/ FsPart(FsHookBlock(1))
                  \/ ScriptPart(ScVisit))
    /\ WF_svcVars(\/ WebPart(Watchdog)
                  \/ HookPart(wh.tcp # "off" /\ WhProgress)
                  \/ FsPart(FsHookBlock(2))
                  \/ ScriptPart(NtpConnect))
    /\ WF_svcVars(\/ HookPart(WhResolveTimeout)
                  \/ ScriptPart(NtpAnswer)
                  \/ FsPart(MainEnds)
                  \/ TftpPart(\E o \in Owners : FillJob(o)))
    /\ WF_svcVars(HookPart(WhFound) \/ ScriptPart(ScWatchdog))
    /\ WF_svcVars(HookPart(WhSendTimeout) \/ ScriptPart(ScTick))
    /\ SF_svcVars(WebPart(CloseCheck(1)) \/ TftpPart(JobRun(1)) \/ FsPart(JobSent(1)))
    /\ SF_svcVars(WebPart(CloseCheck(2)) \/ TftpPart(JobRun(2)) \/ FsPart(JobSent(2)))

SvcSpec == SvcInit /\ [][SvcNext]_svcVars /\ SvcFairness

----
\* Every part keeps its types.
SvcTypeOK ==
    WebTypeOK /\ WhTypeOK /\ FsTypeOK /\ ScTypeOK /\ TftpTypeOK

\* WhServes, of the web hook.
HookServes == WhServes \/ <>[](part # "hook")
====
