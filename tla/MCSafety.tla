---- MODULE MCSafety ----
(***************************************************************************)
(* Parts whose safety is checked, for TLC.  As in MCServices, part is the  *)
(* one that runs.                                                          *)
(***************************************************************************)
EXTENDS MCOta, MCMqttListen, MCCron, CfgStore, OtFrame, Bms

VARIABLE part

safVars == <<part, vars, listenVars, crVars, cfgVars, frameVars, bmsVars>>

OtaPart(A) == part = "ota" /\ A /\ UNCHANGED <<part, listenVars, crVars, cfgVars, frameVars, bmsVars>>
ListenPart(A) == part = "listen" /\ A /\ UNCHANGED <<part, vars, crVars, cfgVars, frameVars, bmsVars>>
CronPart(A) == part = "cron" /\ A /\ UNCHANGED <<part, vars, listenVars, cfgVars, frameVars, bmsVars>>
CfgPart(A) == part = "cfg" /\ A /\ UNCHANGED <<part, vars, listenVars, crVars, frameVars, bmsVars>>
FramePart(A) == part = "frame" /\ A /\ UNCHANGED <<part, vars, listenVars, crVars, cfgVars, bmsVars>>
BmsPart(A) == part = "bms" /\ A /\ UNCHANGED <<part, vars, listenVars, crVars, cfgVars, frameVars>>

\* A part that stays in an initial state stays in one of them.
SafInit ==
    /\ part \in {"ota", "listen", "cron", "cfg", "frame", "bms"}
    /\ Init /\ ListenInit /\ BmsInit
    /\ \E e \in Exprs, date \in CrDates :
         /\ part # "cron" => e = (CHOOSE x \in Exprs : Plain(x)) /\ date = (CHOOSE x \in CrDates : TRUE)
         /\ CronLoad(e, date)
    /\ CfgInit /\ (part # "cfg" => Stored = {})
    /\ FrameInit /\ (part # "frame" => sent = {})

SafNext ==
    \/ \E i \in Slots : OtaPart(TftpRun(i) \/ TftpFailed(i))
    \/ OtaPart(OtaRun)
    \/ OtaPart(LoopCommand)
    \/ OtaPart(CommandSteps)
    \/ OtaPart(Hooks)
    \/ OtaPart(Command)
    \/ OtaPart(Crash)
    \/ \E m \in Msgs : ListenPart(Publish(m))
    \/ \E n \in 1..Ring : ListenPart(Payload(n))
    \/ ListenPart(Lost)
    \/ ListenPart(CallHooks)
    \/ ListenPart(ClearInProgress)
    \/ ListenPart(ClearReady)
    \/ ListenPart(ClearRest)
    \/ CronPart(CronFires)
    \/ CronPart(CronRetries)
    \/ CfgPart(CfgMain)
    \/ CfgPart(CfgWeb)
    \/ CfgPart(PowerFails)
    \/ CfgPart(CfgWatchdog)
    \/ FramePart(FrameNext)
    \/ BmsPart(Events)
    \/ BmsPart(MainLoop)

SafSpec == SafInit /\ [][SafNext]_safVars

----
\* The configuration store, the battery and the buffers of received messages
\* keep their types.
SafTypeOK == CfgTypeOK /\ BmsTypeOK /\ ListenTypeOK
====
