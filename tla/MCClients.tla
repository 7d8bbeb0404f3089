---- MODULE MCClients ----
(***************************************************************************)
(* The updates and the MQTT client, for TLC: their progress.  As in        *)
(* MCServices, part is the one that runs.                                  *)
(***************************************************************************)
EXTENDS MCOta, Mqtt

VARIABLE part

cliVars == <<part, vars, mqttVars>>

OtaPart(A) == part = "ota" /\ A /\ UNCHANGED <<part, mqttVars>>
MqttPart(A) == part = "mqtt" /\ A /\ UNCHANGED <<part, vars>>

CliInit == part \in {"ota", "mqtt"} /\ Init /\ MqttInit

CliNext ==
    \/ \E i \in Slots : OtaPart(TftpRun(i) \/ TftpFailed(i))
    \/ OtaPart(OtaRun)
    \/ OtaPart(LoopCommand)
    \/ OtaPart(CommandSteps)
    \/ OtaPart(Hooks)
    \/ OtaPart(Command)
    \/ OtaPart(Crash)
    \/ MqttPart(MainLoop)
    \/ MqttPart(Driver)
    \/ MqttPart(Accepted)
    \/ MqttPart(Disconnected)
    \/ MqttPart(ServerFound)
    \/ MqttPart(PublishFailed)

CliFairness ==
    /\ WF_cliVars(\/ OtaPart(MarkValid \/ ScheduleApply \/ CommandSteps)
                  \/ MqttPart(MainLoop))
    /\ WF_cliVars(MqttPart(ServerFound))
    /\ SF_cliVars(\/ OtaPart(TftpRun(1) \/ TftpFailed(1))
                  \/ MqttPart(Timeout))
    /\ SF_cliVars(\/ OtaPart(UpdateChecked \/ UpdateRejected \/ UpdateTimeout)
                  \/ MqttPart(VisitWifi /\ WifiTimeout))
    /\ SF_cliVars(\/ OtaPart(PerformUpdate)
                  \/ MqttPart(LinkUp /\ UNCHANGED <<clientVars, turn>>))
    /\ SF_cliVars(\/ OtaPart(CheckReady \/ CheckTimeout)
                  \/ MqttPart(Accepted))

CliSpec == CliInit /\ [][CliNext]_cliVars /\ CliFairness

----
\* EventuallyServing, of the MQTT client.
MqttServes == EventuallyServing \/ <>[](part # "mqtt")
====
