---- MODULE MCDevices ----
(***************************************************************************)
(* The devices whose progress is checked, for TLC.                         *)
(* As in MCServices, part is the one that runs.                            *)
(***************************************************************************)
EXTENDS MCHeating, MCOpenTherm, Voltronic, MCSht20

VARIABLE part

devVars == <<part, heatVars, otVars, voVars, shtVars>>

HeatPart(A) == part = "heat" /\ A /\ UNCHANGED <<part, otVars, voVars, shtVars>>
BoilerPart(A) == part = "boiler" /\ A /\ UNCHANGED <<part, heatVars, voVars, shtVars>>
InverterPart(A) == part = "inverter" /\ A /\ UNCHANGED <<part, heatVars, otVars, shtVars>>
ShtPart(A) == part = "sht" /\ A /\ UNCHANGED <<part, heatVars, otVars, voVars>>

DevInit ==
    /\ part \in {"heat", "boiler", "inverter", "sht"}
    /\ HeatInit /\ OtInit /\ VoInit /\ ShtInit
    /\ part # "heat" => \A t \in Therms : ~therm[t].enable /\ therm[t].off = 1 /\ sensor[t].val = 1
    /\ part # "boiler" => boiler.on /\ boiler.knows = Cmds

DevNext ==
    \/ HeatPart(HeatCommand)
    \/ HeatPart(HeatVisit)
    \/ HeatPart(HeatTick)
    \/ BoilerPart(OtMain)
    \/ BoilerPart(OtUser)
    \/ BoilerPart(BoilerSwitch)
    \/ BoilerPart(OtTick)
    \/ InverterPart(Attach)
    \/ InverterPart(MountFails)
    \/ InverterPart(Mount)
    \/ InverterPart(Unmount)
    \/ InverterPart(ReportLost)
    \/ InverterPart(VoTick)
    \/ InverterPart(VoSlow)
    \/ InverterPart(HidReport)
    \/ InverterPart(BusRestart)
    \/ InverterPart(Ask)
    \/ ShtPart(ShtRun)
    \/ \E t \in timers : ShtPart(ShtTime(t))

DevFairness ==
    /\ WF_devVars(\/ HeatPart(HeatTick)
                  \/ BoilerPart(OtMain)
                  \/ InverterPart(Ask)
                  \/ ShtPart(ShtRun))
    /\ WF_devVars(\/ HeatPart(SsrSwitch)
                  \/ InverterPart(BusRestart)
                  \/ ShtPart(\E t \in timers : ShtTime(t)))
    /\ WF_devVars(\/ HeatPart(SetStored)
                  \/ InverterPart(Mount)
                  \/ ShtPart(ShtTime(<<"err", 1>>)))
    /\ WF_devVars(\/ HeatPart(ThermSwitch)
                  \/ InverterPart(HidReport)
                  \/ ShtPart(ShtTime(<<"err", 2>>)))
    /\ WF_devVars(\/ InverterPart(VoTick)
                  \/ ShtPart(ShtTime(<<"err", 3>>)))
    /\ SF_devVars(\/ HeatPart(\E r \in Relays : SsrDue(r))
                  \/ BoilerPart(XchAnswered /\ xch.cmd = "status"))
    /\ SF_devVars(\/ HeatPart(\E t \in Therms : ThermMeasure(t))
                  \/ BoilerPart(XchAnswered /\ xch.cmd = "ch"))

DevSpec == DevInit /\ [][DevNext]_devVars /\ DevFairness

----
\* Every part keeps its types.
DevTypeOK ==
    HeatTypeOK /\ OtTypeOK /\ VoTypeOK /\ ShtTypeOK

\* BoilerFollows, of the boiler.
BoilerObeys == BoilerFollows \/ <>[](part # "boiler")

\* SensorsRead, of the sensors.
AllSensorsRead == SensorsRead \/ <>[](part # "sht")
====
