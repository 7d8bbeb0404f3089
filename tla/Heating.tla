---- MODULE Heating ----
(***************************************************************************)
(* The relays (ssr.c), the thermostats that switch them (thermostat.c) and *)
(* the remote sensors they read (rsensor.c).                               *)
(*                                                                         *)
(* The main loop visits every relay and every thermostat; here in any      *)
(* order.  A visit is split where a command of a web request, which runs   *)
(* in the interrupt, may come between what was read and what is done about *)
(* it: heat is the visit in progress.  A remote sensor is heard through    *)
(* the MQTT hooks, which the main loop calls between two visits.           *)
(***************************************************************************)
EXTENDS Integers

CONSTANTS
    Relays,     \* the configured relays
    Therms,     \* the configured thermostats
    RelayOf,    \* therm_device_t.ssr_id
    Degrees,    \* the temperatures that are measured and asked for
    Hysts,      \* the values of the hysteresis command
    MaxTime     \* the longest time and delay of a relay, in ticks

ASSUME HeatAssumption ==
    /\ RelayOf \in [Therms -> Relays]
    /\ Degrees \subseteq Int /\ Hysts \subseteq Int
    /\ MaxTime \in Nat

VARIABLES
    relay,      \* ssr_t: states as ON/OFF, pin the output, age the ticks since
                \* last_switch.  Not of the code: asked holds the state that
                \* ssr?set has asked for a while, if nothing has asked for another
                \* since, and cut says that it came within a set of the main loop
    therm,      \* therm_device_t
    sensor,     \* rsensor_t, one for each thermostat
    heat        \* the visit in progress

heatVars == <<relay, therm, sensor, heat>>

Times == 0..MaxTime
NoVisit == [at |-> "idle"]
Visits == {NoVisit}
          \cup [at : {"delayed", "timed"}, r : Relays]
          \cup [at : {"switch"}, t : Therms, state : BOOLEAN]
          \cup [at : {"set"}, r : Relays, state : BOOLEAN, time : Times, from : Therms \cup {"ssr"}]

HeatTypeOK ==
    /\ relay \in [Relays -> [pin : BOOLEAN, actual : BOOLEAN, desired : BOOLEAN,
                             time : Times, delay : Times, age : Times,
                             asked : {{}, {TRUE}, {FALSE}}, cut : BOOLEAN]]
    /\ \A t \in Therms :
         /\ therm[t].enable \in BOOLEAN /\ therm[t].ssr \in BOOLEAN
         /\ therm[t].off \in Degrees /\ therm[t].on \in Int
         /\ sensor[t].listens \in BOOLEAN /\ sensor[t].valid \in BOOLEAN
         /\ sensor[t].val \in Degrees
    /\ heat \in Visits

\* ssr_init(), therm_config_get(), rsens_init(): the relays are off, the
\* thermostats have their default temperatures.
HeatInit ==
    /\ relay = [r \in Relays |-> [pin |-> FALSE, actual |-> FALSE, desired |-> FALSE,
                                  time |-> 0, delay |-> 0, age |-> 0,
                                  asked |-> {}, cut |-> FALSE]]
    /\ \E e \in BOOLEAN, off \in Degrees, h \in Hysts :
         /\ 0 <= h /\ h <= off
         /\ therm = [t \in Therms |-> [enable |-> e, ssr |-> FALSE, off |-> off, on |-> off - h]]
    /\ \E v \in Degrees :
         sensor = [t \in Therms |-> [listens |-> FALSE, valid |-> FALSE, val |-> v]]
    /\ heat = NoVisit

----
\* The relays.

\* ssr_state_set() after its gpio_put(): with a delay only the desired state
\* changes.
StateStored(rel, state, time, delay) ==
    [rel EXCEPT !.actual = IF delay = 0 THEN state ELSE @, !.desired = state,
                !.time = time, !.delay = delay, !.age = 0]

PinSet(rel, state, delay) == [rel EXCEPT !.pin = IF delay = 0 THEN state ELSE @]

\* What a relay is asked for.
Asks(rel, state, time, cut) ==
    [rel EXCEPT !.asked = IF time > 0 THEN {state} ELSE {}, !.cut = time > 0 /\ cut]

\* All of it, in the interrupt, which may come within a set of the same relay.
StateSet(r, state, time, delay) ==
    Asks(StateStored(PinSet(relay[r], state, delay), state, time, delay),
         state, time, heat.at = "set" /\ heat.r = r)

\* The main loop has set the pin: a command may come before the rest.
SetPin(r, state, time, from) ==
    /\ relay' = [relay EXCEPT ![r] =
           IF from = "ssr" THEN PinSet(@, state, 0)
           ELSE [PinSet(@, state, 0) EXCEPT !.asked = {}, !.cut = FALSE]]
    /\ heat' = [at |-> "set", r |-> r, state |-> state, time |-> time, from |-> from]
    /\ UNCHANGED <<therm, sensor>>

\* ssr_run() looks at a relay and finds its delay, or its time, over.
SsrDue(r) ==
    /\ heat = NoVisit
    /\ LET rel == relay[r] IN
         \/ /\ rel.delay > 0 /\ rel.age >= rel.delay
            /\ heat' = [at |-> "delayed", r |-> r]
         \/ /\ rel.delay = 0 /\ rel.time > 0 /\ rel.age >= rel.time
            /\ heat' = [at |-> "timed", r |-> r]
    /\ UNCHANGED <<relay, therm, sensor>>

\* ... and switches it, as it is now.
SsrSwitch_KeepsTime ==
    \/ /\ heat.at = "delayed"
       /\ SetPin(heat.r, relay[heat.r].desired, relay[heat.r].time, "ssr")
    \/ /\ heat.at = "timed"
       /\ SetPin(heat.r, ~relay[heat.r].desired, relay[heat.r].time, "ssr")

SsrSwitch ==
    \/ /\ heat.at = "delayed"
       /\ SetPin(heat.r, relay[heat.r].desired, relay[heat.r].time, "ssr")
    \/ /\ heat.at = "timed"
       /\ SetPin(heat.r, ~relay[heat.r].desired, 0, "ssr")

\* The rest of ssr_state_set(), and of therm_device_run() when it called it.
SetStored ==
    /\ heat.at = "set"
    /\ relay' = [relay EXCEPT ![heat.r] = StateStored(@, heat.state, heat.time, 0)]
    /\ therm' = IF heat.from = "ssr" THEN therm
                ELSE [therm EXCEPT ![heat.from].ssr = heat.state]
    /\ heat' = NoVisit
    /\ UNCHANGED sensor

\* ssr?set:<id>:<state>:<time>:<delay>
SsrSet(r, state, time, delay) ==
    /\ relay' = [relay EXCEPT ![r] = StateSet(r, state, time, delay)]
    /\ UNCHANGED <<therm, sensor, heat>>

\* ssr?reset
SsrReset ==
    /\ relay' = [r \in Relays |-> StateSet(r, FALSE, 0, 0)]
    /\ UNCHANGED <<therm, sensor, heat>>

\* Time passes for all relays; their timers compare with MaxTime at most.
HeatTick ==
    /\ \E r \in Relays : relay[r].age < MaxTime
    /\ relay' = [r \in Relays |-> [relay[r] EXCEPT !.age = IF @ < MaxTime THEN @ + 1 ELSE @]]
    /\ UNCHANGED <<therm, sensor, heat>>

----
\* The thermostats.

\* A sensor that is not valid leaves the relay as it is.
Heats_InvalidKeeps(t) ==
    LET th == therm[t] IN
    IF ~sensor[t].valid THEN th.ssr
    ELSE IF sensor[t].val >= th.off THEN FALSE
    ELSE sensor[t].val <= th.on \/ th.ssr

\* therm_device_run(): what the relay is to be, from what the sensor says.
Heats(t) ==
    LET th == therm[t] IN
    IF ~sensor[t].valid THEN FALSE
    ELSE IF sensor[t].val >= th.off THEN FALSE
    ELSE sensor[t].val <= th.on \/ th.ssr

\* therm_device_run() of a disabled thermostat follows its relay, as does
\* therm_mqtt_dvice_send() of any one it reports.
ThermFollow(t) ==
    /\ heat = NoVisit
    /\ therm' = [therm EXCEPT ![t].ssr = relay[RelayOf[t]].actual]
    /\ UNCHANGED <<relay, sensor, heat>>

\* ... of an enabled one reads its sensor and decides,
ThermMeasure(t) ==
    /\ heat = NoVisit /\ therm[t].enable
    /\ heat' = [at |-> "switch", t |-> t, state |-> Heats(t)]
    /\ UNCHANGED <<relay, therm, sensor>>

\* ... and switches the relay.
ThermSwitch ==
    /\ heat.at = "switch"
    /\ SetPin(RelayOf[heat.t], heat.state, 0, heat.t)

\* therm_set_state() for one thermostat or, in the code with -1, for all.
ThermState(T, state) ==
    /\ therm' = [t \in Therms |-> IF t \notin T THEN therm[t]
                   ELSE [therm[t] EXCEPT !.enable = state,
                           !.ssr = state /\ relay[RelayOf[t]].actual]]
    /\ relay' = [r \in Relays |->
         IF ~state /\ \E t \in T : RelayOf[t] = r
         THEN StateSet(r, FALSE, 0, 0) ELSE relay[r]]
    /\ UNCHANGED <<sensor, heat>>

\* therm_set_temperatures(): the temperature keeps the hysteresis,
ThermTemperature(t, temp) ==
    LET hyst == therm[t].off - therm[t].on IN
    /\ hyst >= 0 /\ temp >= hyst
    /\ therm' = [therm EXCEPT ![t].off = temp, ![t].on = temp - hyst]
    /\ UNCHANGED <<relay, sensor, heat>>

\* ... the hysteresis keeps the temperature, and may be negative.
ThermHysteresis(t, hyst) ==
    /\ hyst <= therm[t].off
    /\ therm' = [therm EXCEPT ![t].on = therm[t].off - hyst]
    /\ UNCHANGED <<relay, sensor, heat>>

----
\* The remote sensors.

\* rsens_run(): the topic is listened to, when there is room for it.
RsensListen(t) ==
    /\ heat = NoVisit /\ ~sensor[t].listens
    /\ sensor' = [sensor EXCEPT ![t].listens = TRUE]
    /\ UNCHANGED <<relay, therm, heat>>

\* rsens_data_cb(): a reading, or something that is none.
RsensData(t, val) ==
    /\ heat = NoVisit /\ sensor[t].listens
    /\ sensor' = [sensor EXCEPT ![t].valid = TRUE, ![t].val = val]
    /\ UNCHANGED <<relay, therm, heat>>

RsensBad(t) ==
    /\ heat = NoVisit /\ sensor[t].listens
    /\ sensor' = [sensor EXCEPT ![t].valid = FALSE]
    /\ UNCHANGED <<relay, therm, heat>>

----
HeatCommand ==
    \/ \E r \in Relays, s \in BOOLEAN, time \in Times, delay \in Times :
         SsrSet(r, s, time, delay)
    \/ SsrReset
    \/ \E T \in {{t} : t \in Therms} \cup {Therms}, s \in BOOLEAN : ThermState(T, s)
    \/ \E t \in Therms :
         \/ \E d \in Degrees : ThermTemperature(t, d)
         \/ \E h \in Hysts : ThermHysteresis(t, h)

HeatVisit ==
    \/ \E r \in Relays : SsrDue(r)
    \/ SsrSwitch \/ SetStored
    \/ \E t \in Therms :
         \/ ThermFollow(t) \/ ThermMeasure(t) \/ RsensListen(t)
         \/ \E d \in Degrees : RsensData(t, d)
         \/ RsensBad(t)
    \/ ThermSwitch

HeatNext == HeatCommand \/ HeatVisit \/ HeatTick

\* The main loop visits every relay and every thermostat for ever.
HeatFairness ==
    /\ WF_heatVars(HeatTick)
    /\ WF_heatVars(SsrSwitch) /\ WF_heatVars(SetStored) /\ WF_heatVars(ThermSwitch)
    /\ \A r \in Relays : SF_heatVars(SsrDue(r))
    /\ \A t \in Therms : SF_heatVars(ThermMeasure(t))

HeatSpec == HeatInit /\ [][HeatNext]_heatVars /\ HeatFairness

----
\* ssr?set asks for this state again and again.
AskedAgain(r, state) ==
    []<><<\E time \in Times, delay \in Times : SsrSet(r, state, time, delay)>>_heatVars

\* A relay that was asked to be in a state for a while ends up in the other one, as long
\* as nothing asks it for something else (ssr_run): through its delay, a timer that runs
\* out as the command comes, and thermostats that are visited meanwhile; unless the
\* command comes between the gpio_put() and the stores of a set of the main loop.
TimersRunOut ==
    \A r \in Relays, state \in BOOLEAN :
        \/ <>[](state \in relay[r].asked /\ ~relay[r].cut) => <>[](relay[r].pin # state)
        \/ AskedAgain(r, state)

\* The same whenever the command comes (ssr/README.md, Control: the time the relay must
\* stay in the desired state).  The code does not keep this: SetStored clears the time.
TimeKept ==
    \A r \in Relays, state \in BOOLEAN :
        \/ <>[](state \in relay[r].asked) => <>[](relay[r].pin # state)
        \/ AskedAgain(r, state)

\* The sensor of an enabled thermostat says stop: warm enough, or no reading.
MustStop(t) ==
    therm[t].enable /\ (~sensor[t].valid \/ sensor[t].val >= therm[t].off)

\* An enabled thermostat turns its relay off when its temperature is reached
\* and when its sensor has no valid reading (therm_device_run), whatever timers
\* and commands do with the relay meanwhile.
StopsHeating ==
    \A t \in Therms :
        <>[]MustStop(t) => []<>(~relay[RelayOf[t]].pin)
====
