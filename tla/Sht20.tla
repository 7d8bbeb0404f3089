---- MODULE Sht20 ----
(***************************************************************************)
(* The temperature and humidity sensors (sht20.c).  The sensors of a bus   *)
(* have the same address, so a sensor is powered up to be read and down    *)
(* after it.  sht20_run() visits one sensor at a time, in the main loop.   *)
(*                                                                         *)
(* The sensors and the bus are external: a request of the visit may fail.  *)
(* A sensor is asked for temperature and humidity in turn, NSamples times  *)
(* each.  A delay is a timer that is in timers until it has run out.       *)
(***************************************************************************)
EXTENDS Naturals, FiniteSets

CONSTANTS
    NSensors,
    BusOf,          \* the bus of every sensor: i2c0 or i2c1
    NSamples,       \* SHT20_DATA_COUNT
    ErrThr,         \* CONN_ERR_THR
    ShtMaxFaults    \* bound on the failed requests

Sensors == 1..NSensors
Buses == {BusOf[s] : s \in Sensors}
Kinds == {"temp", "humid"}
Powers == <<"down", "on_1", "on_2", "up">>

ASSUME ShtAssumption ==
    /\ NSensors \in Nat \ {0} /\ NSamples \in Nat \ {0} /\ ErrThr \in Nat \ {0}
    /\ ShtMaxFaults \in Nat /\ DOMAIN BusOf = Sensors

VARIABLES
    sht,        \* struct sht20_sensor: power is an index of Powers, req is read_requested,
                \* n is raw_idx, cmd is read_cmd, errs is conn_err_count modulo CONN_ERR_THR
    shtIdx,     \* idx: the next sensor to visit
    timers,     \* the delays that run: of the power state, the measurement and the error
                \* state of a sensor, and of the next round
    buses,      \* the buses whose controller is initialised and has its pins
    shtFaults

shtVars == <<sht, shtIdx, timers, buses, shtFaults>>

Timer == {"power", "measure", "err"} \X Sensors \cup {<<"round", 0>>}

ShtTypeOK ==
    /\ sht \in [Sensors -> [power : DOMAIN Powers, conn : BOOLEAN, req : BOOLEAN, n : 0..NSamples,
                            cmd : Kinds, valid : SUBSET Kinds, err : BOOLEAN, errs : 0..(ErrThr - 1)]]
    /\ shtIdx \in 1..(NSensors + 1)
    /\ timers \in SUBSET Timer
    /\ buses \in SUBSET Buses
    /\ shtFaults \in 0..ShtMaxFaults

ShtInit ==
    /\ sht = [s \in Sensors |-> [power |-> 1, conn |-> FALSE, req |-> FALSE, n |-> 0,
                                 cmd |-> "temp", valid |-> {}, err |-> FALSE, errs |-> 0]]
    /\ shtIdx = 1
    /\ timers = {"power"} \X Sensors
    /\ buses = {}
    /\ shtFaults = 0

\* The requests of a visit are answered, or one is not.
ShtTry(ok) ==
    /\ ok \in BOOLEAN
    /\ ok \/ shtFaults < ShtMaxFaults
    /\ shtFaults' = IF ok THEN shtFaults ELSE shtFaults + 1

\* A delay runs out.
ShtTime(t) ==
    /\ t \in timers
    /\ timers' = timers \ {t}
    /\ UNCHANGED <<sht, shtIdx, buses, shtFaults>>

----
(* sht20_sensor_data() of the sensor at idx                                *)

Visited == shtIdx
Sensor == sht[Visited]
Bus == BusOf[Visited]
Is(dev) == sht' = [sht EXCEPT ![Visited] = dev]

Waits(what) == <<what, Visited>> \in timers
Start(what) == timers' = timers \cup {<<what, Visited>>}

\* sht20_run(): the next sensor is visited, after the last one comes the next round.
VisitEnds(started) ==
    /\ shtIdx' = shtIdx + 1
    /\ timers' = timers \cup started \cup {<<"round", 0>>}

\* sht20_power_down(): the controller of the bus is released, and its pins.
Down(dev) == [dev EXCEPT !.power = 1, !.req = FALSE]

PowerDown(dev) ==
    /\ Is(Down(dev))
    /\ buses' = buses \ {Bus}

DownDelay == {<<"power", Visited>>}

\* The error state is left by the visit that finds it over, which does nothing else.
ErrWait_ForEver ==
    /\ shtIdx \in Sensors /\ Sensor.err
    /\ VisitEnds({})
    /\ UNCHANGED <<sht, buses, shtFaults>>

ErrWait ==
    /\ shtIdx \in Sensors /\ Sensor.err
    /\ Is([Sensor EXCEPT !.err = Waits("err")])
    /\ VisitEnds({})
    /\ UNCHANGED <<buses, shtFaults>>

\* sht20_sensor_get_data(): a sample is read, and the next one requested.
Sample ==
    /\ shtIdx \in Sensors /\ ~Sensor.err /\ Sensor.conn /\ Sensor.req /\ ~Waits("measure")
    /\ Sensor.n + 1 < NSamples /\ Bus \in buses
    /\ ShtTry(TRUE)
    /\ Is([Sensor EXCEPT !.n = @ + 1])
    /\ Start("measure")
    /\ UNCHANGED <<shtIdx, buses>>

\* The last sample: the mean is stored, and the other kind comes next.
Measured ==
    /\ shtIdx \in Sensors /\ ~Sensor.err /\ Sensor.conn /\ Sensor.req /\ ~Waits("measure")
    /\ Sensor.n + 1 = NSamples /\ Bus \in buses
    /\ ShtTry(TRUE)
    /\ PowerDown([Sensor EXCEPT !.n = 0, !.valid = @ \cup {Sensor.cmd},
                                !.cmd = CHOOSE k \in Kinds : k # Sensor.cmd])
    /\ VisitEnds(DownDelay)

\* The read, its checksum or the next request fails: it must when another sensor of the
\* bus has been powered down since the request.
SampleFails ==
    /\ shtIdx \in Sensors /\ ~Sensor.err /\ Sensor.conn /\ Sensor.req /\ ~Waits("measure")
    /\ ShtTry(Bus \notin buses)
    /\ PowerDown([Sensor EXCEPT !.n = 0, !.valid = @ \ {Sensor.cmd}])
    /\ VisitEnds(DownDelay)

\* sht20_shutdown_check(): no sensor has just been powered down.
Connecting ==
    /\ shtIdx \in Sensors /\ ~Sensor.err /\ ~(Sensor.conn /\ Sensor.req)
    /\ \A s \in Sensors : sht[s].power = 1 => <<"power", s>> \notin timers

\* sht20_power_up(): the sensor waits in the next power state, or in the one after it:
\* `now` is read before the state is entered, and now - power_state_change wraps around
\* if a millisecond has passed in between, so that the delay is taken for over.
PowerUp ==
    /\ Connecting /\ ~Waits("power")
    /\ \E p \in (Sensor.power + 1)..3 : Is([Sensor EXCEPT !.power = p, !.conn = FALSE])
    /\ Start("power")
    /\ UNCHANGED <<shtIdx, buses, shtFaults>>

\* sht20_sensor_init(): the sensor is configured, or the error is counted.  Every
\* ErrThr errors in a row leave the sensor alone for SHT0_ERROR_DELAY_MS.
Inited(ok) ==
    IF ok THEN [Sensor EXCEPT !.errs = 0]
    ELSE [Sensor EXCEPT !.errs = (@ + 1) % ErrThr, !.err = (Sensor.errs + 1 = ErrThr)]

ErrDelay(dev) == {t \in {<<"err", Visited>>} : dev.err}

\* sht20_sensor_request_data(), whether or not sht20_sensor_init() succeeded: the
\* measurement runs while the next sensor is visited.  The controller was initialised by
\* the last step of sht20_power_up().
Asked ==
    /\ Connecting /\ ~Waits("power")
    /\ buses' = buses \cup {Bus}
    /\ \E init \in BOOLEAN :
         /\ ShtTry(init)
         /\ Is([Inited(init) EXCEPT !.power = 4, !.conn = TRUE, !.req = TRUE])
         /\ VisitEnds({<<"measure", Visited>>} \cup ErrDelay(Inited(init)))

\* sht20_sensor_check_connected() or the request fails.
NotAsked ==
    /\ Connecting /\ ~Waits("power")
    /\ ShtTry(FALSE)
    /\ \E init, found \in BOOLEAN :
         /\ PowerDown([Inited(init) EXCEPT !.conn = found])
         /\ VisitEnds(DownDelay \cup ErrDelay(Inited(init)))

\* sht20_run(), after the last sensor
NextRound ==
    /\ shtIdx = NSensors + 1 /\ <<"round", 0>> \notin timers
    /\ shtIdx' = 1
    /\ UNCHANGED <<sht, timers, buses, shtFaults>>

ShtRun ==
    \/ ErrWait \/ Sample \/ Measured \/ SampleFails \/ PowerUp
    \/ Asked \/ NotAsked \/ NextRound

ShtNext == ShtRun \/ \E t \in timers : ShtTime(t)

\* The main loop runs, time passes, and no error state lasts for ever.
ShtFairness ==
    /\ WF_shtVars(ShtRun)
    /\ WF_shtVars(\E t \in timers : ShtTime(t))
    /\ \A s \in Sensors : WF_shtVars(ShtTime(<<"err", s>>))

ShtSpec == ShtInit /\ [][ShtNext]_shtVars /\ ShtFairness

----
\* When the requests fail no more, all sensors that have a bus of their own are read:
\* their readings become and stay valid, also after a sensor was left alone for too many
\* errors (sht20_sensor_data).
SensorsRead ==
    <>[](\A s \in Sensors : \/ sht[s].valid = Kinds
                            \/ \E o \in Sensors \ {s} : BusOf[o] = BusOf[s])

\* ... and those that share one too (sht20/README.md:22).  The code does not keep this: the
\* controller is deinitialised while another sensor measures.
SharedRead ==
    <>[](\A s \in Sensors : sht[s].valid = Kinds)

\* A sensor is asked while it is the only one on its bus that is powered
\* (sht20/README.md:22).  The code keeps this only if no two measurements overlap.
PoweredAlone ==
    [][\A s \in Sensors : sht'[s].req /\ ~sht[s].req =>
         \A o \in Sensors \ {s} : BusOf[o] = BusOf[s] => sht'[o].power = 1]_shtVars
====
