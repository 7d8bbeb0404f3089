---- MODULE OpenTherm ----
(***************************************************************************)
(* The OpenTherm master (opentherm_dev.c, opentherm_pio.c) and the         *)
(* commands that steer it (opentherm_cmd.c).                               *)
(*                                                                         *)
(* A visit of the main loop exchanges frames with the boiler one after     *)
(* another: what is on, the set point when it differs from what the boiler *)
(* has acknowledged, and something to read.  An exchange waits for its     *)
(* answer, and a command of a web request may come meanwhile: a raw read   *)
(* or write uses the same PIO state machines, so the frame of the main     *)
(* loop is lost.  The set points of the hot water and of the maximum are   *)
(* handled like the one of the central heating and are left out.           *)
(* Temperatures are counted in parts of the smallest fixed-point step.     *)
(***************************************************************************)
EXTENDS Naturals

CONSTANTS
    Temps,          \* the set points that are asked for
    Default,        \* param_desired.ch_temperature_setpoint at the start
    RangeMin,       \* the smallest and the largest set point of the boiler
    RangeMax,
    Step,           \* the step of a fixed-point number of a frame
    Written,        \* the set points that are written past the desired one
    BoilerKinds,    \* which commands a boiler may know, sets of commands
    MaxFinds,       \* DEV_FIND_ATTEMPTS
    MaxRetries,     \* MAX_RETRIES
    Supported,      \* CMD_SUPPORTED_RETRIES
    Dead            \* DEAD_INTERVAL_MS, in ticks

SetPoints == Temps \cup {0}

\* opentherm_cmd_float(): what a frame says of a temperature, and what is read from it.
Fixed(t) == t - (t % Step)
Points == {Fixed(t) : t \in SetPoints}

ASSUME OtAssumption ==
    /\ Temps \subseteq Nat /\ {Default, RangeMin, RangeMax} \subseteq Temps
    /\ Step \in Nat \ {0} /\ Written \subseteq Points
    /\ MaxFinds \in Nat \ {0} /\ MaxRetries \in Nat \ {0}
    /\ Supported \in Nat \ {0} /\ Dead \in Nat

VARIABLES
    boiler,     \* the boiler: on, the commands it knows, whether it heats, its set
                \* point, and whether that is another than it has acknowledged last
    ot,         \* opentherm_pio_t, the commands the master still uses, and the
                \* static variables of opentherm_dev_run()
    set,        \* what is asked for and what the boiler has acknowledged
    xch         \* the exchange of the main loop in progress

otVars == <<boiler, ot, set, xch>>

Cmds == {"static", "status", "ch", "bounds", "data"}
NoXch == [cmd |-> "none"]

OtTypeOK ==
    /\ boiler \in [on : BOOLEAN, knows : BoilerKinds, ch : {0, 1}, tset : Points,
                  astray : BOOLEAN]
    /\ ot \in [attached : BOOLEAN, age : 0..(Dead + 1), finds : 0..MaxFinds,
               static : BOOLEAN, supported : [Cmds -> 0..Supported]]
    /\ set \in [ch : {0, 1}, desired : SetPoints, actual : Points,
                min : {0, RangeMin}, max : {0, RangeMax}]
    /\ xch \in {NoXch} \cup [cmd : Cmds, go : BOOLEAN, send : Points \cup {0, 1}, tries : 1..MaxRetries,
                             lost : BOOLEAN, mute : BOOLEAN]

\* opentherm_data_init(), opentherm_dev_init(); the boiler is as it is.
OtInit ==
    /\ \E k \in BoilerKinds, on \in BOOLEAN :
         boiler = [on |-> on, knows |-> k, ch |-> 0, tset |-> 0, astray |-> FALSE]
    /\ ot = [attached |-> FALSE, age |-> 0, finds |-> 0, static |-> FALSE,
             supported |-> [c \in Cmds |-> Supported]]
    /\ set = [ch |-> 0, desired |-> Default, actual |-> 0, min |-> 0, max |-> 0]
    /\ xch = NoXch

----
\* Exchanges.

\* ot_cmd_read(), ot_cmd_write(), opentherm_dev_pio_exchange(): the frame is
\* sent (go), unless the boiler has turned out not to know the command or is
\* not attached.
Exchange(cmd, send) ==
    [cmd |-> cmd, go |-> ot'.attached /\ ot'.supported[cmd] > 0, send |-> send, tries |-> MaxRetries, lost |-> FALSE, mute |-> FALSE]

\* opentherm_dev_run(): the reading that comes after the set point, by time.
Reading == \E c \in {"bounds", "data"} : xch' = Exchange(c, 0)

\* opentherm_exchange_status(): the request says what is enabled.
Wanted == set.ch

\* What opentherm_dev_run() does after an exchange; send is as it is set then.
After(cmd) ==
    CASE cmd = "status" -> IF set'.desired # set'.actual
                           THEN xch' = Exchange("ch", Fixed(set'.desired)) ELSE Reading
      [] cmd = "ch" -> Reading
      [] OTHER -> xch' = NoXch

\* pio->last_valid
Valid_Forgotten(o) == o

Valid(o) == [o EXCEPT !.age = 0]

\* opentherm_dev_pio_exchange() gives up: the boiler is lost after a while.
GaveUp(o) == [o EXCEPT !.attached = @ /\ o.age <= Dead]

\* What the boiler makes of a request.
Heard(x, astray) ==
    CASE x.cmd = "status" -> [boiler EXCEPT !.ch = x.send]
      [] x.cmd = "ch" -> [boiler EXCEPT !.tset = x.send, !.astray = astray]
      [] OTHER -> boiler

\* The answer to the frame, which says what it has asked for or that the boiler does not
\* know the command, and what the callers of ot_cmd_read() and ot_cmd_write() make of it.
Answered(x) ==
    \/ /\ x.cmd \in boiler.knows
       /\ boiler' = Heard(x, FALSE)
       /\ set' = CASE x.cmd = "ch" -> [set EXCEPT !.actual = x.send]
                   [] x.cmd = "bounds" -> [set EXCEPT !.min = RangeMin, !.max = RangeMax]
                   [] OTHER -> set
       /\ ot' = [Valid(ot) EXCEPT !.static = @ \/ x.cmd = "static"]
    \/ /\ x.cmd \notin boiler.knows
       /\ ot' = [Valid(ot) EXCEPT !.supported[x.cmd] = @ - 1, !.static = @ \/ x.cmd = "static"]
       /\ UNCHANGED <<boiler, set>>

\* One attempt is answered.
XchAnswered ==
    /\ xch # NoXch /\ xch.go /\ boiler.on /\ ~xch.lost
    /\ Answered(xch)
    /\ After(xch.cmd)

\* ... with DATA_INVALID, or with something else that is not expected.
XchRefused ==
    /\ xch # NoXch /\ xch.go /\ boiler.on /\ ~xch.lost
    /\ ot' = [Valid(ot) EXCEPT !.static = @ \/ xch.cmd = "static"]
    /\ UNCHANGED <<boiler, set>>
    /\ After(xch.cmd)

Unanswered_Acknowledged(x) == IF x.cmd = "ch" THEN [set EXCEPT !.actual = x.send] ELSE set

\* ot_cmd_write() has failed: nothing is acknowledged.
Unanswered(x) == set

\* One attempt is not: the request is lost, or the boiler has heard it and its
\* answer is lost.
XchFailed ==
    /\ xch # NoXch /\ xch.go
    /\ \/ UNCHANGED boiler
       \/ boiler.on /\ xch.cmd \in boiler.knows /\ boiler' = Heard(xch, TRUE)
    /\ set' = Unanswered(xch)
    /\ LET mute == xch.mute \/ ~xch.lost IN
       IF xch.tries > 1
       THEN /\ xch' = [xch EXCEPT !.tries = @ - 1, !.lost = FALSE, !.mute = mute]
            /\ UNCHANGED ot
       ELSE /\ ot' = [GaveUp(ot) EXCEPT !.static = @ \/ xch.cmd = "static"]
            /\ After(xch.cmd)

\* There is nothing to send: the command is written off, or the boiler is lost.
XchSkipped ==
    /\ xch # NoXch /\ ~xch.go
    /\ ot' = [ot EXCEPT !.static = @ \/ xch.cmd = "static"]
    /\ UNCHANGED <<boiler, set>>
    /\ After(xch.cmd)

----
\* opentherm_dev_run(): a boiler is looked for, for some time only.
OtFind ==
    /\ xch = NoXch /\ ~ot.attached /\ ot.finds < MaxFinds
    /\ ot' = IF boiler.on THEN [Valid(ot) EXCEPT !.attached = TRUE, !.finds = 0]
             ELSE [ot EXCEPT !.finds = @ + 1]
    /\ UNCHANGED <<boiler, set, xch>>

\* opentherm_dev_run() with a boiler.
OtVisit ==
    /\ xch = NoXch /\ ot.attached
    /\ UNCHANGED <<boiler, ot, set>>
    /\ xch' = IF ot.static THEN Exchange("status", Wanted) ELSE Exchange("static", 0)

OtMain == OtFind \/ OtVisit \/ XchAnswered \/ XchRefused \/ XchFailed \/ XchSkipped

----
\* Commands, in the interrupt.

\* opentherm?ch:<0/1>
SetCh(on) ==
    /\ set' = [set EXCEPT !.ch = on]
    /\ UNCHANGED <<boiler, ot, xch>>

\* opentherm?ch_temp:<t>: within the range, which is 0 until it is read.
SetChTemp(t) ==
    /\ set' = [set EXCEPT !.desired = IF t > set.max THEN set.max
                                     ELSE IF t < set.min THEN set.min ELSE t]
    /\ UNCHANGED <<boiler, ot, xch>>

\* opentherm?read, opentherm?write, opentherm?scan and opentherm?stat_reset: the attempt
\* of the main loop, if there is one, is lost.
Raw ==
    /\ ot.attached
    /\ xch' = IF xch = NoXch THEN xch ELSE [xch EXCEPT !.lost = TRUE]
    /\ UNCHANGED set

RawAnswered == Raw /\ boiler.on /\ ot' = Valid(ot) /\ UNCHANGED boiler

\* It fails as often as it is tried.
RawFailed == Raw /\ ot' = GaveUp(ot) /\ UNCHANGED boiler

\* opentherm?write of the set point, past param_desired, answered or not.
RawWrite(t) ==
    /\ Raw /\ boiler.on /\ "ch" \in boiler.knows
    /\ boiler' = [boiler EXCEPT !.tset = t, !.astray = TRUE]
    /\ ot' \in {Valid(ot), GaveUp(ot)}

OtUser ==
    \/ \E on \in {0, 1} : SetCh(on)
    \/ \E t \in Temps : SetChTemp(t)
    \/ \E t \in Written : RawWrite(t)
    \/ RawAnswered \/ RawFailed

\* The boiler is switched off and on, and forgets what it was told.
BoilerSwitch ==
    /\ boiler' = [boiler EXCEPT !.on = ~@, !.ch = 0, !.tset = 0, !.astray = TRUE]
    /\ UNCHANGED <<ot, set, xch>>

\* Time: a visit takes little of DEAD_INTERVAL_MS.
OtTick ==
    /\ xch = NoXch /\ ot.attached /\ ot.age <= Dead
    /\ ot' = [ot EXCEPT !.age = @ + 1]
    /\ UNCHANGED <<boiler, set, xch>>

OtNext == OtMain \/ OtUser \/ BoilerSwitch \/ OtTick

\* The main loop goes on; a boiler that is on answers in the end, and takes what it is sent.
OtFairness ==
    /\ WF_otVars(OtMain)
    /\ \A c \in {"status", "ch"} : SF_otVars(XchAnswered /\ xch.cmd = c)

OtSpec == OtInit /\ [][OtNext]_otVars /\ OtFairness

----
\* The boiler is given up only when it was silent, to an attempt of the main loop or to a
\* command: the attempts of the main loop that a command has spoilt do not count, however
\* many and whenever they come (opentherm_dev_pio_exchange: last_valid, attached).
LostOnlyIfSilent ==
    [][ot.attached /\ ~ot'.attached =>
         \/ ~boiler.on
         \/ RawFailed
         \/ \E t \in Written : RawWrite(t)
         \/ xch # NoXch /\ (xch.mute \/ ~xch.lost)]_otVars

\* A boiler that stays on, before the master has given up looking for it, and commands
\* that end.
Steady ==
    /\ <>[](boiler.on /\ ot.finds < MaxFinds)
    /\ ~[]<><<OtUser>>_otVars

\* The boiler is told what is asked for: whether it is to heat, even after it was
\* switched off and on, and the set point, if it knows it, as near as a frame can say it
\* (opentherm_exchange_status, opentherm_sync_params); unless its set point
\* has gone astray: it was switched off and on, was written to by a raw command, or has
\* heard a set point whose answer was lost.
BoilerFollows ==
    Steady => /\ <>[](boiler.ch = set.ch)
              /\ <>[](\/ boiler.tset = Fixed(set.desired)
                      \/ "ch" \notin boiler.knows
                      \/ boiler.astray /\ set.actual = set.desired)

\* The boiler is told the set point that is asked for, whatever has happened to it
\* (opentherm/README.md:81, opentherm_sync_params).
SetPointKept ==
    Steady => <>[](boiler.tset = Fixed(set.desired) \/ "ch" \notin boiler.knows)
====
