---- MODULE Scripts ----
(***************************************************************************)
(* The scripts (scripts.c) and the time they are scheduled by (ntp.c).     *)
(*                                                                         *)
(* The main loop executes one command of the running script in a visit,    *)
(* and starts the next one when none is running.  Commands of the network  *)
(* (run, auto_run) and the answers of the time servers come in an          *)
(* interrupt.  One clock stands for the time of the day and for the time   *)
(* since boot.                                                             *)
(***************************************************************************)
EXTENDS Naturals

CONSTANTS
    NScripts,       \* the scripts are numbered from 1
    Delay,          \* startup_ms of every script, 0 for none
    Period,         \* the schedule: the time from a run to the next one
    NLines,         \* the commands of a script
    MaxClock,       \* the clock stops there; a bound of the model
    ScMaxEvents     \* the commands and failures; a bound of the model

ASSUME ScriptsAssumption ==
    /\ NScripts \in Nat \ {0}
    /\ Delay \in Nat /\ Period \in Nat \ {0} /\ NLines \in Nat
    /\ MaxClock \in Nat \ {0} /\ ScMaxEvents \in Nat

VARIABLES
    script,     \* struct script_t; line: the commands read, 0 with no open file
    run,        \* scripts_context_t.run, 0 for NULL
    startup,    \* startup_count # 0
    ntp,        \* struct ntp_context_t; hung: an interrupt waits for its lock
    clock,
    cron,       \* script_cron_check(): i the script it is at, 0 outside of it;
                \* known: the time of its next run is about to be compared
    scEvents    \* commands and failures so far

scVars == <<script, run, startup, ntp, clock, cron, scEvents>>

Ids == 1..NScripts
NoCheck == [i |-> 0, known |-> FALSE]

ScTypeOK ==
    /\ script \in [Ids -> [runNow : 0..(MaxClock + Delay), line : 0..(NLines + 1),
                           enable : BOOLEAN, next : 0..(MaxClock + Period)]]
    /\ run \in 0..NScripts /\ cron \in [i : 0..NScripts, known : BOOLEAN]
    /\ startup \in BOOLEAN
    /\ ntp \in [init : BOOLEAN, synched : BOOLEAN, valid : BOOLEAN, hung : BOOLEAN]
    /\ clock \in 1..MaxClock
    /\ scEvents \in 0..ScMaxEvents

NtpFresh == [init |-> FALSE, synched |-> FALSE, valid |-> FALSE, hung |-> FALSE]

\* scripts_init(): the time is not known yet.
Loaded(enabled) ==
    [s \in Ids |-> [runNow |-> 0, line |-> 0, enable |-> s \in enabled, next |-> 0]]

\* sys_scripts_init(), sys_ntp_init()
ScInit ==
    /\ \E enabled \in SUBSET Ids : script = Loaded(enabled)
    /\ run = 0 /\ cron = NoCheck
    /\ startup = (Delay > 0)
    /\ ntp = NtpFresh
    /\ clock = 1
    /\ scEvents = 0

ScEvent == scEvents < ScMaxEvents /\ scEvents' = scEvents + 1

\* The main loop begins a visit.
ScGoes == ~ntp.hung /\ cron = NoCheck

----
\* The time.

\* sys_ntp_connect(): a pending answer makes the time valid; here also between
\* two scripts of a check.
NtpConnect ==
    /\ ~ntp.hung
    /\ \/ ~ntp.init /\ ntp' = [ntp EXCEPT !.init = TRUE]
       \/ ntp.synched /\ ntp' = [ntp EXCEPT !.synched = FALSE, !.valid = TRUE]
    /\ UNCHANGED <<script, run, startup, clock, cron, scEvents>>

\* sys_ntp_reconnect(): WiFi is back.
NtpReconnect ==
    /\ ScEvent
    /\ ScGoes
    /\ ntp' = NtpFresh
    /\ UNCHANGED <<script, run, startup, clock, cron>>

\* herak_set_system_time(), also while the main loop holds the lock.
NtpAnswer ==
    /\ ~ntp.hung /\ ntp.init /\ ~ntp.synched
    /\ \/ ntp' = [ntp EXCEPT !.synched = TRUE] /\ UNCHANGED scEvents
       \/ ntp' = [ntp EXCEPT !.hung = TRUE] /\ ScEvent
    /\ UNCHANGED <<script, run, startup, clock, cron>>

\* The watchdog: the scripts are loaded again, as their files say.
ScWatchdog ==
    /\ ntp.hung
    /\ \E enabled \in SUBSET Ids : script' = Loaded(enabled)
    /\ run' = 0 /\ cron' = NoCheck
    /\ startup' = (Delay > 0)
    /\ ntp' = NtpFresh
    /\ UNCHANGED <<clock, scEvents>>

ScTick ==
    /\ clock < MaxClock
    /\ clock' = clock + 1
    /\ UNCHANGED <<script, run, startup, ntp, cron, scEvents>>

----
\* script_startup(): with WiFi, once.
ScStartup ==
    /\ ScGoes /\ run = 0 /\ startup
    /\ script' = [s \in Ids |-> [script[s] EXCEPT !.runNow = clock + Delay]]
    /\ startup' = FALSE
    /\ UNCHANGED <<run, ntp, clock, cron, scEvents>>

Requested == {s \in Ids : script[s].runNow > 0}

\* The request that is oldest; the first of the scripts if there are several.
Earlier(s, o) ==
    \/ script[s].runNow < script[o].runNow
    \/ script[s].runNow = script[o].runNow /\ s <= o

\* sys_scripts_run(): the next script, whether its time has come or not, and
\* then the schedules.
ScStart ==
    /\ ScGoes /\ run = 0
    /\ IF Requested = {} THEN UNCHANGED <<script, run>>
       ELSE \E s \in Requested :
              /\ \A o \in Requested : Earlier(s, o)
              /\ run' = s
              /\ script' = [script EXCEPT ![s].runNow = 0]
    /\ cron' = [NoCheck EXCEPT !.i = 1]
    /\ UNCHANGED <<startup, ntp, clock, scEvents>>

\* A script that cannot be opened stays the one that runs.
ScExec_KeepsRun ==
    /\ ScGoes /\ run # 0
    /\ \/ /\ script[run].line <= NLines
          /\ script' = [script EXCEPT ![run].line = @ + 1]
          /\ UNCHANGED <<run, scEvents>>
       \/ /\ script[run].line = NLines + 1
          /\ script' = [script EXCEPT ![run].line = 0]
          /\ UNCHANGED <<run, scEvents>>
    /\ UNCHANGED <<startup, ntp, clock, cron>>

\* script_exec(): the next command; at the end the file is closed.  A file
\* that cannot be opened ends the run.
ScExec ==
    /\ ScGoes /\ run # 0
    /\ \/ /\ script[run].line <= NLines
          /\ script' = [script EXCEPT ![run].line = @ + 1]
          /\ UNCHANGED <<run, scEvents>>
       \/ /\ script[run].line = NLines + 1
          /\ script' = [script EXCEPT ![run].line = 0]
          /\ run' = 0
          /\ UNCHANGED scEvents
       \/ /\ script[run].line = 0 /\ ScEvent
          /\ run' = 0
          /\ UNCHANGED script
    /\ UNCHANGED <<startup, ntp, clock, cron>>

\* The next run takes the place of the one that is asked for.
WithNext_ClearsRequest(sc) ==
    [sc EXCEPT !.next = IF ntp.valid THEN clock + Period ELSE @, !.runNow = 0]

\* script_cron_set_next()
WithNext(sc) == [sc EXCEPT !.next = IF ntp.valid THEN clock + Period ELSE @]

NextCheck == IF cron.i < NScripts THEN [NoCheck EXCEPT !.i = cron.i + 1] ELSE NoCheck

\* script_cron_check(): if the script is switched on its time is compared, or
\* found out.
CronLook ==
    /\ cron.i # 0 /\ ~cron.known /\ ~ntp.hung
    /\ LET sc == script[cron.i] IN
         /\ cron' = IF ntp.valid /\ sc.enable /\ sc.next > 0 THEN [cron EXCEPT !.known = TRUE]
                    ELSE NextCheck
         /\ script' = IF ntp.valid /\ sc.enable /\ sc.next = 0
                      THEN [script EXCEPT ![cron.i] = WithNext(@)] ELSE script
    /\ UNCHANGED <<run, startup, ntp, clock, scEvents>>

\* ... with the time now; auto_run may have changed it meanwhile.
CronDue ==
    /\ cron.known /\ ~ntp.hung
    /\ script' = IF script[cron.i].next > clock THEN script
                 ELSE [script EXCEPT ![cron.i] = WithNext([@ EXCEPT !.runNow = clock])]
    /\ cron' = NextCheck
    /\ UNCHANGED <<run, startup, ntp, clock, scEvents>>

----
\* scripts?run:<name>, in an interrupt or in a command of a script.
ScRun(s) ==
    /\ ScEvent
    /\ ~ntp.hung
    /\ script' = [script EXCEPT ![s].runNow = clock]
    /\ UNCHANGED <<run, startup, ntp, clock, cron>>

\* scripts?auto_run:<name>:<0/1>
ScAutoRun(s, enable) ==
    /\ ScEvent
    /\ ~ntp.hung
    /\ script' = [script EXCEPT ![s] =
                    IF enable THEN WithNext([@ EXCEPT !.enable = TRUE])
                    ELSE [@ EXCEPT !.enable = FALSE, !.next = 0]]
    /\ UNCHANGED <<run, startup, ntp, clock, cron>>

----
ScVisit == ScStartup \/ ScStart \/ ScExec \/ CronLook \/ CronDue

ScCommand ==
    \E s \in Ids : ScRun(s) \/ \E enable \in BOOLEAN : ScAutoRun(s, enable)

ScNext ==
    \/ NtpConnect \/ NtpReconnect \/ NtpAnswer \/ ScWatchdog \/ ScTick
    \/ ScVisit
    \/ ScCommand

\* The main loop goes on and checks every schedule; the time servers answer.
ScFairness ==
    /\ WF_scVars(ScVisit)
    /\ WF_scVars(NtpConnect) /\ WF_scVars(NtpAnswer)
    /\ WF_scVars(ScWatchdog) /\ WF_scVars(ScTick)

ScSpec == ScInit /\ [][ScNext]_scVars /\ ScFairness

----
\* A request to run a script is withdrawn by the start of that script only, or by a
\* restart (sys_scripts_run, script_exec, script_cron_check).
RequestsStay ==
    [][\A s \in Ids :
         script[s].runNow > 0 /\ script'[s].runNow = 0 => run' = s \/ ntp.hung]_scVars

\* Once commands and failures end, a script that is asked for is started, and so
\* is one that is switched on when its scheduled time has come, whatever was
\* lost before (script_cron_check, sys_scripts_run, script_exec): nobody waits for
\* ever.
ScriptsRun ==
    \A s \in Ids :
      []<>(\/ run = s \/ ntp.hung \/ scEvents < ScMaxEvents
           \/ script[s].runNow = 0 /\ ~(script[s].enable /\ script[s].next \in 1..clock))

\* A script that is to run some time after the start is not started before (run_now in
\* sys_scripts_run; scripts/README.md:11 and :15).
StartsAfterDelay ==
    [][\A s \in Ids : run = 0 /\ run' = s => script[s].runNow <= clock]_scVars
====
