---- MODULE CfgStore ----
(***************************************************************************)
(* The configuration store (cfg_store.c): one file for each parameter, and *)
(* the table of the parameters the program has asked for.                  *)
(*                                                                         *)
(* Commands of the web server come in an interrupt and are one step.  One  *)
(* of MQTT or of a script runs in the main loop and is interrupted between *)
(* the formatting of a path into ctx->buff, which all commands share, the  *)
(* use of that path, and the closing of the file it has opened.            *)
(*                                                                         *)
(* littlefs is external: what is written to a file replaces its content    *)
(* when the file is closed, or not at all.  Power may fail at any step.    *)
(***************************************************************************)
EXTENDS Naturals, FiniteSets

CONSTANTS
    Known,      \* the parameters the program reads while it starts
    Unknown,    \* other names in a set command, or of files left over
    Values,
    MaxVars     \* MAX_VARS

ASSUME CfgAssumption ==
    /\ IsFiniteSet(Known) /\ Cardinality(Known) <= MaxVars /\ MaxVars \in Nat
    /\ Known \cap Unknown = {}
    /\ "default" \notin Values
    /\ "." \notin Known \cup Unknown

VARIABLES
    file,       \* the content of the files, "default" where there is none
    table,      \* cfg_params
    dir,        \* CFG_DIR exists
    buf,        \* ctx->buff: the parameter its path is of, "." for none
    cfg         \* what the main loop does.  boot: left is still to be read;
                \* named: a path is formatted for what was asked; set: a file is
                \* open for writing; purge: left of CFG_DIR is still to be visited

cfgVars == <<file, table, dir, buf, cfg>>

Names == Known \cup Unknown

\* by: what has restarted the device.
Boots == [at : {"boot"}, left : SUBSET Known, by : {"power", "watchdog"}]
Works == [at : {"up", "loop", "reset", "resetting"}]
         \cup [at : {"set"}, asked : Names, p : Names, v : Values]
         \cup [at : {"named"}, asked : Names, do : {"set"}, v : Values]
         \cup [at : {"named"}, asked : Names, do : {"del"}]
         \cup [at : {"named"}, asked : Names, do : {"purge"}, left : SUBSET Names]
         \cup [at : {"purge"}, left : SUBSET Names]

CfgTypeOK ==
    /\ file \in [Names -> Values \cup {"default"}]
    /\ table \subseteq Names /\ Cardinality(table) <= MaxVars
    /\ dir \in BOOLEAN
    /\ buf \in Names \cup {"."}
    /\ cfg \in Boots \cup Works

CfgInit ==
    /\ file \in [Names -> Values \cup {"default"}]
    /\ table = {}
    /\ dir = TRUE
    /\ buf = "."
    /\ cfg = [at |-> "boot", left |-> Known, by |-> "power"]

\* The last entry of the table is not used.
Registered_OneLess(p) == IF Cardinality(table) < MaxVars - 1 THEN table \cup {p} ELSE table

\* cfgs_param_register(), if the parameter is not found
Registered(p) == IF Cardinality(table) < MaxVars THEN table \cup {p} ELSE table

Stored == {p \in Names : file[p] # "default"}

Without(q) == IF q \in Names THEN [file EXCEPT ![q] = "default"] ELSE file

\* cfgs_param_get(), for a parameter of the program while it starts: the path in the
\* buffer is overwritten by what is read.
CfgGet(p) ==
    /\ cfg.at = "boot" /\ p \in cfg.left
    /\ table' = Registered(p)
    /\ buf' = "."
    /\ cfg' = [cfg EXCEPT !.left = @ \ {p}]
    /\ UNCHANGED <<file, dir>>

\* Commands come once the program has started.
CfgStarted ==
    /\ cfg.at = "boot" /\ cfg.left = {}
    /\ cfg' = [at |-> "up"]
    /\ UNCHANGED <<file, table, dir, buf>>

----
\* Commands of the main loop.

\* config?set: cfgs_param_store() formats the path,
CfgSet(p, v) ==
    /\ cfg.at = "up"
    /\ table' = Registered(p)
    /\ buf' = p
    /\ cfg' = [at |-> "named", asked |-> p, do |-> "set", v |-> v]
    /\ UNCHANGED <<file, dir>>

\* ... opens the file of the path that is in the buffer by now,
CfgOpen ==
    /\ cfg.at = "named" /\ cfg.do = "set"
    /\ cfg' = IF dir /\ buf \in Names
                THEN [at |-> "set", asked |-> cfg.asked, p |-> buf, v |-> cfg.v]
                ELSE [at |-> "up"]
    /\ UNCHANGED <<file, table, dir, buf>>

\* ... and closes it; a write that fails leaves the old value.
CfgClose ==
    /\ cfg.at = "set"
    /\ \/ file' = [file EXCEPT ![cfg.p] = cfg.v]
       \/ UNCHANGED file
    /\ cfg' = [at |-> "up"]
    /\ UNCHANGED <<table, dir, buf>>

\* config?del, cfgs_param_remove(): the parameter stays in the table.
CfgDel(p) ==
    /\ cfg.at = "up"
    /\ buf' = p
    /\ cfg' = [at |-> "named", asked |-> p, do |-> "del"]
    /\ UNCHANGED <<file, table, dir>>

CfgDelete ==
    /\ cfg.at = "named" /\ cfg.do = "del"
    /\ file' = Without(buf)
    /\ cfg' = [at |-> "up"]
    /\ UNCHANGED <<table, dir, buf>>

\* config?purge: cfgs_purge_uknown() visits the files,
CfgPurge ==
    /\ cfg.at = "up"
    /\ cfg' = [at |-> "purge", left |-> Stored]
    /\ UNCHANGED <<file, table, dir, buf>>

\* ... formats the path of one it does not find in the table,
CfgVisit(p) ==
    /\ cfg.at = "purge" /\ p \in cfg.left
    /\ IF p \in table \/ file[p] = "default"
         THEN /\ cfg' = [cfg EXCEPT !.left = @ \ {p}]
              /\ UNCHANGED buf
         ELSE /\ cfg' = [at |-> "named", asked |-> p, do |-> "purge", left |-> cfg.left \ {p}]
              /\ buf' = p
    /\ UNCHANGED <<file, table, dir>>

\* ... and removes it.
CfgPurgeOne ==
    /\ cfg.at = "named" /\ cfg.do = "purge"
    /\ file' = Without(buf)
    /\ cfg' = [at |-> "purge", left |-> cfg.left]
    /\ UNCHANGED <<table, dir, buf>>

CfgPurged ==
    /\ cfg.at = "purge" /\ cfg.left = {}
    /\ cfg' = [at |-> "up"]
    /\ UNCHANGED <<file, table, dir, buf>>

\* config?reset: the first entry of a directory is the directory itself,
CfgReset ==
    /\ cfg.at \in {"up", "reset"}
    /\ IF dir THEN buf' = "." /\ cfg' = [at |-> "resetting"]
       ELSE cfg' = [at |-> "up"] /\ UNCHANGED buf
    /\ UNCHANGED <<file, table, dir>>

\* ... which is removed if it is empty, and stays the first entry otherwise.
CfgResetOne ==
    /\ cfg.at = "resetting"
    /\ file' = Without(buf)
    /\ dir' = (dir /\ (buf # "." \/ Stored # {}))
    /\ cfg' = [at |-> "reset"]
    /\ UNCHANGED <<table, buf>>

----
\* Commands of the web server.
CfgServing == cfg.at \notin {"boot", "loop"}

WebSet(p, v) ==
    /\ CfgServing
    /\ table' = Registered(p)
    /\ buf' = p
    /\ \/ dir /\ file' = [file EXCEPT ![p] = v]
       \/ UNCHANGED file
    /\ UNCHANGED <<dir, cfg>>

WebDel(p) ==
    /\ CfgServing
    /\ file' = Without(p)
    /\ buf' = p
    /\ UNCHANGED <<table, dir, cfg>>

WebPurge ==
    /\ CfgServing
    /\ file' = [p \in Names |-> IF p \in table THEN file[p] ELSE "default"]
    /\ IF Stored \subseteq table THEN UNCHANGED buf ELSE buf' \in Stored \ table
    /\ UNCHANGED <<table, dir, cfg>>

\* config?list formats the path of every parameter.
WebList ==
    /\ CfgServing
    /\ buf' \in table
    /\ UNCHANGED <<file, table, dir, cfg>>

\* As it is not interrupted, it ends at once or never.
WebReset ==
    /\ CfgServing /\ dir
    /\ buf' = "."
    /\ IF Stored = {} THEN dir' = FALSE /\ UNCHANGED cfg
       ELSE cfg' = [at |-> "loop"] /\ UNCHANGED dir
    /\ UNCHANGED <<file, table>>

----
\* The device starts again; sys_cfgs_init() makes the directory again.
CfgBoots(by) ==
    /\ table' = {}
    /\ dir' = TRUE
    /\ buf' = "."
    /\ cfg' = [at |-> "boot", left |-> Known, by |-> by]
    /\ UNCHANGED file

PowerFails == CfgBoots("power")

\* The watchdog ends a reset that does not come to an end.
CfgWatchdog == cfg.at \in {"loop", "reset"} /\ CfgBoots("watchdog")

CfgMain ==
    \/ \E p \in Names : \/ CfgGet(p) \/ CfgDel(p) \/ CfgVisit(p)
                        \/ \E v \in Values : CfgSet(p, v)
    \/ CfgStarted \/ CfgOpen \/ CfgClose \/ CfgDelete
    \/ CfgPurge \/ CfgPurgeOne \/ CfgPurged \/ CfgReset \/ CfgResetOne

CfgWeb ==
    \/ \E p \in Names : WebDel(p) \/ \E v \in Values : WebSet(p, v)
    \/ WebPurge \/ WebList \/ WebReset

CfgNext == CfgMain \/ CfgWeb \/ PowerFails \/ CfgWatchdog

CfgSpec == CfgInit /\ [][CfgNext]_cfgVars

----
\* What the commands say of a parameter: the step is one of a set or a del of it, or
\* of a reset.
OwnCommand(p) ==
    \/ WebDel(p) \/ \E v \in Values : WebSet(p, v)
    \/ cfg.at = "set" /\ cfg.asked = p /\ CfgClose
    \/ cfg.at = "named" /\ cfg.asked = p /\ CfgDelete
    \/ CfgResetOne \/ WebReset

\* A command of the web has overwritten the path of the command in the main loop.
PathOverwritten ==
    \/ cfg.at = "named" /\ buf # cfg.asked
    \/ cfg.at = "set" /\ cfg.p # cfg.asked

\* What is stored for a parameter the program knows is changed by its own set and
\* del and by a reset only: not by a purge when the table of the parameters is full
\* of other names, a power failure within a set, or anything done to another
\* parameter; unless a command of the web overwrites the path of one of the main loop.
ConfigKept ==
    [][\A p \in Known : file'[p] # file[p] => OwnCommand(p) \/ PathOverwritten]_cfgVars

\* A set and a del change the parameter they name, and a purge those the program does
\* not know (cfg_store/README.md, Commands), whenever another command comes.  The code
\* does not keep this: PathOverwritten is the way out.
OnlyNamedChanges == [][\A p \in Known : file'[p] # file[p] => OwnCommand(p)]_cfgVars

\* A reset puts all parameters back to their defaults (cfg_store/README.md, Commands):
\* the watchdog does not end one that nothing could interrupt and that has left some.
ResetClears ==
    [][cfg.at = "loop" /\ cfg'.at = "boot" /\ cfg'.by = "watchdog" => Stored' = {}]_cfgVars
====
