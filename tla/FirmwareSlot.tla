---- MODULE FirmwareSlot ----
(***************************************************************************)
(* What the download slot promises to the boot loader: a candidate is one  *)
(* of the images that pass every check, it stays the same one until it is  *)
(* withdrawn or booted, and a restart runs it, or goes on with the image   *)
(* that ran before.                                                        *)
(***************************************************************************)

CONSTANTS
    Images,     \* the images that pass the checks
    First,      \* the image the device is delivered with
    Nothing     \* no candidate

VARIABLES
    running,    \* the image that runs
    candidate   \* the image a restart would run

FwInit == running = First /\ candidate = Nothing

FwStage ==
    /\ candidate = Nothing
    /\ candidate' \in Images
    /\ UNCHANGED running

FwWithdraw ==
    /\ candidate' = Nothing
    /\ UNCHANGED running

FwBoot ==
    /\ candidate # Nothing
    /\ running' = candidate
    /\ candidate' = Nothing

FwNext == FwStage \/ FwWithdraw \/ FwBoot

FwSpec == FwInit /\ [][FwNext]_<<running, candidate>>
====
