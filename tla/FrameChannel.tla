---- MODULE FrameChannel ----
(***************************************************************************)
(* What the readings of a battery promise: every frame that is handled is  *)
(* a whole frame the battery has sent, no frame is handled twice, and none *)
(* is handled after a later one.  Frames may be lost.                      *)
(***************************************************************************)
EXTENDS Naturals

VARIABLES
    sent,       \* the number of the last frame the battery has begun to send
    got,        \* the number of the last frame handled
    handled     \* how many frames have been handled

ChInit == sent = 0 /\ got = 0 /\ handled = 0

ChSend ==
    /\ sent' = sent + 1
    /\ UNCHANGED <<got, handled>>

ChDeliver ==
    /\ got' \in (got + 1)..sent
    /\ handled' = handled + 1
    /\ UNCHANGED sent

ChNext == ChSend \/ ChDeliver

ChSpec == ChInit /\ [][ChNext]_<<sent, got, handled>>
====
