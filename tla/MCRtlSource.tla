---------------------------- MODULE MCRtlSource -----------------------------
(***************************************************************************)
(* RtlSource with a ring of a few pairs.  MaxDelivered bounds the bytes    *)
(* the device delivers; a device that has delivered them all gives up.     *)
(***************************************************************************)
EXTENDS RtlSource

CONSTANT MaxDelivered

MCNext == Next /\ delivered' <= MaxDelivered

MCSpec == Init /\ [][MCNext]_vars

\* Fairness of the steps that the bound leaves.
MCFairSpec == MCSpec /\ Fairness
=============================================================================
