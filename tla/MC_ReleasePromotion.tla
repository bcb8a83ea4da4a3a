-------------------------- MODULE MC_ReleasePromotion --------------------------
(* Small instances of ReleasePromotion for TLC. *)
EXTENDS ReleasePromotion, TLC

CONSTANTS a1, a2
=============================================================================
