----------------------------- MODULE MC_ImportJob -----------------------------
(* ImportJob for TLC: the bounds are given in the .cfg files.              *)
EXTENDS ImportJob
=============================================================================
