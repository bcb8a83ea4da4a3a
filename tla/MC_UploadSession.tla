--------------------------- MODULE MC_UploadSession ---------------------------
(* Small instances of UploadSession for TLC.                               *)
EXTENDS UploadSession

CONSTANTS c1, c2, w1, w2, j1, j2
=============================================================================
