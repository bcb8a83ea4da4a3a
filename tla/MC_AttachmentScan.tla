--------------------------- MODULE MC_AttachmentScan ---------------------------
(* Small instances of AttachmentScan for TLC: s2 is the infected upload.   *)
EXTENDS AttachmentScan

CONSTANTS s1, s2, e1, e2, w1, w2

OneInfected == {s2}
=============================================================================
