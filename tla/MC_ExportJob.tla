------------------------------ MODULE MC_ExportJob ------------------------------
(* Small instances of ExportJob for TLC. *)
EXTENDS ExportJob, TLC

Interchangeable ==
  Permutations(Workers) \cup Permutations(Clients) \cup Permutations(Contents)
    \cup Permutations(Formats)
=============================================================================
