----------------------------- MODULE MC_AuditChain -----------------------------
(* Small instances of AuditChain for TLC. *)
EXTENDS AuditChain, TLC

Interchangeable == Permutations(Writers) \cup Permutations(Rows)
=============================================================================
