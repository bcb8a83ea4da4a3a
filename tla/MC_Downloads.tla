------------------------------ MODULE MC_Downloads ------------------------------
(* Small instances of Downloads for TLC. *)
EXTENDS Downloads, TLC

Interchangeable == Permutations(Requests) \cup Permutations(Placements) \cup Permutations(Users)
=============================================================================
