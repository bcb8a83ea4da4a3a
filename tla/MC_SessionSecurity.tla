--------------------------- MODULE MC_SessionSecurity ---------------------------
(* Small instances of SessionSecurity for TLC. *)
EXTENDS SessionSecurity, TLC

Interchangeable == Permutations(Logins) \cup Permutations(Requests) \cup Permutations(Sessions)
=============================================================================
