--------------------------- MODULE MC_PartLifecycle ---------------------------
(* Small instances of PartLifecycle for TLC. *)
EXTENDS PartLifecycle, TLC

CONSTANTS u1, u2, u3

\* Over time every user is given every working role: the most permissive history
\* of roles.assign_role, and one that keeps the users interchangeable.
AllGrants == [u \in Users |-> {"engineer", "reviewer", "publisher", "admin"}]

\* One fixed role each.
OneGrant == (u1 :> {"engineer", "admin"}) @@ (u2 :> {"reviewer"}) @@ (u3 :> {"publisher"})

Interchangeable == Permutations(Users) \cup Permutations(Tabs)
=============================================================================
