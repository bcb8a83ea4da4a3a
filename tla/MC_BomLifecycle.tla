--------------------------- MODULE MC_BomLifecycle ---------------------------
(* Small instances of BomLifecycle for TLC.                                *)
EXTENDS BomLifecycle, TLC

CONSTANTS ann, bob, cat, B1, B2, x1, x2, y, p1, p2, q1, q2

MCRole == ann :> "engineer" @@ bob :> "admin" @@ cat :> "publisher"
MCBomOf == x1 :> B1 @@ x2 :> B1 @@ y :> B2
MCLibrary == x1 :> [root |-> p1, items |-> {p2}]
MCOffered == x1 :> {} @@ x2 :> {p2, y} @@ y :> {p1, x1}
MCSymmetry == Permutations({q1, q2})
=============================================================================
