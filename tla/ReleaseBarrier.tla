---------------------------- MODULE ReleaseBarrier ----------------------------
(***************************************************************************)
(* What the publication of a revision promises to somebody who downloads   *)
(* its attachments: the versions chosen for the release become readable    *)
(* all at once, each pinned to one stored object, and from then on neither *)
(* the set nor the objects change, not even when the revision is retired.  *)
(* An attempt that does not succeed leaves no trace.                       *)
(***************************************************************************)
CONSTANTS Versions, Objects

VARIABLES
  phase,    \* "closed", "preparing", "open" or "retired"
  offer,    \* the versions the attempt in progress is about
  readable  \* pairs <<version, object>> a download can be bound to

vars == <<phase, offer, readable>>

Init == phase = "closed" /\ offer = {} /\ readable = {}

Prepare ==
  /\ phase = "closed" /\ phase' = "preparing"
  /\ offer' \in SUBSET Versions
  /\ UNCHANGED readable

Cancel ==
  /\ phase = "preparing" /\ phase' = "closed"
  /\ offer' = {}
  /\ UNCHANGED readable

\* Exactly one object for each version on offer, and for no other.
Pins(pairs, vs) ==
  /\ pairs \subseteq vs \X Objects
  /\ \A v \in vs : \E o \in Objects : <<v, o>> \in pairs
  /\ \A p, q \in pairs : p[1] = q[1] => p = q

Open ==
  /\ phase = "preparing" /\ phase' = "open"
  /\ Pins(readable', offer)
  /\ offer' = {}

Retire ==
  /\ phase = "open" /\ phase' = "retired"
  /\ UNCHANGED <<offer, readable>>

Next == Prepare \/ Cancel \/ Open \/ Retire

Spec == Init /\ [][Next]_vars
=============================================================================
