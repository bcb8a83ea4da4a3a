------------------------------- MODULE FourEyes -------------------------------
(***************************************************************************)
(* What the approval of a document promises, whatever the document is: it  *)
(* is published only after one person has submitted it, a second one has   *)
(* approved what the first submitted, and a third one publishes it.  Who   *)
(* took these steps stays on record until the document is back with its    *)
(* authors, and a document that is published never goes back.              *)
(***************************************************************************)
CONSTANTS
  People, Nobody,
  Archived   \* it was published before, by people nobody remembers

VARIABLES
  stage,     \* "open", "submitted", "approved", "publishing", "published" or "retired"
  author, reviewer, publisher  \* who took the steps that count, or Nobody

vars == <<stage, author, reviewer, publisher>>

Unsigned == author = Nobody /\ reviewer = Nobody /\ publisher = Nobody

Init == stage = (IF Archived THEN "published" ELSE "open") /\ Unsigned

Submit(u) ==
  /\ stage = "open" /\ stage' = "submitted"
  /\ author' = u
  /\ UNCHANGED <<reviewer, publisher>>

\* Rejected by a reviewer or withdrawn by its author.
Return ==
  /\ stage = "submitted" /\ stage' = "open"
  /\ Unsigned'

Approve(u) ==
  /\ stage = "submitted" /\ stage' = "approved"
  /\ u # author
  /\ reviewer' = u
  /\ UNCHANGED <<author, publisher>>

MayPublish(u) == u \notin {author, reviewer}

\* Begun, or tried again by the same publisher or by another one.
Publish(u) ==
  /\ stage \in {"approved", "publishing"} /\ stage' = "publishing"
  /\ MayPublish(u)
  /\ publisher' = u
  /\ UNCHANGED <<author, reviewer>>

\* Given up: the approval stands.
Abandon ==
  /\ stage = "publishing" /\ stage' = "approved"
  /\ publisher' = Nobody
  /\ UNCHANGED <<author, reviewer>>

Release(u) ==
  /\ stage = "publishing" /\ stage' = "published"
  /\ MayPublish(u)
  /\ publisher' = u
  /\ UNCHANGED <<author, reviewer>>

\* Who published is on record as long as the document is out.
Retire ==
  /\ stage = "published" /\ stage' = "retired"
  /\ publisher' = Nobody
  /\ UNCHANGED <<author, reviewer>>

Next ==
  \/ Return \/ Abandon \/ Retire
  \/ \E u \in People : Submit(u) \/ Approve(u) \/ Publish(u) \/ Release(u)

Spec == Init /\ [][Next]_vars
=============================================================================
