---------------------------- MODULE PartLifecycle ----------------------------
(***************************************************************************)
(* The life of one Part and of its PartRevisions: what the REST handlers   *)
(* PartViewSet and PartRevisionViewSet of plm/views.py, and _commit_parts  *)
(* of plm/jobs.py, do to the rows.                                         *)
(*                                                                         *)
(* A handler that locks the Part row (select_for_update) and runs inside   *)
(* transaction.atomic is one action.  PartViewSet reads its instance       *)
(* before it takes the lock (update) or takes none at all (destroy), and   *)
(* an import looks at the Part before it locks it by writing it, so these  *)
(* three are split into a Begin and an End step, with what they remember   *)
(* in "request" in between.                                                *)
(*                                                                         *)
(* Clients act on what a browser tab shows: "tab" holds the row a user     *)
(* fetched, whose row_version becomes the If-Match header of a write.      *)
(***************************************************************************)
EXTENDS Naturals

CONSTANTS
  Users,          \* people with an account
  NoUser,         \* a null foreign key
  Grants,         \* Grants[u]: the roles roles.assign_role ever gives u
  Tabs,           \* browser tabs
  Requests,       \* server workers running an unlocked PartViewSet handler
  Importers,      \* workers running an import
  MaxRevs,        \* bound: revisions of the Part
  MaxVersion,     \* bound: row_version of a revision
  MaxPartVersion, \* bound: row_version of the Part that PartViewSet still writes
  MaxEdits        \* bound: edits of one revision's content

Roles == {"viewer", "engineer", "reviewer", "publisher", "auditor", "sysadmin", "admin"}

ASSUME UsersAssumption == NoUser \notin Users
ASSUME GrantsAssumption == Grants \in [Users -> SUBSET Roles]
ASSUME RevsAssumption == MaxRevs \in Nat \ {0}
ASSUME BoundsAssumption ==
  /\ MaxVersion \in Nat \ {0}
  /\ MaxPartVersion \in Nat \ {0}
  /\ MaxEdits \in Nat

VARIABLES
  part,        \* the Part row: status and row_version
  rev,         \* rev[r]: the PartRevision row with revision code r
  publication, \* publication[r]: status of the ReleasePublication of r
  tab,         \* tab[t]: what a client fetched, or Closed
  request,     \* request[q]: an unlocked handler or an import in progress, or Idle
  overwritten  \* history: a destroy has written over a newer Part than it had read

vars == <<part, rev, publication, tab, request, overwritten>>

RevIds == 1 .. MaxRevs
RevisionStates ==
  {"draft", "pending_review", "rejected", "approved",
   "release_pending", "released", "release_failed", "obsolete"}

Person == Users \cup {NoUser}
\* "absent" is the state of a revision that has not been created.
Row == [state : RevisionStates \cup {"absent"}, row_version : Nat,
        submitter : Person, reviewer : Person, publisher : Person,
        seq : Nat, content : Nat]
PartRow == [status : RevisionStates, row_version : Nat]

AbsentRow == [state |-> "absent", row_version |-> 0, submitter |-> NoUser,
              reviewer |-> NoUser, publisher |-> NoUser, seq |-> 0, content |-> 0]
DraftRow(author, seq) == [AbsentRow EXCEPT !.state = "draft", !.row_version = 1,
                                           !.submitter = author, !.seq = seq]

Closed == [page |-> "closed"]
PartPage == [page : {"part"}, user : Users, seen : PartRow]
RevisionPage == [page : {"revision"}, user : Users, rev : RevIds, seen : Row]
Idle == [op |-> "idle"]
Handling == [op : {"destroy", "update"}, tag : Nat, instance : PartRow]
Importing == [op |-> "import"]

TypeOK ==
  /\ part \in PartRow
  /\ rev \in [RevIds -> Row]
  /\ publication \in [RevIds -> {"none", "published", "failed"}]
  /\ tab \in [Tabs -> PartPage \cup RevisionPage \cup {Closed}]
  /\ request \in [Requests \cup Importers -> Handling \cup {Importing, Idle}]
  /\ overwritten \in BOOLEAN

\* A Part is created together with its first revision, whose submitter is null.
Init ==
  /\ part = [status |-> "draft", row_version |-> 1]
  /\ rev = [r \in RevIds |-> IF r = 1 THEN DraftRow(NoUser, 1) ELSE AbsentRow]
  /\ publication = [r \in RevIds |-> "none"]
  /\ tab = [t \in Tabs |-> Closed]
  /\ request = [q \in Requests \cup Importers |-> Idle]
  /\ overwritten = FALSE

-----------------------------------------------------------------------------
(* The rules of PartRevisionViewSet.transition.                            *)

Exists(rv, r) == rv[r].state # "absent"

\* Mutant: a released revision can be revised in place.
AllowedTargets_ReviseReleased ==
  [draft |-> {"pending_review"},
   pending_review |-> {"approved", "rejected", "draft"},
   rejected |-> {"draft"},
   approved |-> {"release_pending"},
   release_pending |-> {"released", "release_failed"},
   release_failed |-> {"release_pending", "approved"},
   released |-> {"obsolete", "draft"},
   obsolete |-> {},
   absent |-> {}]

AllowedTargets ==
  [draft |-> {"pending_review"},
   pending_review |-> {"approved", "rejected", "draft"},
   rejected |-> {"draft"},
   approved |-> {"release_pending"},
   release_pending |-> {"released", "release_failed"},
   release_failed |-> {"release_pending", "approved"},
   released |-> {"obsolete"},
   obsolete |-> {},
   absent |-> {}]

RoleTargets(role) ==
  CASE role = "engineer" -> {"pending_review", "draft"}
    [] role = "reviewer" -> {"approved", "rejected"}
    [] role = "publisher" -> {"release_pending", "released", "release_failed", "obsolete"}
    [] role = "admin" -> RevisionStates
    [] OTHER -> {}

Abandoning(row, target) == row.state = "release_failed" /\ target = "approved"

\* The user holds, at the moment of the request, a role that permits the target.
RolePermits(u, row, target) ==
  \E role \in Grants[u] :
    IF Abandoning(row, target) THEN role \in {"publisher", "admin"}
                               ELSE target \in RoleTargets(role)
IsEngineer(u) == Grants[u] \cap {"engineer", "admin"} # {}
IsAdmin(u) == "admin" \in Grants[u]

\* Mutant: the publisher is checked when publishing starts but not on release.
DutiesSeparated_PublishOnly(u, row, target) ==
  /\ target = "draft" /\ row.state = "pending_review" => row.submitter = u
  /\ target \in {"approved", "rejected"} /\ ~Abandoning(row, target) => row.submitter # u
  /\ target = "release_pending" => u \notin {row.submitter, row.reviewer}

\* Who may not do it although the role permits it.
DutiesSeparated(u, row, target) ==
  /\ target = "draft" /\ row.state = "pending_review" => row.submitter = u
  /\ target \in {"approved", "rejected"} /\ ~Abandoning(row, target) => row.submitter # u
  /\ target \in {"release_pending", "released"} => u \notin {row.submitter, row.reviewer}

\* Mutant: abandoning a failed publication counts as a review.
Moved_AbandonReviews(row, u, target) ==
  [state |-> target,
   row_version |-> row.row_version + 1,
   submitter |-> IF target = "pending_review" THEN u ELSE row.submitter,
   reviewer |-> IF target = "approved" THEN u ELSE row.reviewer,
   publisher |-> IF target \in {"release_pending", "released", "obsolete"}
                 THEN u ELSE row.publisher,
   seq |-> row.seq, content |-> row.content]

Moved(row, u, target) ==
  [state |-> target,
   row_version |-> row.row_version + 1,
   submitter |-> IF target = "pending_review" THEN u ELSE row.submitter,
   reviewer |-> IF target = "approved" /\ ~Abandoning(row, target) THEN u ELSE row.reviewer,
   publisher |-> IF target \in {"release_pending", "released", "obsolete"}
                 THEN u ELSE row.publisher,
   seq |-> row.seq, content |-> row.content]

\* Mutant: the failure is written without a new row_version.
Failed_KeepsVersion(row, u) ==
  [state |-> "release_failed", row_version |-> row.row_version,
   submitter |-> row.submitter, reviewer |-> row.reviewer, publisher |-> u,
   seq |-> row.seq, content |-> row.content]

\* The row after a promotion that raised: written once as released, once as failed.
Failed(row, u) ==
  [state |-> "release_failed", row_version |-> row.row_version + 2,
   submitter |-> row.submitter, reviewer |-> row.reviewer, publisher |-> u,
   seq |-> row.seq, content |-> row.content]

\* order_by('-revision_seq'): r comes first, or may, if an import made a second one with
\* its number.
IsLatest(rv, r) == Exists(rv, r) /\ \A q \in RevIds : Exists(rv, q) => rv[q].seq <= rv[r].seq
Released(rv) == \E r \in RevIds : rv[r].state = "released"

\* Part.status after a transition: "released" as soon as one revision is.
SyncedPart(rv, latest) ==
  [status |-> IF Released(rv) THEN "released" ELSE rv[latest].state,
   row_version |-> part.row_version + 1]

SyncPart == \E latest \in RevIds : IsLatest(rev', latest) /\ part' = SyncedPart(rev', latest)

\* Mutant: transition does not look at If-Match.
Matches_AnyVersion(t, r) == tab[t].page = "revision" /\ tab[t].rev = r

\* The tab is open on r and its If-Match header still matches the row.
Matches(t, r) ==
  /\ tab[t].page = "revision"
  /\ tab[t].rev = r
  /\ tab[t].seen.row_version = rev[r].row_version
PartMatches(t) == tab[t].page = "part" /\ tab[t].seen.row_version = part.row_version

CloseTab(t) == tab' = [tab EXCEPT ![t] = Closed]

\* Every check transition makes before it writes, except the release gate.
Accepts(t, r, target) ==
  /\ Matches(t, r)
  /\ target \in AllowedTargets[rev[r].state]
  /\ RolePermits(tab[t].user, rev[r], target)
  /\ DutiesSeparated(tab[t].user, rev[r], target)
  /\ Abandoning(rev[r], target) => publication[r] # "published"
  /\ rev[r].row_version < MaxVersion

Transition(t, r, target) ==
  /\ target # "released"
  /\ Accepts(t, r, target)
  /\ rev' = [rev EXCEPT ![r] = Moved(@, tab[t].user, target)]
  /\ SyncPart
  /\ CloseTab(t)
  /\ UNCHANGED <<publication, request, overwritten>>

\* The release gate passed and every attachment was promoted.
Release(t, r) ==
  /\ Accepts(t, r, "released")
  /\ rev' = [rev EXCEPT ![r] = Moved(@, tab[t].user, "released")]
  /\ publication' = [publication EXCEPT ![r] = "published"]
  /\ SyncPart
  /\ CloseTab(t)
  /\ UNCHANGED <<request, overwritten>>

\* The promotion raised: the handler commits the failure and answers 409
\* before it reaches the lines that update the Part.
ReleaseFails(t, r) ==
  /\ Accepts(t, r, "released")
  /\ rev' = [rev EXCEPT ![r] = Failed(@, tab[t].user)]
  /\ publication' = [publication EXCEPT ![r] = "failed"]
  /\ CloseTab(t)
  /\ UNCHANGED <<part, request, overwritten>>

-----------------------------------------------------------------------------
(* The other handlers.                                                     *)

\* GET of a revision, GET of the Part.
OpenRevision(t, u, r) ==
  /\ tab[t] = Closed
  /\ Exists(rev, r)
  /\ tab' = [tab EXCEPT ![t] = [page |-> "revision", user |-> u, rev |-> r, seen |-> rev[r]]]
  /\ UNCHANGED <<part, rev, publication, request, overwritten>>

OpenPart(t, u) ==
  /\ tab[t] = Closed
  /\ tab' = [tab EXCEPT ![t] = [page |-> "part", user |-> u, seen |-> part]]
  /\ UNCHANGED <<part, rev, publication, request, overwritten>>

LeaveTab(t) ==
  /\ tab[t] # Closed
  /\ CloseTab(t)
  /\ UNCHANGED <<part, rev, publication, request, overwritten>>

\* perform_create: the new revision follows the latest one.
CreateRevision(t, r) ==
  /\ PartMatches(t)
  /\ IsEngineer(tab[t].user)
  /\ ~Exists(rev, r)
  /\ part.row_version < MaxPartVersion
  /\ \E latest \in RevIds :
       /\ IsLatest(rev, latest)
       /\ rev' = [rev EXCEPT ![r] = DraftRow(tab[t].user, rev[latest].seq + 1)]
  /\ part' = [part EXCEPT !.row_version = @ + 1]
  /\ CloseTab(t)
  /\ UNCHANGED <<publication, request, overwritten>>

Edited(row) == [row EXCEPT !.content = @ + 1]
Bumped(row) == [row EXCEPT !.row_version = @ + 1]
MayEdit(u, row) == IsEngineer(u) /\ row.state = "draft"

\* perform_update: the submitter, anybody while there is none, or an admin.
UpdateDraft(t, r) ==
  /\ Matches(t, r)
  /\ MayEdit(tab[t].user, rev[r])
  /\ rev[r].submitter \in {NoUser, tab[t].user} \/ IsAdmin(tab[t].user)
  /\ rev[r].row_version < MaxVersion /\ rev[r].content < MaxEdits
  /\ rev' = [rev EXCEPT ![r] = Bumped(Edited(@))]
  /\ CloseTab(t)
  /\ UNCHANGED <<part, publication, request, overwritten>>

\* PartAttachmentViewSet writes check the revision's If-Match and its state but
\* leave its row_version as it is.
EditAttachments(t, r) ==
  /\ Matches(t, r)
  /\ MayEdit(tab[t].user, rev[r])
  /\ rev[r].content < MaxEdits
  /\ rev' = [rev EXCEPT ![r] = Edited(@)]
  /\ UNCHANGED <<part, publication, tab, request, overwritten>>

\* PartViewSet.destroy: If-Match is compared with the instance get_object read.
BeginDestroy(q, t) ==
  /\ request[q] = Idle
  /\ PartMatches(t)
  /\ IsAdmin(tab[t].user)
  /\ part.row_version < MaxPartVersion
  /\ request' = [request EXCEPT ![q] = [op |-> "destroy", instance |-> part,
                                        tag |-> tab[t].seen.row_version]]
  /\ CloseTab(t)
  /\ UNCHANGED <<part, rev, publication, overwritten>>

EndDestroy(q) ==
  /\ request[q].op = "destroy"
  /\ request[q].instance.row_version < MaxPartVersion
  /\ part' = [status |-> "obsolete", row_version |-> request[q].instance.row_version + 1]
  /\ overwritten' = (overwritten \/ part # request[q].instance)
  /\ request' = [request EXCEPT ![q] = Idle]
  /\ UNCHANGED <<rev, publication, tab>>

\* Mutant: If-Match is compared with the instance instead of the locked row.
TagHolds_Unlocked(q) == request[q].tag = request[q].instance.row_version

TagHolds(q) == request[q].tag = part.row_version

\* PartViewSet.perform_update: get_object first, lock and If-Match second.  The
\* save writes every column of the instance.
BeginUpdate(q, t) ==
  /\ request[q] = Idle
  /\ tab[t].page = "part"
  /\ IsEngineer(tab[t].user)
  /\ part.row_version < MaxPartVersion
  /\ request' = [request EXCEPT ![q] = [op |-> "update", instance |-> part,
                                        tag |-> tab[t].seen.row_version]]
  /\ CloseTab(t)
  /\ UNCHANGED <<part, rev, publication, overwritten>>

EndUpdate(q) ==
  /\ request[q].op = "update"
  /\ \/ /\ TagHolds(q)
        /\ part.row_version < MaxPartVersion
        /\ part' = [status |-> request[q].instance.status, row_version |-> part.row_version + 1]
     \/ /\ ~TagHolds(q)
        /\ UNCHANGED part
  /\ request' = [request EXCEPT ![q] = Idle]
  /\ UNCHANGED <<rev, publication, tab, overwritten>>

\* _commit_parts, a row of an import: the Part is read, nothing of it may be published.
BeginImport(q) ==
  /\ request[q] = Idle
  /\ ({part.status} \cup {rev[r].state : r \in RevIds}) \cap {"released", "obsolete"} = {}
  /\ request' = [request EXCEPT ![q] = Importing]
  /\ UNCHANGED <<part, rev, publication, tab, overwritten>>

\* Saving its category locks the Part.  A draft is overwritten and keeps its row_version;
\* a revision that is not there is made, with the default number.
EndImport(q, r) ==
  /\ request[q] = Importing
  /\ \/ /\ rev[r].state = "draft" /\ rev[r].content < MaxEdits
        /\ rev' = [rev EXCEPT ![r] = Edited(@)]
     \/ /\ ~Exists(rev, r)
        /\ rev' = [rev EXCEPT ![r] = DraftRow(NoUser, 1)]
  /\ request' = [request EXCEPT ![q] = Idle]
  /\ UNCHANGED <<part, publication, tab, overwritten>>

\* The revision is not a draft, or another row of the import fails: all is taken back.
FailImport(q) ==
  /\ request[q] = Importing
  /\ request' = [request EXCEPT ![q] = Idle]
  /\ UNCHANGED <<part, rev, publication, tab, overwritten>>

-----------------------------------------------------------------------------

Next ==
  \/ \E t \in Tabs, u \in Users, r \in RevIds : OpenRevision(t, u, r)
  \/ \E t \in Tabs, u \in Users : OpenPart(t, u)
  \/ \E t \in Tabs : LeaveTab(t)
  \/ \E t \in Tabs, r \in RevIds, target \in RevisionStates :
       Transition(t, r, target)
  \/ \E t \in Tabs, r \in RevIds : Release(t, r)
  \/ \E t \in Tabs, r \in RevIds : ReleaseFails(t, r)
  \/ \E t \in Tabs, r \in RevIds : CreateRevision(t, r)
  \/ \E t \in Tabs, r \in RevIds : UpdateDraft(t, r)
  \/ \E t \in Tabs, r \in RevIds : EditAttachments(t, r)
  \/ \E q \in Requests, t \in Tabs : BeginDestroy(q, t)
  \/ \E q \in Requests : EndDestroy(q)
  \/ \E q \in Requests, t \in Tabs : BeginUpdate(q, t)
  \/ \E q \in Requests : EndUpdate(q)
  \/ \E q \in Importers : BeginImport(q)
  \/ \E q \in Importers, r \in RevIds : EndImport(q, r)
  \/ \E q \in Importers : FailImport(q)

Spec == Init /\ [][Next]_vars

-----------------------------------------------------------------------------
(* Correctness.                                                            *)

\* The three duties of a revision are never held by one person: whoever approved
\* did not submit, whoever published neither submitted nor approved, across any
\* number of resubmissions, failed publications and role changes (the SoD checks
\* of transition).  Retiring a revision overwrites its publisher, so "obsolete"
\* keeps only the first half.
SeparationOfDuties ==
  \A r \in RevIds :
    /\ rev[r].state \in {"approved", "release_pending", "released", "release_failed", "obsolete"}
         => /\ NoUser \notin {rev[r].submitter, rev[r].reviewer}
            /\ rev[r].reviewer # rev[r].submitter
    /\ rev[r].state \in {"release_pending", "released", "release_failed"}
         => rev[r].publisher \notin {NoUser, rev[r].submitter, rev[r].reviewer}

\* A row_version names one content once the revision has left draft: a client whose
\* If-Match still matches sees the row, and the attachments, that are there.  In
\* draft both may differ, because attachment writes and imports keep row_version.
TagIdentifiesRevision ==
  \A t \in Tabs :
    tab[t].page = "revision" /\ tab[t].seen.row_version = rev[tab[t].rev].row_version =>
      LET now == rev[tab[t].rev] IN
      /\ [tab[t].seen EXCEPT !.content = now.content] = now
      /\ now.state # "draft" => tab[t].seen = now

\* Nobody reviews, publishes or retires a revision on the strength of a page
\* that is out of date, however requests of several users interleave.
DecisionsAreInformed ==
  [][\A t \in Tabs, r \in RevIds :
       /\ tab[t].page = "revision" /\ tab'[t] = Closed /\ tab[t].rev = r
       /\ rev[r].state \notin {"draft", "absent"}
       /\ rev'[r].state # rev[r].state
       => tab[t].seen = rev[r]]_vars

\* The publication record and the revision agree: a revision is released or
\* retired exactly when its ReleasePublication is published, whatever failures,
\* abandoned publications and retries came first.
PublishedWhenReleased ==
  \A r \in RevIds :
    publication[r] = "published" <=> rev[r].state \in {"released", "obsolete"}

\* The list filter's Part.status agrees with all revisions of the Part, whichever handler
\* wrote it last and from whatever instance: it is "released" only while some revision is,
\* and while one is it is that, or "obsolete" once the Part was deleted.  The one exception
\* is a Part of which a destroy has written over a newer row: its row_versions are used
\* twice, so that an update may pass If-Match with an instance that is out of date.
StatusFollowsRevisions ==
  ~overwritten =>
    /\ part.status = "released" => Released(rev)
    /\ Released(rev) => part.status \in {"released", "obsolete"}

\* Once approved the content cannot change any more: what was reviewed is what is
\* released and what stays in the retired revision.
ReviewedContentFrozen ==
  [][\A r \in RevIds :
       rev[r].state \in {"approved", "release_pending", "released", "release_failed", "obsolete"}
       => /\ rev'[r].content = rev[r].content
          /\ rev'[r].submitter = rev[r].submitter
          /\ rev'[r].reviewer = rev[r].reviewer]_vars

-----------------------------------------------------------------------------
(* The abstract approval.                                                  *)

Stage ==
  [absent |-> "open", draft |-> "open", rejected |-> "open", pending_review |-> "submitted",
   approved |-> "approved", release_pending |-> "publishing", release_failed |-> "publishing",
   released |-> "published", obsolete |-> "retired"]

\* Whom the columns of a row say to have taken the steps that count.  A draft may still
\* have those of earlier rounds, and retiring a revision overwrites its publisher.
Author(row) == IF Stage[row.state] = "open" THEN NoUser ELSE row.submitter
Reviewer(row) ==
  IF Stage[row.state] \in {"open", "submitted"} THEN NoUser ELSE row.reviewer
Publisher(row) ==
  IF Stage[row.state] \in {"publishing", "published"} THEN row.publisher ELSE NoUser

Approval(r) == INSTANCE FourEyes WITH
  People <- Users, Nobody <- NoUser, Archived <- FALSE,
  stage <- Stage[rev[r].state], author <- Author(rev[r]),
  reviewer <- Reviewer(rev[r]), publisher <- Publisher(rev[r])

\* Every revision is approved step by step by different people, and the row shows by
\* whom: stale pages, resubmissions, failed and abandoned publications, imports and
\* deletes skip no step and take no signature away.
IsFourEyes ==
  /\ \A r \in RevIds : Approval(r)!Init
  /\ [][\A r \in RevIds : [Approval(r)!Next]_(Approval(r)!vars)]_rev
=============================================================================
