-------------------------- MODULE PartLifecycleProofs --------------------------
(***************************************************************************)
(* Proofs about PartLifecycle for any number of users, tabs, requests,     *)
(* revisions and versions, and for any history of role assignments.        *)
(***************************************************************************)
EXTENDS PartLifecycle, TLAPS

-----------------------------------------------------------------------------
(* Facts about the operators.                                              *)

\* A workflow move yields a revision row.
LEMMA MovedType ==
  ASSUME NEW row \in Row, NEW u \in Users, NEW target \in RevisionStates
  PROVE  Moved(row, u, target) \in Row
  BY DEF Moved, Row, Person, Abandoning

\* A new revision row is well typed, and exists.
LEMMA DraftRowType ==
  ASSUME NEW p \in Person, NEW n \in Nat
  PROVE  DraftRow(p, n) \in Row /\ DraftRow(p, n).state = "draft"
  BY DEF DraftRow, AbsentRow, Row, Person, RevisionStates

\* The Part row a transition writes is well typed: its status is "released" or
\* the state of a revision that exists.
LEMMA SyncPartType ==
  ASSUME TypeOK, rev' \in [RevIds -> Row], SyncPart
  PROVE  part' \in PartRow
  <1>1. PICK latest \in RevIds : IsLatest(rev', latest) /\ part' = SyncedPart(rev', latest)
    BY DEF SyncPart
  <1>2. rev'[latest].state \in RevisionStates
    BY <1>1 DEF IsLatest, Exists, Row
  <1>3. part.row_version + 1 \in Nat /\ "released" \in RevisionStates
    BY DEF TypeOK, PartRow, RevisionStates
  <1>4. QED
    BY <1>1, <1>2, <1>3 DEF SyncedPart, PartRow

\* The status a transition writes is "released" exactly when a revision is, whichever
\* comes first.
LEMMA SyncPartStatus ==
  ASSUME SyncPart
  PROVE  part'.status = "released" <=> Released(rev')
  <1>1. PICK latest \in RevIds : part' = SyncedPart(rev', latest)
    BY DEF SyncPart
  <1>2. part'.status = IF Released(rev') THEN "released" ELSE rev'[latest].state
    BY <1>1 DEF SyncedPart
  <1>3. QED
    BY <1>2 DEF Released

\* What an accepted transition knows about the tab it came from.
LEMMA AcceptsFacts ==
  ASSUME TypeOK, NEW t \in Tabs, NEW r \in RevIds, NEW target, Accepts(t, r, target)
  PROVE  /\ tab[t] \in RevisionPage
         /\ tab[t].user \in Users
         /\ tab[t].rev = r
         /\ tab[t].seen.row_version = rev[r].row_version
         /\ rev[r].state \in RevisionStates
         /\ target \in RevisionStates
  <1>1. tab[t] \in RevisionPage
    BY DEF Accepts, Matches, TypeOK, PartPage, RevisionPage, Closed
  <1>2. rev[r] \in Row
    BY DEF TypeOK
  <1>3. target \in AllowedTargets[rev[r].state]
    BY DEF Accepts
  <1>4. rev[r].state \in RevisionStates /\ target \in RevisionStates
    BY <1>2, <1>3 DEF Row, RevisionStates, AllowedTargets
  <1>5. QED
    BY <1>1, <1>4 DEF Accepts, Matches, RevisionPage

\* A failed release leaves a well-typed row.
LEMMA FailedType ==
  ASSUME NEW row \in Row, NEW u \in Users
  PROVE  Failed(row, u) \in Row
  BY DEF Failed, Row, Person, RevisionStates

\* An edit of a draft leaves a well-typed row and changes only what it says.
LEMMA EditedType ==
  ASSUME NEW row \in Row
  PROVE  /\ Edited(row) \in Row /\ Bumped(row) \in Row
         /\ Edited(row).state = row.state /\ Bumped(row).state = row.state
         /\ Edited(row).row_version = row.row_version
         /\ Bumped(row).row_version = row.row_version + 1
  BY DEF Row, Edited, Bumped

-----------------------------------------------------------------------------
(* Type correctness.                                                       *)

LEMMA TypeInit == Init => TypeOK
  <1> SUFFICES ASSUME Init PROVE TypeOK
    OBVIOUS
  <1>1. AbsentRow \in Row /\ DraftRow(NoUser, 1) \in Row
    BY DraftRowType DEF AbsentRow, Row, Person
  <1>2. part \in PartRow
    BY DEF Init, PartRow, RevisionStates
  <1>3. QED
    BY <1>1, <1>2 DEF Init, TypeOK

LEMMA TypeStep == TypeOK /\ [Next]_vars => TypeOK'
  <1> SUFFICES ASSUME TypeOK, [Next]_vars PROVE TypeOK'
    OBVIOUS
  <1>1. ASSUME NEW t \in Tabs, NEW u \in Users, NEW r \in RevIds, OpenRevision(t, u, r)
        PROVE  TypeOK'
    <2>1. [page |-> "revision", user |-> u, rev |-> r, seen |-> rev[r]] \in RevisionPage
      BY DEF TypeOK, RevisionPage
    <2>2. QED
      BY <1>1, <2>1 DEF OpenRevision, TypeOK
  <1>2. ASSUME NEW t \in Tabs, NEW u \in Users, OpenPart(t, u)
        PROVE  TypeOK'
    <2>1. [page |-> "part", user |-> u, seen |-> part] \in PartPage
      BY DEF TypeOK, PartPage
    <2>2. QED
      BY <1>2, <2>1 DEF OpenPart, TypeOK
  <1>3. ASSUME NEW t \in Tabs, LeaveTab(t)
        PROVE  TypeOK'
    BY <1>3 DEF LeaveTab, CloseTab, TypeOK
  <1>4. ASSUME NEW t \in Tabs, NEW r \in RevIds, NEW target \in RevisionStates,
               Transition(t, r, target)
        PROVE  TypeOK'
    <2>1. Accepts(t, r, target)
      BY <1>4 DEF Transition
    <2>2. rev[r].state \in RevisionStates /\ tab[t].user \in Users
      BY <2>1, AcceptsFacts
    <2>3. Moved(rev[r], tab[t].user, target) \in Row
      BY <2>2, MovedType DEF TypeOK
    <2>4. rev' = [rev EXCEPT ![r] = Moved(rev[r], tab[t].user, target)]
      BY <1>4 DEF Transition
    <2>5. rev' \in [RevIds -> Row]
      BY <2>3, <2>4 DEF TypeOK
    <2>6. part' \in PartRow
      BY <1>4, <2>5, SyncPartType DEF Transition
    <2>7. QED
      BY <1>4, <2>5, <2>6 DEF Transition, CloseTab, TypeOK
  <1>5. ASSUME NEW t \in Tabs, NEW r \in RevIds, Release(t, r)
        PROVE  TypeOK'
    <2>1. Accepts(t, r, "released")
      BY <1>5 DEF Release
    <2>2. rev[r].state \in RevisionStates /\ tab[t].user \in Users /\ "released" \in RevisionStates
      BY <2>1, AcceptsFacts
    <2>3. Moved(rev[r], tab[t].user, "released") \in Row
      BY <2>2, MovedType DEF TypeOK
    <2>4. rev' = [rev EXCEPT ![r] = Moved(rev[r], tab[t].user, "released")]
      BY <1>5 DEF Release
    <2>5. rev' \in [RevIds -> Row]
      BY <2>3, <2>4 DEF TypeOK
    <2>6. part' \in PartRow
      BY <1>5, <2>5, SyncPartType DEF Release
    <2>7. QED
      BY <1>5, <2>5, <2>6 DEF Release, CloseTab, TypeOK
  <1>6. ASSUME NEW t \in Tabs, NEW r \in RevIds, ReleaseFails(t, r)
        PROVE  TypeOK'
    <2>1. Accepts(t, r, "released")
      BY <1>6 DEF ReleaseFails
    <2>2. rev[r].state \in RevisionStates /\ tab[t].user \in Users
      BY <2>1, AcceptsFacts
    <2>3. rev' \in [RevIds -> Row]
      BY <1>6, <2>2, FailedType DEF ReleaseFails, TypeOK
    <2>4. QED
      BY <1>6, <2>3 DEF ReleaseFails, CloseTab, TypeOK
  <1>7. ASSUME NEW t \in Tabs, NEW r \in RevIds, CreateRevision(t, r)
        PROVE  TypeOK'
    <2>1. tab[t].user \in Users
      BY <1>7 DEF CreateRevision, PartMatches, TypeOK, PartPage, RevisionPage, Closed
    <2>2. PICK latest \in RevIds :
            rev' = [rev EXCEPT ![r] = DraftRow(tab[t].user, rev[latest].seq + 1)]
      BY <1>7 DEF CreateRevision
    <2>3. rev[latest].seq + 1 \in Nat
      BY DEF TypeOK, Row
    <2>4. rev' \in [RevIds -> Row]
      BY <2>1, <2>2, <2>3, DraftRowType DEF TypeOK, Person
    <2>5. part' \in PartRow
      BY <1>7 DEF CreateRevision, TypeOK, PartRow
    <2>6. QED
      BY <1>7, <2>4, <2>5 DEF CreateRevision, CloseTab, TypeOK
  <1>8. ASSUME NEW t \in Tabs, NEW r \in RevIds, UpdateDraft(t, r)
        PROVE  TypeOK'
    <2>1. rev' \in [RevIds -> Row]
      BY <1>8, EditedType DEF UpdateDraft, TypeOK
    <2>2. QED
      BY <1>8, <2>1 DEF UpdateDraft, CloseTab, TypeOK
  <1>9. ASSUME NEW t \in Tabs, NEW r \in RevIds, EditAttachments(t, r)
        PROVE  TypeOK'
    <2>1. rev' \in [RevIds -> Row]
      BY <1>9, EditedType DEF EditAttachments, TypeOK
    <2>2. QED
      BY <1>9, <2>1 DEF EditAttachments, TypeOK
  <1>10. ASSUME NEW q \in Requests, NEW t \in Tabs, BeginDestroy(q, t) \/ BeginUpdate(q, t)
         PROVE  TypeOK'
    <2>1. tab[t].seen.row_version \in Nat
      BY <1>10 DEF BeginDestroy, BeginUpdate, PartMatches, TypeOK, PartPage, RevisionPage,
                   Closed, PartRow
    <2>2. \A op \in {"destroy", "update"} :
            [op |-> op, instance |-> part, tag |-> tab[t].seen.row_version] \in Handling
      BY <2>1 DEF Handling, TypeOK
    <2>3. request' \in [Requests \cup Importers -> Handling \cup {Importing, Idle}]
      BY <1>10, <2>2 DEF BeginDestroy, BeginUpdate, TypeOK
    <2>4. QED
      BY <1>10, <2>3 DEF BeginDestroy, BeginUpdate, CloseTab, TypeOK
  <1>11. ASSUME NEW q \in Requests, EndDestroy(q) \/ EndUpdate(q)
         PROVE  TypeOK'
    <2>1. request[q] \in Handling
      BY <1>11 DEF EndDestroy, EndUpdate, TypeOK, Idle, Importing
    <2>2. part' \in PartRow
      BY <1>11, <2>1 DEF EndDestroy, EndUpdate, TypeOK, PartRow, Handling, RevisionStates
    <2>3. QED
      BY <1>11, <2>2 DEF EndDestroy, EndUpdate, TypeOK
  <1>12. ASSUME NEW q \in Importers, BeginImport(q) \/ FailImport(q)
         PROVE  TypeOK'
    BY <1>12 DEF BeginImport, FailImport, TypeOK
  <1>13. ASSUME NEW q \in Importers, NEW r \in RevIds, EndImport(q, r)
         PROVE  TypeOK'
    <2>1. DraftRow(NoUser, 1) \in Row /\ Edited(rev[r]) \in Row
      BY DraftRowType, EditedType DEF TypeOK, Person
    <2>2. QED
      BY <1>13, <2>1 DEF EndImport, TypeOK
  <1>14. CASE UNCHANGED vars
    BY <1>14 DEF vars, TypeOK
  <1>15. QED
    BY <1>1, <1>2, <1>3, <1>4, <1>5, <1>6, <1>7, <1>8, <1>9, <1>10, <1>11, <1>12, <1>13, <1>14
    DEF Next

\* Every row, client page and unlocked request of PartViewSet and PartRevisionViewSet
\* stays well typed.
THEOREM PartsAreTyped == Spec => []TypeOK
  BY TypeInit, TypeStep, PTL DEF Spec

-----------------------------------------------------------------------------
(* How a step changes one revision.                                        *)

\* The ways in which one revision row may change: every invariant below is proved
\* from these cases instead of from the handlers.
RowStep(r) ==
  \/ UNCHANGED <<rev[r], publication[r]>>
  \/ /\ rev[r].state = "absent" /\ rev'[r].state = "draft" /\ rev'[r].row_version = 1
     /\ UNCHANGED publication[r]
  \/ /\ rev[r].state = "draft"
     /\ rev'[r] \in {Edited(rev[r]), Bumped(Edited(rev[r]))}
     /\ UNCHANGED publication[r]
  \/ \E t \in Tabs, target \in RevisionStates :
       /\ Accepts(t, r, target)
       /\ \/ /\ rev'[r] = Moved(rev[r], tab[t].user, target)
             /\ publication'[r] = IF target = "released" THEN "published" ELSE publication[r]
          \/ /\ target = "released"
             /\ rev'[r] = Failed(rev[r], tab[t].user)
             /\ publication'[r] = "failed"

LEMMA StepOfRow ==
  ASSUME TypeOK, [Next]_vars, NEW r \in RevIds
  PROVE  RowStep(r)
  <1> USE DEF TypeOK
  <1>1. ASSUME NEW t \in Tabs, NEW q \in RevIds, NEW target \in RevisionStates,
               Transition(t, q, target)
        PROVE  RowStep(r)
    BY <1>1 DEF Transition, RowStep
  <1>2. ASSUME NEW t \in Tabs, NEW q \in RevIds, Release(t, q) \/ ReleaseFails(t, q)
        PROVE  RowStep(r)
    <2>1. "released" \in RevisionStates
      BY DEF RevisionStates
    <2>2. QED
      BY <1>2, <2>1 DEF Release, ReleaseFails, RowStep
  <1>3. ASSUME NEW t \in Tabs, NEW q \in RevIds, CreateRevision(t, q)
        PROVE  RowStep(r)
    BY <1>3 DEF CreateRevision, RowStep, Exists, DraftRow, AbsentRow
  <1>4. ASSUME NEW t \in Tabs, NEW q \in RevIds, UpdateDraft(t, q) \/ EditAttachments(t, q)
        PROVE  RowStep(r)
    BY <1>4 DEF UpdateDraft, EditAttachments, MayEdit, RowStep
  <1>5. ASSUME NEW i \in Importers, NEW q \in RevIds, EndImport(i, q)
        PROVE  RowStep(r)
    BY <1>5 DEF EndImport, RowStep, Exists, DraftRow, AbsentRow
  <1>6. ASSUME UNCHANGED <<rev, publication>>
        PROVE  RowStep(r)
    BY <1>6 DEF RowStep
  <1>7. QED
    BY <1>1, <1>2, <1>3, <1>4, <1>5, <1>6
    DEF Next, OpenRevision, OpenPart, LeaveTab, BeginDestroy, EndDestroy, BeginUpdate,
        EndUpdate, BeginImport, EndImport, FailImport, vars

-----------------------------------------------------------------------------
(* Separation of duties.                                                   *)

\* The separation of one row, so that it can be proved row by row.
Separated(row) ==
  /\ row.state \in {"approved", "release_pending", "released", "release_failed", "obsolete"}
       => /\ NoUser \notin {row.submitter, row.reviewer}
          /\ row.reviewer # row.submitter
  /\ row.state \in {"release_pending", "released", "release_failed"}
       => row.publisher \notin {NoUser, row.submitter, row.reviewer}

\* A row that left draft has a submitter.
Submitted(row) ==
  row.state \notin {"draft", "absent"} => row.submitter # NoUser

DutyInv == \A r \in RevIds : Separated(rev[r]) /\ Submitted(rev[r])

LEMMA DutyStep == TypeOK /\ DutyInv /\ [Next]_vars => DutyInv'
  <1> SUFFICES ASSUME TypeOK, DutyInv, [Next]_vars, NEW r \in RevIds
               PROVE  Separated(rev'[r]) /\ Submitted(rev'[r])
    BY DEF DutyInv
  <1> rev[r] \in Row /\ Separated(rev[r]) /\ Submitted(rev[r]) /\ TypeOK
    BY DEF DutyInv, TypeOK
  <1>1. CASE UNCHANGED rev[r]
    BY <1>1
  <1>2. CASE rev'[r].state = "draft"
    BY <1>2 DEF Separated, Submitted
  <1>3. CASE rev[r].state = "draft" /\ rev'[r] \in {Edited(rev[r]), Bumped(Edited(rev[r]))}
    <2>1. rev'[r].state = "draft"
      BY <1>3, EditedType
    <2>2. QED
      BY <2>1 DEF Separated, Submitted
  <1>4. ASSUME NEW t \in Tabs, NEW target \in RevisionStates, Accepts(t, r, target),
               rev'[r] = Moved(rev[r], tab[t].user, target)
        PROVE  Separated(rev'[r]) /\ Submitted(rev'[r])
    <2> DEFINE u == tab[t].user
    <2>1. u \in Users /\ u # NoUser
      BY <1>4, AcceptsFacts, UsersAssumption
    <2>2. target \in AllowedTargets[rev[r].state] /\ DutiesSeparated(u, rev[r], target)
      BY <1>4 DEF Accepts
    <2>3. rev[r].state \in RevisionStates
      BY <1>4, AcceptsFacts
    <2>4. CASE target \in {"draft", "pending_review", "rejected"}
      BY <1>4, <2>1, <2>2, <2>3, <2>4
      DEF Separated, Submitted, Moved, AllowedTargets, RevisionStates
    <2>5. CASE target = "approved"
      BY <1>4, <2>1, <2>2, <2>3, <2>5
      DEF Separated, Submitted, Moved, AllowedTargets, RevisionStates, Abandoning,
          DutiesSeparated
    <2>6. CASE target \in {"release_pending", "released"}
      BY <1>4, <2>1, <2>2, <2>3, <2>6
      DEF Separated, Submitted, Moved, AllowedTargets, RevisionStates, DutiesSeparated
    <2>7. CASE target \in {"release_failed", "obsolete"}
      BY <1>4, <2>1, <2>2, <2>3, <2>7
      DEF Separated, Submitted, Moved, AllowedTargets, RevisionStates
    <2>8. QED
      BY <2>4, <2>5, <2>6, <2>7 DEF RevisionStates
  <1>5. ASSUME NEW t \in Tabs, Accepts(t, r, "released"), rev'[r] = Failed(rev[r], tab[t].user)
        PROVE  Separated(rev'[r]) /\ Submitted(rev'[r])
    <2> DEFINE u == tab[t].user
    <2>1. u \in Users /\ u # NoUser
      BY <1>5, AcceptsFacts, UsersAssumption
    <2>2. "released" \in AllowedTargets[rev[r].state] /\ DutiesSeparated(u, rev[r], "released")
      BY <1>5 DEF Accepts
    <2>3. rev[r].state \in RevisionStates
      BY <1>5, AcceptsFacts
    <2>4. rev[r].state = "release_pending"
      BY <2>2, <2>3 DEF AllowedTargets, RevisionStates
    <2>5. QED
      BY <1>5, <2>1, <2>2, <2>4 DEF Separated, Submitted, Failed, DutiesSeparated
  <1>6. QED
    BY <1>1, <1>2, <1>3, <1>4, <1>5, StepOfRow DEF RowStep

\* Submitter, reviewer and publisher of a revision are different people in every
\* reachable state, for any users, role history, and interleaving of requests.
THEOREM DutiesAreSeparated == Spec => []SeparationOfDuties
  <1>1. Init => DutyInv
    BY DEF Init, DutyInv, Separated, Submitted, DraftRow, AbsentRow
  <1>2. DutyInv => SeparationOfDuties
    BY DEF DutyInv, Separated, SeparationOfDuties
  <1>3. QED
    BY <1>1, <1>2, DutyStep, PartsAreTyped, PTL DEF Spec

-----------------------------------------------------------------------------
(* The publication record agrees with the revision.                        *)

LEMMA PublishedStep ==
  TypeOK /\ PublishedWhenReleased /\ [Next]_vars => PublishedWhenReleased'
  <1> SUFFICES ASSUME TypeOK, PublishedWhenReleased, [Next]_vars, NEW r \in RevIds
               PROVE  publication'[r] = "published" <=> rev'[r].state \in {"released", "obsolete"}
    BY DEF PublishedWhenReleased
  <1> /\ rev[r] \in Row /\ TypeOK
      /\ publication[r] = "published" <=> rev[r].state \in {"released", "obsolete"}
    BY DEF PublishedWhenReleased, TypeOK
  <1>1. CASE UNCHANGED <<rev[r], publication[r]>>
    BY <1>1
  <1>2. CASE rev[r].state = "absent" /\ rev'[r].state = "draft" /\ UNCHANGED publication[r]
    BY <1>2
  <1>3. CASE /\ rev[r].state = "draft"
             /\ rev'[r] \in {Edited(rev[r]), Bumped(Edited(rev[r]))}
             /\ UNCHANGED publication[r]
    BY <1>3, EditedType
  <1>4. ASSUME NEW t \in Tabs, NEW target \in RevisionStates, Accepts(t, r, target),
               rev'[r] = Moved(rev[r], tab[t].user, target),
               publication'[r] = IF target = "released" THEN "published" ELSE publication[r]
        PROVE  publication'[r] = "published" <=> rev'[r].state \in {"released", "obsolete"}
    <2>1. rev'[r].state = target
      BY <1>4 DEF Moved
    <2>2. target \in AllowedTargets[rev[r].state] /\ rev[r].state \in RevisionStates
      BY <1>4, AcceptsFacts DEF Accepts
    <2>3. target = "obsolete" <=> rev[r].state = "released"
      BY <2>2 DEF AllowedTargets, RevisionStates
    <2>4. rev[r].state # "obsolete"
      BY <2>2 DEF AllowedTargets
    <2>5. QED
      BY <1>4, <2>1, <2>3, <2>4
  <1>5. ASSUME NEW t \in Tabs, rev'[r] = Failed(rev[r], tab[t].user), publication'[r] = "failed"
        PROVE  publication'[r] = "published" <=> rev'[r].state \in {"released", "obsolete"}
    BY <1>5 DEF Failed
  <1>6. QED
    BY <1>1, <1>2, <1>3, <1>4, <1>5, StepOfRow DEF RowStep

\* A revision is released or retired exactly when its publication is published.
THEOREM PublicationAgrees == Spec => []PublishedWhenReleased
  <1>1. Init => PublishedWhenReleased
    BY DEF Init, PublishedWhenReleased, DraftRow, AbsentRow
  <1>2. QED
    BY <1>1, PublishedStep, PartsAreTyped, PTL DEF Spec

-----------------------------------------------------------------------------
(* What an If-Match header protects.                                       *)

\* What one revision page shows, against the row it was read from.
PageInv(page, row) ==
  /\ page.seen.row_version <= row.row_version
  /\ page.seen.row_version = row.row_version =>
       /\ [page.seen EXCEPT !.content = row.content] = row
       /\ row.state # "draft" => page.seen = row

\* A row changes its version, or is a draft whose attachments changed, or is new.
LEMMA StepOfVersion ==
  ASSUME TypeOK, [Next]_vars, NEW r \in RevIds, Exists(rev, r)
  PROVE  \/ rev'[r] = rev[r]
         \/ rev[r].state = "draft" /\ rev'[r] = Edited(rev[r])
         \/ rev'[r].row_version > rev[r].row_version
  <1> TypeOK /\ rev[r] \in Row /\ rev[r].row_version \in Nat
    BY DEF TypeOK, Row
  <1>1. CASE /\ rev[r].state = "draft"
             /\ rev'[r] \in {Edited(rev[r]), Bumped(Edited(rev[r]))}
    BY <1>1, EditedType
  <1>2. ASSUME NEW u, NEW target, rev'[r] \in {Moved(rev[r], u, target), Failed(rev[r], u)}
        PROVE  rev'[r].row_version > rev[r].row_version
    BY <1>2 DEF Moved, Failed
  <1>3. QED
    BY <1>1, <1>2, StepOfRow DEF RowStep, Exists

LEMMA PageStep ==
  ASSUME TypeOK, [Next]_vars, NEW page \in RevisionPage, PageInv(page, rev[page.rev]),
         Exists(rev, page.rev)
  PROVE  PageInv(page, rev'[page.rev])
  <1> DEFINE r == page.rev
             row == rev[r]
             seen == page.seen
  <1> r \in RevIds /\ row \in Row /\ seen \in Row /\ rev'[r] \in Row
    BY TypeStep DEF RevisionPage, TypeOK
  <1>1. CASE rev'[r] = row
    BY <1>1
  <1>2. CASE row.state = "draft" /\ rev'[r] = Edited(row)
    <2>1. rev'[r].row_version = row.row_version /\ rev'[r].state = "draft"
      BY <1>2, EditedType
    <2>2. ASSUME seen.row_version = row.row_version
          PROVE  [seen EXCEPT !.content = rev'[r].content] = rev'[r]
      BY <1>2, <2>2 DEF PageInv, Edited, Row
    <2>3. QED
      BY <2>1, <2>2 DEF PageInv
  <1>3. CASE rev'[r].row_version > row.row_version
    <2>1. row.row_version \in Nat /\ seen.row_version \in Nat /\ rev'[r].row_version \in Nat
      BY DEF Row
    <2>2. seen.row_version <= row.row_version
      BY DEF PageInv
    <2>3. QED
      BY <1>3, <2>1, <2>2 DEF PageInv
  <1>4. QED
    BY <1>1, <1>2, <1>3, StepOfVersion

\* Every revision page shows an existing revision, and no row from its future.
PagesInv ==
  \A t \in Tabs :
    tab[t].page = "revision" =>
      Exists(rev, tab[t].rev) /\ PageInv(tab[t], rev[tab[t].rev])

LEMMA ExistsStep ==
  ASSUME TypeOK, [Next]_vars, NEW r \in RevIds, Exists(rev, r)
  PROVE  Exists(rev', r)
  <1>1. ASSUME NEW t \in Tabs, NEW target \in RevisionStates,
               rev'[r] \in {Moved(rev[r], tab[t].user, target), Failed(rev[r], tab[t].user)}
        PROVE  Exists(rev', r)
    BY <1>1 DEF Moved, Failed, Exists, RevisionStates
  <1>2. CASE rev[r].state = "draft" /\ rev'[r] \in {Edited(rev[r]), Bumped(Edited(rev[r]))}
    BY <1>2, EditedType DEF TypeOK, Exists
  <1>3. QED
    BY <1>1, <1>2, StepOfRow DEF RowStep, Exists

\* A step leaves a tab, closes it, or fills it with what it has just fetched.
LEMMA TabStep ==
  ASSUME TypeOK, [Next]_vars, NEW t \in Tabs
  PROVE  \/ tab'[t] = tab[t]
         \/ tab'[t] = Closed
         \/ tab'[t].page = "part"
         \/ /\ tab'[t].page = "revision"
            /\ Exists(rev, tab'[t].rev) /\ tab'[t].seen = rev[tab'[t].rev]
            /\ tab'[t].rev \in RevIds
            /\ UNCHANGED rev
  <1> USE DEF TypeOK
  <1>1. ASSUME NEW t2 \in Tabs, NEW u \in Users, NEW r \in RevIds, OpenRevision(t2, u, r)
        PROVE  \/ tab'[t] = tab[t]
               \/ /\ tab'[t].page = "revision"
                  /\ Exists(rev, tab'[t].rev) /\ tab'[t].seen = rev[tab'[t].rev]
                  /\ tab'[t].rev \in RevIds
                  /\ UNCHANGED rev
    BY <1>1 DEF OpenRevision
  <1>2. ASSUME NEW t2 \in Tabs, NEW u \in Users, OpenPart(t2, u)
        PROVE  tab'[t] = tab[t] \/ tab'[t].page = "part"
    BY <1>2 DEF OpenPart
  <1>3. ASSUME NEW t2 \in Tabs, CloseTab(t2)
        PROVE  tab'[t] = tab[t] \/ tab'[t] = Closed
    BY <1>3 DEF CloseTab
  <1>4. QED
    BY <1>1, <1>2, <1>3
    DEF Next, LeaveTab, Transition, Release, ReleaseFails, CreateRevision, UpdateDraft,
        EditAttachments, BeginDestroy, EndDestroy, BeginUpdate, EndUpdate, BeginImport,
        EndImport, FailImport, vars

LEMMA PagesStep == TypeOK /\ PagesInv /\ [Next]_vars => PagesInv'
  <1> SUFFICES ASSUME TypeOK, PagesInv, [Next]_vars, NEW t \in Tabs,
                      tab'[t].page = "revision"
               PROVE  Exists(rev', tab'[t].rev) /\ PageInv(tab'[t], rev'[tab'[t].rev])
    BY DEF PagesInv
  <1>1. CASE tab'[t] = tab[t]
    <2>1. tab[t] \in RevisionPage /\ tab[t].rev \in RevIds
      BY <1>1 DEF TypeOK, PartPage, RevisionPage, Closed
    <2>2. Exists(rev, tab[t].rev) /\ PageInv(tab[t], rev[tab[t].rev])
      BY <1>1 DEF PagesInv
    <2>3. QED
      BY <1>1, <2>1, <2>2, PageStep, ExistsStep
  <1>2. CASE /\ Exists(rev, tab'[t].rev) /\ tab'[t].seen = rev[tab'[t].rev]
             /\ tab'[t].rev \in RevIds /\ UNCHANGED rev
    <2> DEFINE row == rev[tab'[t].rev]
    <2>1. row \in Row
      BY <1>2 DEF TypeOK
    <2>2. row.row_version <= row.row_version /\ [row EXCEPT !.content = row.content] = row
      BY <2>1 DEF Row
    <2>3. QED
      BY <1>2, <2>2 DEF PageInv, Exists
  <1>3. QED
    BY <1>1, <1>2, TabStep DEF Closed

LEMMA PagesAlways == Spec => []PagesInv
  <1>1. Init => PagesInv
    BY DEF Init, PagesInv, Closed
  <1>2. QED
    BY <1>1, PagesStep, PartsAreTyped, PTL DEF Spec

\* A row_version that still matches names the row the client saw; outside draft it
\* names the attachments too.
THEOREM TagsIdentifyRevisions == Spec => []TagIdentifiesRevision
  <1>1. PagesInv => TagIdentifiesRevision
    BY DEF PagesInv, PageInv, TagIdentifiesRevision
  <1>2. QED
    BY <1>1, PagesAlways, PTL

\* Every decision about a revision under review, approved or released was taken on
\* the row as it is.
THEOREM InformedDecisions == Spec => DecisionsAreInformed
  <1>1. TypeOK /\ PagesInv /\ [Next]_vars =>
          [\A t \in Tabs, r \in RevIds :
             /\ tab[t].page = "revision" /\ tab'[t] = Closed /\ tab[t].rev = r
             /\ rev[r].state \notin {"draft", "absent"}
             /\ rev'[r].state # rev[r].state
             => tab[t].seen = rev[r]]_vars
    <2> SUFFICES ASSUME TypeOK, PagesInv, [Next]_vars, NEW t \in Tabs, NEW r \in RevIds,
                        tab[t].page = "revision", tab'[t] = Closed, tab[t].rev = r,
                        rev[r].state \notin {"draft", "absent"}, rev'[r].state # rev[r].state
                 PROVE  tab[t].seen = rev[r]
      OBVIOUS
    <2> USE DEF TypeOK
    <2>1. PageInv(tab[t], rev[r])
      BY DEF PagesInv
    <2>2. tab[t].seen.row_version = rev[r].row_version
      <3>1. ASSUME NEW t2 \in Tabs, NEW r2 \in RevIds, NEW target \in RevisionStates,
                   Transition(t2, r2, target)
            PROVE  tab[t].seen.row_version = rev[r].row_version
        <4>1. t2 = t
          BY <3>1 DEF Transition, CloseTab, Closed
        <4>2. QED
          BY <3>1, <4>1 DEF Transition, Accepts, Matches
      <3>2. ASSUME NEW t2 \in Tabs, NEW r2 \in RevIds, Release(t2, r2) \/ ReleaseFails(t2, r2)
            PROVE  tab[t].seen.row_version = rev[r].row_version
        <4>1. t2 = t
          BY <3>2 DEF Release, ReleaseFails, CloseTab, Closed
        <4>2. QED
          BY <3>2, <4>1 DEF Release, ReleaseFails, Accepts, Matches
      <3>3. ASSUME NEW t2 \in Tabs, NEW r2 \in RevIds,
                   CreateRevision(t2, r2) \/ UpdateDraft(t2, r2) \/ EditAttachments(t2, r2)
            PROVE  FALSE
        BY <3>3 DEF CreateRevision, UpdateDraft, EditAttachments, MayEdit, Exists
      <3>4. ASSUME NEW i \in Importers, NEW r2 \in RevIds, EndImport(i, r2)
            PROVE  FALSE
        BY <3>4 DEF EndImport, Exists
      <3>5. QED
        BY <3>1, <3>2, <3>3, <3>4
        DEF Next, OpenRevision, OpenPart, LeaveTab, BeginDestroy, EndDestroy, BeginUpdate,
            EndUpdate, BeginImport, FailImport, vars
    <2>3. QED
      BY <2>1, <2>2 DEF PageInv
  <1>2. QED
    BY <1>1, PartsAreTyped, PagesAlways, PTL DEF DecisionsAreInformed, Spec

-----------------------------------------------------------------------------
(* What stays as it is, and what follows.                                  *)

\* From approval on the content, the submitter and the reviewer of a revision are
\* fixed.
THEOREM ReviewIsFinal == Spec => ReviewedContentFrozen
  <1>1. ASSUME TypeOK, [Next]_vars, NEW r \in RevIds,
               rev[r].state \in {"approved", "release_pending", "released", "release_failed",
                                 "obsolete"}
        PROVE  /\ rev'[r].content = rev[r].content
               /\ rev'[r].submitter = rev[r].submitter
               /\ rev'[r].reviewer = rev[r].reviewer
    <2>1. ASSUME NEW t \in Tabs, NEW target \in RevisionStates, Accepts(t, r, target),
                 rev'[r] = Moved(rev[r], tab[t].user, target)
          PROVE  /\ rev'[r].content = rev[r].content
                 /\ rev'[r].submitter = rev[r].submitter
                 /\ rev'[r].reviewer = rev[r].reviewer
      <3>1. target \in AllowedTargets[rev[r].state]
        BY <2>1 DEF Accepts
      <3>2. target # "pending_review" /\ (target = "approved" => Abandoning(rev[r], target))
        BY <1>1, <3>1 DEF AllowedTargets, Abandoning
      <3>3. QED
        BY <2>1, <3>2 DEF Moved
    <2>2. ASSUME NEW u, rev'[r] = Failed(rev[r], u)
          PROVE  /\ rev'[r].content = rev[r].content
                 /\ rev'[r].submitter = rev[r].submitter
                 /\ rev'[r].reviewer = rev[r].reviewer
      BY <2>2 DEF Failed
    <2>3. QED
      BY <1>1, <2>1, <2>2, StepOfRow DEF RowStep
  <1>2. TypeOK /\ [Next]_vars =>
          [\A r \in RevIds :
             rev[r].state \in {"approved", "release_pending", "released", "release_failed",
                               "obsolete"}
             => /\ rev'[r].content = rev[r].content
                /\ rev'[r].submitter = rev[r].submitter
                /\ rev'[r].reviewer = rev[r].reviewer]_vars
    BY <1>1
  <1>3. QED
    BY <1>2, PartsAreTyped, PTL DEF ReviewedContentFrozen, Spec

-----------------------------------------------------------------------------
(* Part.status, which several handlers write.                              *)

Listed(status, rv) ==
  /\ status = "released" => Released(rv)
  /\ Released(rv) => status \in {"released", "obsolete"}

\* A copy of the Part row is not ahead of it, and still shows its status if no write came since.
Behind(copy) ==
  /\ copy.row_version <= part.row_version
  /\ copy.row_version = part.row_version => copy.status = part.status

\* While no destroy wrote over a newer row, row_versions only rise; so an update whose
\* If-Match passes holds an instance that is not out of date.
ListInv ==
  ~overwritten =>
    /\ Listed(part.status, rev)
    /\ \A t \in Tabs : tab[t].page = "part" => tab[t].seen.row_version <= part.row_version
    /\ \A q \in Requests : request[q].op \in {"destroy", "update"} =>
         Behind(request[q].instance) /\ request[q].tag <= request[q].instance.row_version

\* The steps by what they do to the Part row.
LEMMA PartSteps ==
  ASSUME TypeOK, [Next]_vars
  PROVE  \/ SyncPart /\ UNCHANGED <<request, overwritten>>
         \/ /\ part' = part \/ part' = [part EXCEPT !.row_version = @ + 1]
            /\ UNCHANGED overwritten
            /\ Released(rev') <=> Released(rev)
         \/ \E q \in Requests : EndDestroy(q) \/ EndUpdate(q)
  <1> USE DEF TypeOK
  <1>1. ASSUME \A r \in RevIds : rev'[r].state = "released" <=> rev[r].state = "released"
        PROVE  Released(rev') <=> Released(rev)
    BY <1>1 DEF Released
  <1>2. ASSUME NEW t \in Tabs, NEW r \in RevIds, NEW target \in RevisionStates,
               Transition(t, r, target)
        PROVE  SyncPart /\ UNCHANGED <<request, overwritten>>
    BY <1>2 DEF Transition
  <1>3. ASSUME NEW t \in Tabs, NEW r \in RevIds, Release(t, r)
        PROVE  SyncPart /\ UNCHANGED <<request, overwritten>>
    BY <1>3 DEF Release
  <1>4. ASSUME NEW t \in Tabs, NEW r \in RevIds, ReleaseFails(t, r)
        PROVE  /\ UNCHANGED <<part, overwritten>>
               /\ Released(rev') <=> Released(rev)
    <2>1. "released" \in AllowedTargets[rev[r].state] /\ rev[r] \in Row
      BY <1>4 DEF ReleaseFails, Accepts
    <2>2. rev[r].state = "release_pending"
      BY <2>1 DEF AllowedTargets, Row, RevisionStates
    <2>3. \A s \in RevIds : rev'[s].state = "released" <=> rev[s].state = "released"
      BY <1>4, <2>2 DEF ReleaseFails, Failed
    <2>4. QED
      BY <1>1, <1>4, <2>3 DEF ReleaseFails
  <1>5. ASSUME NEW t \in Tabs, NEW r \in RevIds, CreateRevision(t, r)
        PROVE  /\ part' = [part EXCEPT !.row_version = @ + 1] /\ UNCHANGED overwritten
               /\ Released(rev') <=> Released(rev)
    <2>1. \A s \in RevIds : rev'[s].state = "released" <=> rev[s].state = "released"
      BY <1>5 DEF CreateRevision, Exists, DraftRow, AbsentRow
    <2>2. QED
      BY <1>1, <1>5, <2>1 DEF CreateRevision
  <1>6. ASSUME NEW t \in Tabs, NEW r \in RevIds, UpdateDraft(t, r) \/ EditAttachments(t, r)
        PROVE  /\ UNCHANGED <<part, overwritten>>
               /\ Released(rev') <=> Released(rev)
    <2>1. \A s \in RevIds : rev'[s].state = "released" <=> rev[s].state = "released"
      BY <1>6 DEF UpdateDraft, EditAttachments, MayEdit, Edited, Bumped, Row
    <2>2. QED
      BY <1>1, <1>6, <2>1 DEF UpdateDraft, EditAttachments
  <1>7. ASSUME NEW q \in Importers, NEW r \in RevIds, EndImport(q, r)
        PROVE  /\ UNCHANGED <<part, overwritten>>
               /\ Released(rev') <=> Released(rev)
    <2>1. \A s \in RevIds : rev'[s].state = "released" <=> rev[s].state = "released"
      BY <1>7 DEF EndImport, Exists, Edited, DraftRow, AbsentRow, Row
    <2>2. QED
      BY <1>1, <1>7, <2>1 DEF EndImport
  <1>8. ASSUME UNCHANGED <<part, rev, overwritten>>
        PROVE  /\ UNCHANGED <<part, overwritten>>
               /\ Released(rev') <=> Released(rev)
    BY <1>8 DEF Released
  <1>9. QED
    BY <1>2, <1>3, <1>4, <1>5, <1>6, <1>7, <1>8
    DEF Next, OpenRevision, OpenPart, LeaveTab, BeginDestroy, BeginUpdate, BeginImport,
        FailImport, vars

\* As long as none is overwritten, a Part row that is written has a new row_version.
LEMMA PartRises ==
  ASSUME TypeOK, [Next]_vars, ~overwritten'
  PROVE  /\ ~overwritten
         /\ part' = part \/ part'.row_version = part.row_version + 1
  <1>1. CASE SyncPart /\ UNCHANGED <<request, overwritten>>
    BY <1>1 DEF SyncPart, SyncedPart
  <1>2. CASE /\ part' = part \/ part' = [part EXCEPT !.row_version = @ + 1]
             /\ UNCHANGED overwritten
    BY <1>2 DEF TypeOK, PartRow
  <1>3. ASSUME NEW q \in Requests, EndDestroy(q)
        PROVE  ~overwritten /\ part'.row_version = part.row_version + 1
    BY <1>3 DEF EndDestroy
  <1>4. ASSUME NEW q \in Requests, EndUpdate(q)
        PROVE  ~overwritten /\ (part' = part \/ part'.row_version = part.row_version + 1)
    BY <1>4 DEF EndUpdate
  <1>5. QED
    BY <1>1, <1>2, <1>3, <1>4, PartSteps

\* A page or a request is left as it was, or shows the Part as it is.
LEMMA CopySteps ==
  ASSUME TypeOK, [Next]_vars
  PROVE  /\ \A t \in Tabs : tab'[t].page = "part" =>
              tab'[t] = tab[t] \/ (tab'[t].seen = part /\ part' = part)
         /\ \A q \in Requests : request'[q].op \in {"destroy", "update"} =>
              \/ request'[q] = request[q]
              \/ /\ request'[q].instance = part /\ part' = part
                 /\ \E t \in Tabs : tab[t].page = "part" /\ request'[q].tag = tab[t].seen.row_version
  <1> USE DEF TypeOK
  <1>1. ASSUME NEW t \in Tabs, NEW u \in Users, OpenPart(t, u)
        PROVE  \A s \in Tabs : tab'[s] = tab[s] \/ (tab'[s].seen = part /\ part' = part)
    BY <1>1 DEF OpenPart
  <1>2. ASSUME NEW t \in Tabs, NEW u \in Users, NEW r \in RevIds, OpenRevision(t, u, r)
        PROVE  \A s \in Tabs : tab'[s].page = "part" => tab'[s] = tab[s]
    BY <1>2 DEF OpenRevision
  <1>3. ASSUME NEW t \in Tabs, CloseTab(t)
        PROVE  \A s \in Tabs : tab'[s].page = "part" => tab'[s] = tab[s]
    BY <1>3 DEF CloseTab, Closed
  <1>4. \A t \in Tabs : tab'[t].page = "part" =>
          tab'[t] = tab[t] \/ (tab'[t].seen = part /\ part' = part)
    BY <1>1, <1>2, <1>3
    DEF Next, LeaveTab, Transition, Release, ReleaseFails, CreateRevision, UpdateDraft,
        EditAttachments, BeginDestroy, EndDestroy, BeginUpdate, EndUpdate, BeginImport,
        EndImport, FailImport, vars
  <1>5. ASSUME NEW q \in Requests, NEW t \in Tabs, BeginDestroy(q, t) \/ BeginUpdate(q, t)
        PROVE  \A s \in Requests :
                 \/ request'[s] = request[s]
                 \/ /\ request'[s].instance = part /\ part' = part
                    /\ \E v \in Tabs : tab[v].page = "part"
                                       /\ request'[s].tag = tab[v].seen.row_version
    BY <1>5 DEF BeginDestroy, BeginUpdate, PartMatches
  <1>6. ASSUME NEW q \in Requests \cup Importers,
               request' \in {[request EXCEPT ![q] = Idle], [request EXCEPT ![q] = Importing]}
        PROVE  \A s \in Requests : request'[s].op \in {"destroy", "update"} =>
                 request'[s] = request[s]
    BY <1>6 DEF Idle, Importing
  <1>7. \A q \in Requests : request'[q].op \in {"destroy", "update"} =>
          \/ request'[q] = request[q]
          \/ /\ request'[q].instance = part /\ part' = part
             /\ \E t \in Tabs : tab[t].page = "part" /\ request'[q].tag = tab[t].seen.row_version
    BY <1>5, <1>6
    DEF Next, OpenRevision, OpenPart, LeaveTab, Transition, Release, ReleaseFails,
        CreateRevision, UpdateDraft, EditAttachments, EndDestroy, EndUpdate, BeginImport,
        EndImport, FailImport, vars
  <1>8. QED
    BY <1>4, <1>7

LEMMA RequestTypes ==
  ASSUME TypeOK, NEW q \in Requests, request[q].op \in {"destroy", "update"}
  PROVE  request[q] \in Handling /\ request[q].tag \in Nat /\ request[q].instance \in PartRow
BY DEF TypeOK, Handling, Importing, Idle

LEMMA ListStep == TypeOK /\ ListInv /\ [Next]_vars => ListInv'
  <1> SUFFICES ASSUME TypeOK, ListInv, [Next]_vars, ~overwritten'
               PROVE  ListInv'
    BY DEF ListInv
  <1>1. /\ ~overwritten
        /\ part' = part \/ part'.row_version = part.row_version + 1
        /\ part.row_version \in Nat
    BY PartRises DEF TypeOK, PartRow
  <1>2. /\ Listed(part.status, rev)
        /\ \A t \in Tabs : tab[t].page = "part" => tab[t].seen.row_version <= part.row_version
        /\ \A q \in Requests : request[q].op \in {"destroy", "update"} =>
             Behind(request[q].instance) /\ request[q].tag <= request[q].instance.row_version
    BY <1>1 DEF ListInv
  <1>3. \A t \in Tabs : tab'[t].page = "part" => tab'[t].seen.row_version <= part'.row_version
    <2> SUFFICES ASSUME NEW t \in Tabs, tab'[t].page = "part"
                 PROVE  tab'[t].seen.row_version <= part'.row_version
      OBVIOUS
    <2>1. CASE tab'[t] = tab[t]
      <3>1. tab[t].seen.row_version \in Nat
        BY <2>1 DEF TypeOK, PartPage, RevisionPage, Closed, PartRow
      <3>2. QED
        BY <1>1, <1>2, <2>1, <3>1
    <2>2. CASE tab'[t].seen = part /\ part' = part
      BY <1>1, <2>2
    <2>3. QED
      BY <2>1, <2>2, CopySteps
  <1>4. ASSUME NEW q \in Requests, request'[q].op \in {"destroy", "update"}
        PROVE  Behind(request[q].instance)' /\ request'[q].tag <= request'[q].instance.row_version
    <2>1. CASE request'[q] = request[q]
      <3>1. request[q].instance.row_version \in Nat
        BY <1>4, <2>1, RequestTypes DEF PartRow
      <3>2. QED
        BY <1>1, <1>2, <1>4, <2>1, <3>1 DEF Behind
    <2>2. ASSUME NEW t \in Tabs, request'[q].instance = part, part' = part,
                 tab[t].page = "part", request'[q].tag = tab[t].seen.row_version
          PROVE  Behind(request[q].instance)' /\ request'[q].tag <= request'[q].instance.row_version
      BY <1>1, <1>2, <2>2 DEF Behind
    <2>3. QED
      BY <1>4, <2>1, <2>2, CopySteps
  <1>5. Listed(part.status, rev)'
    <2>1. CASE SyncPart
      <3>1. part'.status = "released" <=> Released(rev')
        BY <2>1, SyncPartStatus
      <3>2. QED
        BY <3>1 DEF Listed
    <2>2. CASE /\ part' = part \/ part' = [part EXCEPT !.row_version = @ + 1]
               /\ Released(rev') <=> Released(rev)
      <3>1. part'.status = part.status
        BY <2>2 DEF TypeOK, PartRow
      <3>2. QED
        BY <1>2, <2>2, <3>1 DEF Listed
    <2>3. ASSUME NEW q \in Requests, EndDestroy(q)
          PROVE  Listed(part.status, rev)'
      BY <2>3 DEF EndDestroy, Listed
    <2>4. ASSUME NEW q \in Requests, EndUpdate(q)
          PROVE  Listed(part.status, rev)'
      <3>1. request[q].op = "update" /\ rev' = rev
        BY <2>4 DEF EndUpdate
      <3>2. request[q].tag \in Nat /\ request[q].instance.row_version \in Nat
        BY <3>1, RequestTypes DEF PartRow
      <3>3. TagHolds(q) => request[q].instance.status = part.status
        BY <1>1, <1>2, <3>1, <3>2 DEF TagHolds, Behind
      <3>4. part'.status = part.status
        BY <2>4, <3>3 DEF EndUpdate
      <3>5. QED
        BY <1>2, <3>1, <3>4 DEF Listed, Released
    <2>5. QED
      BY <2>1, <2>2, <2>3, <2>4, PartSteps
  <1>6. QED
    BY <1>3, <1>4, <1>5 DEF ListInv

\* Whatever handlers run side by side, Part.status agrees with the revisions of the Part as
\* long as no destroy has written over a newer row.
THEOREM StatusFollows == Spec => []StatusFollowsRevisions
  <1>1. Init => ListInv
    BY DEF Init, ListInv, Listed, Released, DraftRow, AbsentRow, Closed, Idle
  <1>2. ListInv => StatusFollowsRevisions
    BY DEF ListInv, Listed, StatusFollowsRevisions
  <1>3. QED
    BY <1>1, <1>2, ListStep, PartsAreTyped, PTL DEF Spec

-----------------------------------------------------------------------------
(* The workflow implements FourEyes.                                       *)

\* What a step does to one revision, in terms of its approval.
Follows(r) == [Approval(r)!Next]_(Approval(r)!vars)

\* Every accepted transition is a step of the approval, or invisible there.
LEMMA MovedFollows ==
  ASSUME TypeOK, NEW r \in RevIds, NEW t \in Tabs, NEW target \in RevisionStates,
         Accepts(t, r, target), rev'[r] = Moved(rev[r], tab[t].user, target)
  PROVE  Follows(r)
  <1> DEFINE u == tab[t].user
  <1> USE DEF Stage, Author, Reviewer, Publisher
  <1>1. u \in Users /\ target \in AllowedTargets[rev[r].state] /\ DutiesSeparated(u, rev[r], target)
        /\ rev[r].state \in RevisionStates
    BY AcceptsFacts DEF Accepts
  <1>2. /\ rev'[r].state = target
        /\ rev'[r].submitter = IF target = "pending_review" THEN u ELSE rev[r].submitter
        /\ rev'[r].reviewer =
             IF target = "approved" /\ ~Abandoning(rev[r], target) THEN u ELSE rev[r].reviewer
        /\ rev'[r].publisher =
             IF target \in {"release_pending", "released", "obsolete"} THEN u ELSE rev[r].publisher
    BY DEF Moved
  <1>3. CASE target = "pending_review"
    <2>1. rev[r].state = "draft"
      BY <1>1, <1>3 DEF AllowedTargets, RevisionStates
    <2>2. Approval(r)!Submit(u)
      BY <1>2, <1>3, <2>1 DEF Approval!Submit
    <2>3. QED
      BY <1>1, <2>2 DEF Follows, Approval!Next
  <1>4. CASE target \in {"draft", "rejected"}
    <2>1. CASE rev[r].state = "pending_review"
      BY <1>2, <1>4, <2>1 DEF Follows, Approval!Next, Approval!Return, Approval!Unsigned
    <2>2. CASE rev[r].state = "rejected"
      BY <1>2, <1>4, <2>2 DEF Follows, Approval!vars
    <2>3. QED
      BY <1>1, <1>4, <2>1, <2>2 DEF AllowedTargets, RevisionStates
  <1>5. CASE target = "approved" /\ rev[r].state = "pending_review"
    <2>1. Approval(r)!Approve(u)
      BY <1>1, <1>2, <1>5 DEF Approval!Approve, DutiesSeparated, Abandoning
    <2>2. QED
      BY <1>1, <2>1 DEF Follows, Approval!Next
  <1>6. CASE target = "approved" /\ rev[r].state = "release_failed"
    <2>1. Approval(r)!Abandon
      BY <1>2, <1>6 DEF Approval!Abandon, Abandoning
    <2>2. QED
      BY <2>1 DEF Follows, Approval!Next
  <1>7. CASE target = "release_pending"
    <2>1. rev[r].state \in {"approved", "release_failed"}
      BY <1>1, <1>7 DEF AllowedTargets, RevisionStates
    <2>2. Approval(r)!Publish(u)
      BY <1>1, <1>2, <1>7, <2>1 DEF Approval!Publish, Approval!MayPublish, DutiesSeparated
    <2>3. QED
      BY <1>1, <2>2 DEF Follows, Approval!Next
  <1>8. CASE target = "released"
    <2>1. rev[r].state = "release_pending"
      BY <1>1, <1>8 DEF AllowedTargets, RevisionStates
    <2>2. Approval(r)!Release(u)
      BY <1>1, <1>2, <1>8, <2>1 DEF Approval!Release, Approval!MayPublish, DutiesSeparated
    <2>3. QED
      BY <1>1, <2>2 DEF Follows, Approval!Next
  <1>9. CASE target = "release_failed"
    <2>1. rev[r].state = "release_pending"
      BY <1>1, <1>9 DEF AllowedTargets, RevisionStates
    <2>2. QED
      BY <1>2, <1>9, <2>1 DEF Follows, Approval!vars
  <1>10. CASE target = "obsolete"
    <2>1. rev[r].state = "released"
      BY <1>1, <1>10 DEF AllowedTargets, RevisionStates
    <2>2. Approval(r)!Retire
      BY <1>2, <1>10, <2>1 DEF Approval!Retire
    <2>3. QED
      BY <2>2 DEF Follows, Approval!Next
  <1>11. QED
    BY <1>1, <1>3, <1>4, <1>5, <1>6, <1>7, <1>8, <1>9, <1>10 DEF AllowedTargets, RevisionStates

\* A promotion that fails is another try to publish.
LEMMA FailedFollows ==
  ASSUME TypeOK, NEW r \in RevIds, NEW t \in Tabs,
         Accepts(t, r, "released"), rev'[r] = Failed(rev[r], tab[t].user)
  PROVE  Follows(r)
  <1> DEFINE u == tab[t].user
  <1>1. u \in Users /\ DutiesSeparated(u, rev[r], "released") /\ rev[r].state = "release_pending"
    BY AcceptsFacts DEF Accepts, AllowedTargets, RevisionStates
  <1>2. /\ rev'[r].state = "release_failed" /\ rev'[r].publisher = u
        /\ rev'[r].submitter = rev[r].submitter /\ rev'[r].reviewer = rev[r].reviewer
    BY DEF Failed
  <1>3. Approval(r)!Publish(u)
    BY <1>1, <1>2
    DEF Stage, Author, Reviewer, Publisher, Approval!Publish, Approval!MayPublish, DutiesSeparated
  <1>4. QED
    BY <1>1, <1>3 DEF Follows, Approval!Next

\* The workflow of every revision implements the abstract approval.
THEOREM PartsFollowFourEyes == Spec => IsFourEyes
  <1>1. ASSUME Init, NEW r \in RevIds
        PROVE  Approval(r)!Init
    <2>1. rev[r].state \in {"draft", "absent"}
      BY <1>1 DEF Init, DraftRow, AbsentRow
    <2>2. QED
      BY <2>1 DEF Stage, Author, Reviewer, Publisher, Approval!Init, Approval!Unsigned
  <1>2. ASSUME TypeOK, [Next]_vars, NEW r \in RevIds
        PROVE  Follows(r)
    <2>1. CASE UNCHANGED rev[r]
      BY <2>1 DEF Follows, Author, Reviewer, Publisher, Approval!vars
    <2>2. CASE rev[r].state \in {"absent", "draft"} /\ rev'[r].state = "draft"
      BY <2>2 DEF Stage, Author, Reviewer, Publisher, Follows, Approval!vars
    <2>3. CASE rev[r].state = "draft" /\ rev'[r] \in {Edited(rev[r]), Bumped(Edited(rev[r]))}
      <3>1. rev'[r].state = "draft"
        BY <1>2, <2>3, EditedType DEF TypeOK
      <3>2. QED
        BY <2>2, <2>3, <3>1
    <2>4. QED
      BY <1>2, <2>1, <2>2, <2>3, StepOfRow, MovedFollows, FailedFollows DEF RowStep
  <1>3. TypeOK /\ [Next]_vars =>
          [\A r \in RevIds : [Approval(r)!Next]_(Approval(r)!vars)]_rev
    BY <1>2 DEF Follows
  <1>4. Init => \A r \in RevIds : Approval(r)!Init
    BY <1>1
  <1>5. QED
    BY <1>3, <1>4, PartsAreTyped, PTL DEF Spec, IsFourEyes
=============================================================================
