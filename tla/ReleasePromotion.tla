--------------------------- MODULE ReleasePromotion ---------------------------
(***************************************************************************)
(* The release of one PartRevision as PartRevisionViewSet.transition and   *)
(* the object store carry it out.  The handler runs in one database        *)
(* transaction, but the copies it makes into the release bucket take       *)
(* effect at once and outlive a rollback.  So the transaction is spread    *)
(* over several steps: "txn" holds the rows as the handler sees them, "db" *)
(* what everybody else sees.  Between two steps the process may die, a     *)
(* copy may fail, or be made and have its answer lost, and a scan may      *)
(* change the verdict on an attachment.                                    *)
(*                                                                         *)
(* Who may ask for a transition, and row_version, are PartLifecycle's.     *)
(***************************************************************************)
EXTENDS Naturals

CONSTANTS
  Attachments, \* the attachments of the revision
  MaxUploads,  \* bound: uploads, hence AttachmentVersions, of one attachment
  Objects,     \* S3 VersionIds of the objects under one release key
  NoObject,    \* no VersionId
  MaxFaults    \* bound: crashes and failed copies

ASSUME ObjectsAssumption == NoObject \notin Objects
ASSUME UploadsAssumption == MaxUploads \in Nat \ {0}
ASSUME FaultsAssumption == MaxFaults \in Nat

VARIABLES
  latest,  \* latest[a]: number of a's latest AttachmentVersion
  current, \* current[a]: the upload that a.upload_session points to
  clear,   \* attachments whose security_state is "available"
  clean,   \* versions that are "available" and need no rescan
  bucket,  \* bucket[v][o]: the upload stored as object o under v's key, or 0
  db,      \* the committed rows of the release
  txn,     \* the release transaction in progress, or NoTxn
  faults   \* how many faults there were

vars == <<latest, current, clear, clean, bucket, db, txn, faults>>

Uploads == 1 .. MaxUploads
Versions == Attachments \X Uploads
Latest(a) == <<a, latest[a]>>

RevisionStates == {"approved", "release_pending", "released", "release_failed", "obsolete"}
Rows == [state : RevisionStates,
         activation : {"none", "pending", "promoting", "active", "failed"},
         publication : {"none", "pending", "published", "failed"},
         object : [Versions -> Objects \cup {NoObject}],
         visible : SUBSET Versions]
NoTxn == [step |-> "none"]
Txn == [step : {"gated", "copying", "ended"}, versions : SUBSET Versions,
        placements : SUBSET Versions, db : Rows]

TypeOK ==
  /\ latest \in [Attachments -> Uploads]
  /\ current \in [Attachments -> Uploads]
  /\ clear \subseteq Attachments
  /\ clean \subseteq Versions
  /\ bucket \in [Versions -> [Objects -> Uploads \cup {0}]]
  /\ db \in Rows
  /\ txn \in Txn \cup {NoTxn}
  /\ faults \in 0 .. MaxFaults

\* An approved revision whose attachments have any history of uploads and scans.
\* An attachment may point back to an earlier upload, whose version it then keeps.
Init ==
  /\ latest \in [Attachments -> Uploads]
  /\ current \in [Attachments -> Uploads]
  /\ \A a \in Attachments : current[a] <= latest[a]
  /\ clear \in SUBSET Attachments
  /\ clean \in SUBSET {v \in Versions : v[2] <= latest[v[1]]}
  /\ bucket = [v \in Versions |-> [o \in Objects |-> 0]]
  /\ db = [state |-> "approved", activation |-> "none", publication |-> "none",
           object |-> [v \in Versions |-> NoObject], visible |-> {}]
  /\ txn = NoTxn
  /\ faults = 0

-----------------------------------------------------------------------------
(* Requests other than the release, and the scanner.                       *)

\* Mutant: a failed publication can only be abandoned.
AllowedTargets_NoRetry ==
  [approved |-> {"release_pending"},
   release_pending |-> {"release_failed"},
   release_failed |-> {"approved"},
   released |-> {"obsolete"},
   obsolete |-> {}]

AllowedTargets ==
  [approved |-> {"release_pending"},
   release_pending |-> {"release_failed"},
   release_failed |-> {"release_pending", "approved"},
   released |-> {"obsolete"},
   obsolete |-> {}]

\* publish, retry_publish, abandon_publish, retire, and giving up by hand.  They
\* wait for the row lock a release holds.
Transition(target) ==
  /\ txn = NoTxn
  /\ target \in AllowedTargets[db.state]
  /\ target = "approved" => db.publication # "published"
  /\ db' = [db EXCEPT !.state = target]
  /\ UNCHANGED <<latest, current, clear, clean, bucket, txn, faults>>

\* One run of scan_attachment: the verdict goes to the attachment and to its
\* latest version, at any time because Celery may deliver the task again.
Judge(a, ok) ==
  /\ clear' = IF ok THEN clear \cup {a} ELSE clear \ {a}
  /\ clean' = IF ok THEN clean \cup {Latest(a)} ELSE clean \ {Latest(a)}
  /\ UNCHANGED <<latest, current, bucket, db, txn, faults>>

-----------------------------------------------------------------------------
(* The release.                                                            *)

\* _release_gate
Gate == \A a \in Attachments : a \in clear /\ Latest(a) \in clean

OrPending(status) == IF status = "none" THEN "pending" ELSE status

\* The gate passes; the revision is saved as released, and the publication and
\* the activation are looked up or created.
Begin ==
  /\ txn = NoTxn
  /\ db.state = "release_pending"
  /\ Gate
  /\ txn' = [step |-> "gated", versions |-> {}, placements |-> {},
             db |-> [state |-> "released",
                     activation |-> OrPending(db.activation),
                     publication |-> OrPending(db.publication),
                     object |-> db.object, visible |-> db.visible]]
  /\ UNCHANGED <<latest, current, clear, clean, bucket, db, faults>>

\* The list of versions to promote is read after the gate.
Select ==
  /\ txn.step = "gated"
  /\ txn' = [step |-> "copying", versions |-> clean, placements |-> {},
             db |-> [txn.db EXCEPT !.activation = "promoting"]]
  /\ UNCHANGED <<latest, current, clear, clean, bucket, db, faults>>

\* The loop takes an attachment's versions from the newest to the oldest.
IsNext(v) ==
  /\ txn.step = "copying"
  /\ v \in txn.versions \ txn.placements
  /\ \A w \in txn.versions \ txn.placements : w[1] = v[1] => w[2] <= v[2]

\* Mutant: the failure is noted, but the revision is left as it was saved.
Failing_StaysReleased(t) ==
  [step |-> "ended", versions |-> t.versions, placements |-> t.placements,
   db |-> [state |-> "released", activation |-> "failed", publication |-> "failed",
           object |-> t.db.object, visible |-> t.db.visible]]

\* The except clause: what was placed so far stays, and all of it is committed.
Failing(t) ==
  [step |-> "ended", versions |-> t.versions, placements |-> t.placements,
   db |-> [state |-> "release_failed", activation |-> "failed", publication |-> "failed",
           object |-> t.db.object, visible |-> t.db.visible]]

\* v has been stored as o: the placement is created, or must already name o.
Placing(t, v, o) ==
  IF t.db.object[v] \in {NoObject, o}
  THEN [step |-> "copying", versions |-> t.versions,
        placements |-> t.placements \cup {v},
        db |-> [t.db EXCEPT !.object = [@ EXCEPT ![v] = o]]]
  ELSE Failing(t)

\* A copy is a new object; one that no row refers to may be forgotten, so that
\* its identity can be used again.
Unreferenced(v, o) == o \notin {db.object[v], txn.db.object[v]}

\* What the store holds under v's key is what the attachment's session points to.
Stored(v, o) == bucket' = [bucket EXCEPT ![v] = [@ EXCEPT ![o] = current[v[1]]]]

Copy(v, o) ==
  /\ IsNext(v)
  /\ Unreferenced(v, o)
  /\ Stored(v, o)
  /\ txn' = Placing(txn, v, o)
  /\ UNCHANGED <<latest, current, clear, clean, db, faults>>

\* copy_object raises and has stored nothing.
CopyRefused(v) ==
  /\ IsNext(v)
  /\ faults < MaxFaults /\ faults' = faults + 1
  /\ txn' = Failing(txn)
  /\ UNCHANGED <<latest, current, clear, clean, bucket, db>>

\* Mutant: an empty VersionId is recorded like any other.
Unanswered_Recorded(t, v) == Placing(t, v, NoObject)

Unanswered(t, v) == Failing(t)

\* The object is stored, but copy_object raises or names no VersionId.
CopyUnanswered(v, o) ==
  /\ IsNext(v)
  /\ Unreferenced(v, o)
  /\ Stored(v, o)
  /\ faults < MaxFaults /\ faults' = faults + 1
  /\ txn' = Unanswered(txn, v)
  /\ UNCHANGED <<latest, current, clear, clean, db>>

\* Mutant: the publication takes the activation's word for it.
Opened_Active(t) ==
  [step |-> "ended", versions |-> t.versions, placements |-> t.placements,
   db |-> [state |-> "released", activation |-> "active", publication |-> "active",
           object |-> t.db.object, visible |-> t.db.visible \cup t.placements]]

\* The placements of this attempt become visible.
Opened(t) ==
  [step |-> "ended", versions |-> t.versions, placements |-> t.placements,
   db |-> [state |-> "released", activation |-> "active", publication |-> "published",
           object |-> t.db.object, visible |-> t.db.visible \cup t.placements]]

\* Mutant: the release opens inside the loop.
AllCopied_Some(t) == t.placements # {}

AllCopied(t) == t.placements = t.versions

Finish ==
  /\ txn.step = "copying"
  /\ AllCopied(txn)
  /\ txn' = Opened(txn)
  /\ UNCHANGED <<latest, current, clear, clean, bucket, db, faults>>

Commit ==
  /\ txn.step = "ended"
  /\ db' = txn.db
  /\ txn' = NoTxn
  /\ UNCHANGED <<latest, current, clear, clean, bucket, faults>>

\* The worker dies or the database gives up: the rows roll back, the objects stay.
Crash ==
  /\ txn # NoTxn
  /\ faults < MaxFaults /\ faults' = faults + 1
  /\ txn' = NoTxn
  /\ UNCHANGED <<latest, current, clear, clean, bucket, db>>

-----------------------------------------------------------------------------

Next ==
  \/ \E target \in RevisionStates : Transition(target)
  \/ \E a \in Attachments, ok \in BOOLEAN : Judge(a, ok)
  \/ Begin
  \/ Select
  \/ \E v \in Versions, o \in Objects : Copy(v, o)
  \/ \E v \in Versions : CopyRefused(v)
  \/ \E v \in Versions, o \in Objects : CopyUnanswered(v, o)
  \/ Finish
  \/ Commit
  \/ Crash

Spec == Init /\ [][Next]_vars

\* The handler runs to its end unless a fault stops it, and the publisher keeps
\* publishing, retrying and releasing for as long as it takes.
Fairness ==
  /\ WF_vars(Select)
  /\ WF_vars(\E v \in Versions, o \in Objects : Copy(v, o))
  /\ WF_vars(Finish)
  /\ WF_vars(Commit)
  /\ WF_vars(Transition("release_pending"))
  /\ SF_vars(Begin)

FairSpec == Spec /\ Fairness

-----------------------------------------------------------------------------
(* Correctness.                                                            *)

\* The revision, its ReleaseActivation and its ReleasePublication tell the same
\* story after every commit, failure and crash: all say it is out, or none does.
RecordsAgree ==
  /\ db.state \in {"released", "obsolete"} <=> db.activation = "active"
  /\ db.activation = "active" <=> db.publication = "published"
  /\ db.visible # {} => db.activation = "active"

\* A placement that was committed names an object that is in the release bucket and holds
\* the file that its attachment has, although copies and rows do not roll back together.
PlacementsExist ==
  \A v \in Versions :
    /\ db.object[v] # NoObject => bucket[v][db.object[v]] = current[v[1]]
    /\ v \in db.visible => db.object[v] # NoObject

\* attachment_views._context: what a download can be bound to.
Readable ==
  IF db.activation = "active" /\ db.publication = "published"
  THEN {<<v, db.object[v]>> : v \in db.visible}
  ELSE {}

Promoting == txn.step \in {"copying", "ended"}
Phase ==
  IF Promoting THEN "preparing"
  ELSE IF db.state = "released" THEN "open"
  ELSE IF db.state = "obsolete" THEN "retired" ELSE "closed"
Offer == IF Promoting THEN txn.versions ELSE {}

Barrier == INSTANCE ReleaseBarrier
  WITH phase <- Phase, offer <- Offer, readable <- Readable

\* The release is all or nothing for a reader, and final.
IsBarrier == Barrier!Spec

\* As long as no failed attempt has left a placement behind, crashes and refused
\* copies only delay the release: the publisher's retries succeed once the scans
\* stay clean.
NothingLeftBehind ==
  db.activation # "active" => \A v \in Versions : db.object[v] = NoObject
CrashesAreHarmless ==
  ([]NothingLeftBehind /\ <>[]Gate) => <>(db.state \in {"released", "obsolete"})

\* Retrying a failed publication publishes it in the end, once the store works and
\* the scans stay clean (retry_publish is said to be idempotent).
RetryReleases ==
  <>[]Gate => (db.state = "release_failed" ~> db.state \in {"released", "obsolete"})
=============================================================================
