---------------------------- MODULE AttachmentScan ----------------------------
(***************************************************************************)
(* One PartAttachment, the request that creates it and those that replace  *)
(* its file or its label (PartAttachmentViewSet.perform_create and         *)
(* perform_update of plm/views.py), the Celery                             *)
(* workers that scan it (scan_attachment of plm/jobs.py), and the release  *)
(* gate that relies on the outcome.                                        *)
(*                                                                         *)
(* A worker runs without a transaction: it loads the attachment and its    *)
(* session, looks up the latest version, scans the bytes of that session,  *)
(* and saves its verdict on the attachment and then on the version.  An    *)
(* editor's request has read the attachment before it takes the locks,     *)
(* saves all its columns, and sends the scan task off before it commits.   *)
(* So does the request that creates it: until then a worker finds no row.  *)
(* A creation that is rolled back leaves nothing to tell of, so this one   *)
(* is committed.                                                           *)
(*                                                                         *)
(* The labels "transparent" and "unknown" are one here ("opaque"), and so  *)
(* are "none" and "client_decrypted" ("plain").                            *)
(***************************************************************************)
EXTENDS Naturals, Sequences

CONSTANTS
  Sessions, \* completed upload sessions
  Infected, \* those whose bytes the scanner objects to
  Editors,  \* requests that update the attachment
  Workers,  \* Celery workers
  MaxEdits, \* bound: updates
  MaxLost   \* bound: tasks lost, and workers that die

ASSUME SessionsAssumption == Infected \subseteq Sessions
ASSUME BoundsAssumption == MaxEdits \in Nat /\ MaxLost \in Nat

VARIABLES
  created, \* the creation has been committed
  att,    \* the PartAttachment row
  order,  \* the sessions with an AttachmentVersion, oldest version first
  ver,    \* ver[s]: security_state of the version made for session s
  phase,  \* of the revision: being edited, in review, halfway through the gate, or out
  editor, \* editor[e]: a request in progress, or Idle
  tasks,  \* scan tasks waiting
  worker, \* worker[w]: a scan in progress, or Idle
  edits,  \* number of updates so far
  lost,   \* number of tasks and workers lost so far
  outran, \* history: the first task found no row, and no other was sent since
  misjudged \* history: a scan of what the last update replaced has given its verdict since

vars == <<created, att, order, ver, phase, editor, tasks, worker, edits, lost, outran, misjudged>>

Modes == {"plain", "opaque"}
States == {"pending", "scanning", "available", "quarantined", "unscannable", "error"}
Verdicts == {"none", "scanning", "available", "quarantined", "unscannable", "rejected"}

Row == [session : Sessions, mode : Modes, state : States]
Idle == [step |-> "idle"]
Editing == [step : {"read", "saved"}, row : Row]
Scanning == [step : {"loaded", "found", "marked", "judged"}, session : Sessions,
             mode : Modes, version : Sessions, verdict : Verdicts]

TypeOK ==
  /\ att \in Row
  /\ order \in Seq(Sessions)
  /\ ver \in [Sessions -> Verdicts]
  /\ phase \in {"draft", "review", "checked", "released"}
  /\ editor \in [Editors -> Editing \cup {Idle}]
  /\ tasks \in 0 .. MaxEdits + 1
  /\ worker \in [Workers -> Scanning \cup {Idle}]
  /\ edits \in 0 .. MaxEdits
  /\ lost \in 0 .. MaxLost
  /\ created \in BOOLEAN
  /\ outran \in BOOLEAN
  /\ misjudged \in BOOLEAN

\* perform_create has saved the row and its version and sent the task, and holds its locks.
Init ==
  /\ \E s \in Sessions, mode \in Modes :
       /\ att = [session |-> s, mode |-> mode, state |-> "pending"]
       /\ order = <<s>>
       /\ ver = [r \in Sessions |-> IF r = s THEN "scanning" ELSE "none"]
  /\ phase = "draft"
  /\ editor = [e \in Editors |-> Idle]
  /\ created = FALSE
  /\ tasks = 1
  /\ lost = 0
  /\ worker = [w \in Workers |-> Idle]
  /\ edits = 0
  /\ outran = FALSE
  /\ misjudged = FALSE

-----------------------------------------------------------------------------
(* The creation, and updates of the attachment.                            *)

CommitCreation ==
  /\ ~created
  /\ created' = TRUE
  /\ UNCHANGED <<att, order, ver, phase, editor, tasks, worker, edits, lost, outran, misjudged>>

\* The broker refuses its task: the attachment gets an error instead.
CreateUnsent ==
  /\ ~created /\ tasks = 1 /\ lost < MaxLost
  /\ created' = TRUE
  /\ att' = [att EXCEPT !.state = "error"]
  /\ tasks' = 0
  /\ lost' = lost + 1
  /\ UNCHANGED <<order, ver, phase, editor, worker, edits, outran, misjudged>>

\* PartAttachmentSerializer.validate, against the instance that was read.
Relabels(instance, s, mode) ==
  instance.mode = "opaque" /\ mode = "plain" /\ s = instance.session

\* get_object and the serializer: s and mode are the new values, or the old ones.
BeginUpdate(e, s, mode) ==
  /\ created
  /\ edits < MaxEdits
  /\ editor[e] = Idle
  /\ ~Relabels(att, s, mode)
  /\ editor' = [editor EXCEPT ![e] =
                  [step |-> "read", row |-> [session |-> s, mode |-> mode, state |-> "pending"]]]
  /\ UNCHANGED <<created, att, order, ver, phase, tasks, worker, edits, lost, outran, misjudged>>

\* Mutant: the update takes no locks.
Unlocked_Always == TRUE

\* Part, revision and attachment are locked from Save to Commit, and by the creation.
Unlocked == created /\ \A e \in Editors : editor[e].step # "saved"

\* lock_draft_revision, and the save; If-Match compares the revision's row_version,
\* which updates of attachments leave alone.  Then the task is sent.
Save(e) ==
  /\ editor[e].step = "read"
  /\ Unlocked
  /\ phase = "draft"
  /\ edits < MaxEdits
  /\ edits' = edits + 1
  /\ editor' = [editor EXCEPT ![e] = [@ EXCEPT !.step = "saved"]]
  /\ tasks' = tasks + 1
  /\ outran' = FALSE
  /\ UNCHANGED <<created, att, order, ver, phase, worker, lost, misjudged>>

\* The broker refuses the task: the attachment gets an error instead.
SaveUnsent(e) ==
  /\ editor[e].step = "read"
  /\ Unlocked
  /\ phase = "draft"
  /\ edits < MaxEdits /\ lost < MaxLost
  /\ edits' = edits + 1
  /\ lost' = lost + 1
  /\ editor' = [editor EXCEPT ![e] =
                  [step |-> "saved", row |-> [@.row EXCEPT !.state = "error"]]]
  /\ UNCHANGED <<created, att, order, ver, phase, tasks, worker, outran, misjudged>>

\* The revision is no longer a draft.
Refuse(e) ==
  /\ editor[e].step = "read"
  /\ phase # "draft"
  /\ editor' = [editor EXCEPT ![e] = Idle]
  /\ UNCHANGED <<created, att, order, ver, phase, tasks, worker, edits, lost, outran, misjudged>>

\* The update writes every column of the row, and makes a version for a new session.
Commit(e) ==
  /\ editor[e].step = "saved"
  /\ LET s == editor[e].row.session IN
     /\ att' = editor[e].row
     /\ order' = IF ver[s] = "none" THEN Append(order, s) ELSE order
     /\ ver' = IF ver[s] = "none" THEN [ver EXCEPT ![s] = "scanning"] ELSE ver
  /\ editor' = [editor EXCEPT ![e] = Idle]
  /\ misjudged' = FALSE
  /\ UNCHANGED <<created, phase, tasks, worker, edits, lost, outran>>

\* The transaction rolls back; the task stays sent.
Rollback(e) ==
  /\ editor[e].step = "saved"
  /\ editor' = [editor EXCEPT ![e] = Idle]
  /\ UNCHANGED <<created, att, order, ver, phase, tasks, worker, edits, lost, outran, misjudged>>

-----------------------------------------------------------------------------
(* scan_attachment.                                                        *)

\* The task runs before the creation is committed: DoesNotExist, and no retry.
LoadMissing(w) ==
  /\ ~created
  /\ worker[w] = Idle
  /\ tasks > 0
  /\ tasks' = tasks - 1
  /\ outran' = TRUE
  /\ UNCHANGED <<created, att, order, ver, phase, editor, worker, edits, lost, misjudged>>

Load(w) ==
  /\ created
  /\ worker[w] = Idle
  /\ tasks > 0
  /\ tasks' = tasks - 1
  /\ worker' = [worker EXCEPT ![w] =
       [step |-> "loaded", session |-> att.session, mode |-> att.mode,
        version |-> att.session, verdict |-> "none"]]
  /\ UNCHANGED <<created, att, order, ver, phase, editor, edits, lost, outran, misjudged>>

LatestVersion == order[Len(order)]

FindVersion(w) ==
  /\ worker[w].step = "loaded"
  /\ worker' = [worker EXCEPT ![w] = [@ EXCEPT !.step = "found", !.version = LatestVersion]]
  /\ UNCHANGED <<created, att, order, ver, phase, editor, tasks, edits, lost, outran, misjudged>>

Mark(w) ==
  /\ worker[w].step = "found"
  /\ Unlocked
  /\ att' = [att EXCEPT !.state = "scanning"]
  /\ worker' = [worker EXCEPT ![w] = [@ EXCEPT !.step = "marked"]]
  /\ UNCHANGED <<created, order, ver, phase, editor, tasks, edits, lost, outran, misjudged>>

\* Mutant: attachment and version share their words.
VersionWord_Same(state) == state

\* An attachment with an error has a version that is rejected.
VersionWord(state) == IF state = "error" THEN "rejected" ELSE state

\* The row still has the file and the label that the worker has loaded.
Current(w) == worker[w].session = att.session /\ worker[w].mode = att.mode

\* The verdict is saved on the attachment first.
Judge(w, state) ==
  /\ worker[w].step = "marked"
  /\ Unlocked
  /\ att' = [att EXCEPT !.state = state]
  /\ misjudged' = (misjudged \/ ~Current(w))
  /\ worker' = [worker EXCEPT ![w] = [@ EXCEPT !.step = "judged", !.verdict = VersionWord(state)]]
  /\ UNCHANGED <<created, order, ver, phase, editor, tasks, edits, lost, outran>>

Opaque(w) ==
  /\ worker[w].step = "marked"
  /\ worker[w].mode = "opaque"
  /\ Judge(w, "unscannable")

\* Mutant: a label is no reason not to believe the scanner.
Scannable_Any(w) == worker[w].step = "marked"

Scannable(w) == worker[w].step = "marked" /\ worker[w].mode = "plain"

Pass(w) ==
  /\ Scannable(w)
  /\ worker[w].session \notin Infected
  /\ Judge(w, "available")

Object(w) ==
  /\ Scannable(w)
  /\ worker[w].session \in Infected
  /\ Judge(w, "quarantined")

\* The object cannot be read or the scanner does not answer.
Fail(w) ==
  /\ Scannable(w)
  /\ Judge(w, "error")

\* The object is larger than this worker's limit: the version hears nothing of it.
Oversized(w) ==
  /\ Scannable(w)
  /\ Unlocked
  /\ att' = [att EXCEPT !.state = "error"]
  /\ worker' = [worker EXCEPT ![w] = Idle]
  /\ UNCHANGED <<created, order, ver, phase, editor, tasks, edits, lost, outran, misjudged>>

SaveVerdict(w) ==
  /\ worker[w].step = "judged"
  /\ ver' = [ver EXCEPT ![worker[w].version] = worker[w].verdict]
  /\ worker' = [worker EXCEPT ![w] = Idle]
  /\ UNCHANGED <<created, att, order, phase, editor, tasks, edits, lost, outran, misjudged>>

\* The broker loses a task.
Lose ==
  /\ tasks > 0
  /\ lost < MaxLost
  /\ lost' = lost + 1
  /\ tasks' = tasks - 1
  /\ UNCHANGED <<created, att, order, ver, phase, editor, worker, edits, outran, misjudged>>

\* The worker dies.  Its task was acknowledged when it was taken.
Die(w) ==
  /\ worker[w] # Idle
  /\ lost < MaxLost
  /\ lost' = lost + 1
  /\ worker' = [worker EXCEPT ![w] = Idle]
  /\ UNCHANGED <<created, att, order, ver, phase, editor, tasks, edits, outran, misjudged>>

-----------------------------------------------------------------------------
(* The revision.                                                           *)

Submit ==
  /\ phase = "draft"
  /\ Unlocked
  /\ phase' = "review"
  /\ UNCHANGED <<created, att, order, ver, editor, tasks, worker, edits, lost, outran, misjudged>>

SendBack ==
  /\ phase = "review"
  /\ phase' = "draft"
  /\ UNCHANGED <<created, att, order, ver, editor, tasks, worker, edits, lost, outran, misjudged>>

\* _release_gate reads the attachment, and then its versions.
CheckAttachment ==
  /\ phase = "review"
  /\ att.state = "available"
  /\ phase' = "checked"
  /\ UNCHANGED <<created, att, order, ver, editor, tasks, worker, edits, lost, outran, misjudged>>

CheckVersion ==
  /\ phase = "checked"
  /\ phase' = IF ver[LatestVersion] = "available" THEN "released" ELSE "review"
  /\ UNCHANGED <<created, att, order, ver, editor, tasks, worker, edits, lost, outran, misjudged>>

-----------------------------------------------------------------------------

Scan(w) ==
  \/ LoadMissing(w)
  \/ Load(w)
  \/ FindVersion(w)
  \/ Mark(w)
  \/ Opaque(w)
  \/ Pass(w)
  \/ Object(w)
  \/ Fail(w)
  \/ Oversized(w)
  \/ SaveVerdict(w)

Next ==
  \/ CommitCreation
  \/ CreateUnsent
  \/ \E e \in Editors, s \in Sessions, mode \in Modes : BeginUpdate(e, s, mode)
  \/ \E e \in Editors : Save(e)
  \/ \E e \in Editors : SaveUnsent(e)
  \/ \E e \in Editors : Refuse(e)
  \/ \E e \in Editors : Commit(e)
  \/ \E e \in Editors : Rollback(e)
  \/ \E w \in Workers : Scan(w)
  \/ Lose
  \/ \E w \in Workers : Die(w)
  \/ Submit
  \/ SendBack
  \/ CheckAttachment
  \/ CheckVersion

Spec == Init /\ [][Next]_vars

\* A worker goes on until its scan is done, and a transaction comes to an end.
Fairness ==
  /\ WF_vars(CommitCreation)
  /\ \A w \in Workers : WF_vars(Scan(w))
  /\ \A e \in Editors : WF_vars(Commit(e) \/ Rollback(e))

FairSpec == Spec /\ Fairness

-----------------------------------------------------------------------------
(* Correctness.                                                            *)

\* "All attachments require a clean ClamAV scan before release" (_release_gate): what
\* is out is bytes the scanner passes, under a label that lets it read them.
ReleasedIsClean ==
  phase = "released" => att.session \notin Infected /\ att.mode = "plain"

\* The gate keeps its word whatever tasks are lost, workers die, scans fail, run twice or
\* side by side, and whichever earlier file the attachment is turned back to, but for one
\* race, which the code has: a scan in progress when the file or its label was replaced, and
\* judged after, gives its verdict to what it has not read.  A later update ends this exemption.
OnlyMisjudgedSlipThrough == misjudged \/ ReleasedIsClean

\* Unless a task or a worker is lost, an attachment waits for its scan for ever in one case
\* only: its first task ran before the creation was committed, and it has not been updated since.
Waiting == att.state \in {"pending", "scanning"}
ScansEnd == [](lost = 0) => []<>(~Waiting \/ outran)
=============================================================================
