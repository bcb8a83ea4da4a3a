# PartFlow backend: a TLA+ model

The PartFlow backend is a Django REST service for parts, their revisions, bills of
materials and attachments. Requests run in parallel worker processes against
PostgreSQL; Celery workers scan files, run imports and exports and finalize large
uploads; files live in an S3-compatible store that takes no part in database
transactions. Little of what can go wrong is in a single handler: it is in the order
in which handlers, workers and the store act on the same rows. That is what these
modules model, check and prove.

Contents: [inventory](#1-inventory), [plan](#2-plan),
[how the modules correspond to the code](#3-modules-and-code),
[runs](#4-runs-bounds-and-fairness), [findings](#5-findings),
[theorems](#6-theorems), [what is not modelled](#7-what-is-not-modelled),
[how to run it](#8-running-it).

## 1. Inventory

| component | state | operations | what makes it correct |
|---|---|---|---|
| Revision workflow (`plm/views.py`, `PartViewSet`, `PartRevisionViewSet`) | `Part`, `PartRevision`, `ReleasePublication` | create, update, delete a Part; create, edit a revision; ten workflow actions | duties held by three people; nobody decides on a stale page; what was reviewed stays; status of the Part follows its revisions |
| Release activation and promotion (`transition`, `_release_gate`, `attachment_views._context`) | `ReleaseActivation`, `ObjectPlacement`, release bucket | gate, copy each version, open, fail | all copies become readable at once or none; records agree; a crash or failed copy leaves nothing visible; a retry works |
| Import jobs (`ImportJobViewSet`, `jobs.process_import_job`) | `ImportJob`, confirmation secret in the cache, Celery messages | create, preview, confirm, commit, cancel, retry, expire, update, delete | rows written once, with the permissions of the preview; an ended job stays ended, unless a client saves an older copy of it |
| Attachments and virus scan (`PartAttachmentViewSet`, `jobs.scan_attachment`) | `PartAttachment`, `AttachmentVersion` | upload, replace, relabel, scan, judge | what passes the gate was scanned and is clean; every attachment gets a verdict |
| Upload sessions (`UploadSessionViewSet`, `jobs.finalize_upload_job`) | `UploadSession`, `FinalizeJob`, multipart upload | initiate, put parts, complete, cancel, expire, finalize | what counts as complete was verified; a completed upload stays so; jobs end |
| BOM and BOM revision workflow (`BOMViewSet`, `bom_views.py`, `bom_revision_actions`) | `BOM`, `BOMRevision`, `BOMItem` | create, edit rows, import rows, workflow actions | a gate passes only what is released at every depth; what was reviewed stays; three people |
| BOM structure (`bom_services.py`) | none (reads and locks the tree) | validate an item, validate a tree | no BOM contains itself; the tree is still released when the gate is through; within budget, groups well formed |
| BOM effectivity (`bom_effectivity.py`) | `effective_range` of a revision | activate, retire, resolve | at most one revision effective at an instant; the past does not change |
| Export jobs (`ExportJobViewSet`, `jobs.run_export_job`) | `ExportJob`, export bucket | create, update, run, cancel, delete, download | what is offered is stored and is what was rendered; only what overlapped takes it back |
| Audit chain (`record_audit`, `AuditWriteMixin`) | `AuditEvent`, its locks and those of the rows audited | append | who follows the same entry takes turns; no entry that another follows is lost; appending adds one kind of deadlock |
| Sessions, login, accounts (`auth*.py`, `security_middleware.py`, `roles.py`) | `User`, `UserSecurity`, session, rate counters | login, logout, let in, assign a role, revoke, disable, restore | a revocation ends every session and every login under way; an administrator changes the account he sees; failures count |
| Downloads and licences (`attachment_views.py`) | signed licence, nonce in the cache | issue, use | once per nonce, as long as the cache keeps it; only bytes, length and object licensed; every licence can be used |
| Number register (`number_views.py`) | `NumberRequest` | register | one row per external request |
| Catalogue (categories, units) | `Category`, `Unit` | import, list | an import sees the catalogue it was previewed with |
| Spreadsheets and export formatting, review tasks, lists, timeline | none | parse, render, query | pure input and output |
| Configuration, deployment, migrations, monitoring, scripts, `runtime_templates` | none | | outside the program's own logic |

### How they interact

* A **revision** owns **attachments**; an attachment refers to an **upload session**
  that must be complete, and has one **version** per session it has had.
* Creating or replacing an attachment sends a **scan** task. The **release** step of
  the workflow reads the outcome (`_release_gate`) and copies the clean versions into
  the release bucket. **Downloads** read the placements the release left.
* An **import** writes Parts, revisions, categories and BOMs, after checking
  permissions (`UserSecurity.permission_version`) and the catalogue.
* A **BOM** revision refers to released part and BOM revisions, and its gates look at
  them, and at their attachments, again.
* Nearly every write appends to the **audit chain**, in its own transaction.
* Every request passes the **session** middleware. Roles and `permission_version` are
  read by it, by imports and by downloads.

### What is hard

* **A BOM gate is a walk.** It reads and locks a tree node by node, while what it has
  not reached yet is edited, released and retired.
* **Locks are uneven.** `PartRevisionViewSet` locks Part, then revision, in one transaction.
  `PartViewSet.destroy`, the whole `UploadSessionViewSet`, the whole `ExportJobViewSet`, PUT
  and PATCH of `ImportJobViewSet`, logins, `scan_attachment`, `finalize_upload_job` and
  `run_export_job` lock nothing and write back rows that they read earlier.
* **The store is not transactional.** Copies survive a rollback; a copy may be made
  and its answer lost; a completed multipart upload cannot be completed again.
* **Celery** delivers late, twice or never, and tasks are sent before or apart from
  the commit of what they are about, that of a new attachment included.
* **Cache and database** are written apart: `on_commit` callbacks; the cache is a
  Redis that evicts any key when it is full and keeps nothing over a restart.
* **Optimistic locking** by `row_version` or `generation` is only as good as the rule
  that every write raises it; attachment writes do not.
* **Waiting for a lock** on "the newest row" ends with the row that was newest when the
  wait began.
* **Failure paths** write too: a failed promotion is committed, a failed import raises
  through its own transaction.

`PROJECT.json` lists each of these hazards at its line, with the properties that watch
over it or the reason why none does yet.

## 2. Plan

| # | modules | status |
|---|---|---|
| 1 | `FourEyes` (abstract), `PartLifecycle`: the revision workflow, clients with stale pages, unlocked Part handlers, imports of parts | modelled, checked, proved to implement `FourEyes` |
| 2 | `ReleaseBarrier` (abstract), `ReleasePromotion` (the release transaction and the bucket) | modelled, checked, proved to implement the barrier |
| 3 | `ImportJob`: preview, confirmation, commit, retries | modelled, checked, proved |
| 4 | `AttachmentScan`: attachment writes against scan workers and the gate | modelled, checked, proved |
| 5 | `UploadSession`: requests and workers against an unlocked row and the store | modelled, checked, proved |
| 6 | `BomLifecycle`: BOM revisions, their rows and gates, together with the release and retirement of the parts they refer to | modelled, checked, proved to implement `FourEyes` too |
| 7 | `ExportJob`: requests and workers on an unlocked row, and the export bucket | modelled, checked, proved |
| 8 | `AuditChain`: locks on the newest entry, and on the rows audited | modelled, checked, proved |
| 9 | `SessionSecurity`: login, revocation, role changes, the middleware | modelled, checked, proved |
| 10 | `Downloads`: issue and use of a licence against time, replay, release and retirement | modelled, checked, proved |
| 11 | `BomStructure`: quantities, units, groups and budgets of `validate_bom_tree` | left out: they only make a request fail |
| 12 | `Effectivity`: half-open intervals | left out: only tests call these services |

Composition. Part revisions and BOM revisions are approved by two handlers that were
written apart; `FourEyes` says what both promise, and modules 1 and 6 implement it, each
under its own mapping. Modules 1 and 2 split one handler: `PartLifecycle` has who may do what
and on which page, `ReleasePromotion` what the release step does to the store;
`ReleasePromotion.Judge` is what `AttachmentScan` does in detail;
`AttachmentScan.Sessions` are uploads that `UploadSession` calls complete. `BomLifecycle`
sees of a part revision only whether it is released, and of `ImportJob`'s "apply" the
rows of one BOM; `PartLifecycle` has its rows of parts. `Downloads` begins where
`ReleasePromotion.Readable` ends, and its `ChangeAccount` is any change that
`SessionSecurity` has. The promise "ends once, stays ended" holds neither of import nor
of export jobs, because PUT and PATCH save all columns of a row that was read without a lock: so
there is no abstract job that both would implement. `ImportJob` and `ExportJob` say instead who
can take an end back, and what is true all the same.

What would come next: that `UploadSession` without cancels implements an abstract upload
that is completed once; `row_version` and the letters of BOM revisions.

## 3. Modules and code

Atomicity. A handler that holds row locks in one transaction is one action, because
everything that it touches is locked or private until it commits. Wherever the code
reads outside a lock and writes later, or talks to the store in between, the handler
is cut into one action per read, write and call, and what it remembers is part of its
process's state. Nothing is left to a later, optional action.

`ExportJob`, `AuditChain` and `SessionSecurity` have one proof module between them, so their
specifications and type invariants have names that differ: `ExportSpec`, `SecuritySpec`, `Spec`.

### FourEyes

What the approval of a document promises: it is "open" to its authors, "submitted",
"approved", "publishing", "published" and in the end "retired"; one person submits it, a
second one approves what the first has submitted, a third one publishes it; a rejection or
a withdrawal takes it back to its authors and clears all signatures, an abandoned
publication only the publisher's; nothing that is published goes back. The module has a
`Spec` of its own; `PartLifecycle` and `BomLifecycle` instantiate it once for each revision
`r`, as `Approval(r)`. `Stage` maps the states of the code (a rejected revision is open, one
whose promotion failed is still being published). `Author`, `Reviewer` and `Publisher` are the
columns of the row while they count: a draft keeps those of its earlier rounds, a retry those
of the attempt before, and retiring a revision overwrites who published it. `Archived` are the
BOM revisions of the library that were published before the model begins. `IsFourEyes` is then
`Approval(r)!Spec` for all `r` at once: the initial states are initial, and every step is one of
the approval, or none, for every revision.

### PartLifecycle

One Part with its revisions. `rev[r]` is the `PartRevision` row (`content` stands for
all editable columns and the attachments, `seq` is `revision_seq`), `publication[r]` its
`ReleasePublication`, `tab[t]` what a client's page shows; its `row_version` is the
If-Match of whatever the client sends. `Transition`, `Release` and `ReleaseFails` are
`PartRevisionViewSet.transition`: `Accepts` collects its early returns in order
(`AllowedTargets`, `RolePermits`, `DutiesSeparated`), `Moved` and `Failed` its
assignments, `SyncedPart` the update of the Part. `Failed` raises `row_version` twice, as
the handler does: it has saved the revision as released before the promotion raises.
`EditAttachments` leaves `row_version` alone. `BeginDestroy`/`EndDestroy` and
`BeginUpdate`/`EndUpdate` are the handlers of `PartViewSet` that read before they lock;
they are cut in two, and so is a row of an import of parts: `BeginImport` tests that
nothing of the Part is published, `EndImport` has locked the Part (its category is saved
first) and saves a draft without raising `row_version`, or makes a revision with the
default number 1. Two revisions may then be the latest, and the handlers take either.
`TagHolds` is the If-Match of an update, compared with the locked row, while the columns that
are saved are those of the instance read before. `overwritten` is a history variable: a
destroy, which locks nothing, has written over a newer row.

Roles. `Grants[u]` are all the roles that `u` ever has; a request may use any of them,
which covers every order in which roles are assigned and taken away.

### ReleaseBarrier, ReleasePromotion

`ReleaseBarrier` is what a reader of a release is promised: an attempt is prepared and
comes to nothing, or opens all its versions at once, each pinned to one object, for
good. `ReleasePromotion` is the release transaction step by step: `db` holds the
committed rows, `txn` those of the transaction in progress, `bucket` the objects, which
no rollback takes back. `Begin` is the gate and the first writes, `Select` the later
query for versions, `Copy`, `CopyRefused`, `CopyUnanswered` one round of the loop,
`Finish` and `Failing` the two ways it ends, `Commit` and `Crash` the end of the
transaction. `Readable` is what `attachment_views._context` lets a download be bound to.
`IsBarrier` is `ReleaseBarrier!Spec` under the mapping `Phase`, `Offer`, `Readable`.

### ImportJob

Jobs of one user, and the requests of his clients. `Preview` is one step, since
`process_import_job` holds the job's lock throughout and nothing it reads is written meanwhile;
a commit is `Validate`, then `Apply`, because a category or a role may change after the check.
`callbacks` are the `on_commit` hooks, which run apart from their transaction, in any order, or
never. `PreviewRaises` and `CommitRaises` change no row: the except clause saves a status and
then raises through `transaction.atomic`, which takes it back. A delivery that is taken may
stay in the queue, and so come again. `BeginUpdate` and `Update` are PUT and PATCH, which the
view set inherits: all columns are saved as they were read, and `parent_job` is the client's to
choose, as it is in `Create`; `Destroy` is DELETE. Since those can set a job back to "queued",
it may have several confirmation tokens: they are numbered, the row has the hash of one, the
cache the secret of one, and `RunOut` ends the time of the oldest. `applied`, `retried` and
`undone` are history variables: how often rows were written, which jobs were retried, how often
a client took an end back.

### AttachmentScan

One attachment, from when the request that creates it has sent its scan: until
`CommitCreation` a worker that takes the task finds no row (`LoadMissing`), raises
`DoesNotExist`, and the task is gone. `BeginUpdate` reads the attachment (`get_object` and
the serializer's check), `Save` locks and sends the task, `Commit` or `Rollback` follow, so that a
worker may run in between. A worker takes `Load`, `FindVersion`, `Mark`, one of the verdicts, and
`SaveVerdict`, each on its own. `CheckAttachment` and `CheckVersion` are the two reads of
the release gate. `outran` and `misjudged` are history variables: the first task found no row
and none was sent since; a worker gave its verdict to a row whose file or label was no longer what
it had loaded, and no update was committed since.

### UploadSession

One session, its multipart upload and object, its `FinalizeJob`s, and any number of API
requests and workers. `BeginComplete`, `BeginExpire`, `BeginCancel`, `CreateJob` are the
requests' one read and decision; `Reconcile` to `SaveUploaded` is
`_complete_upload_session`, shared by requests and workers; `Refresh` and `Bump` raise
`generation` afterwards. If-Match is compared with the same read that the decision is
taken on, so a client who has just read the row always passes, and the check adds
nothing to who may race with whom; the model lets every request pass. `lost` is a
history variable: a fault has lost a task or what a process was at work on.

### BomLifecycle

`rev[r]` is a `BOMRevision` with its rows: `items` are the part and BOM revisions that the
rows refer to. Two rows with one reference count once; deleting one of them is then no
step at all. `live` are the part revisions that are released, `owner` the row locks,
`req[q]` the transaction of a gated request or an import. A `Library` of
revisions was published before.

* **Edits** (`CreateRevision`, `EditRoot`, `WriteItem`, `DeleteItem`) and transitions without a
  gate (`Transit`) hold the lock of their revision and are one step each. `WriteItem`
  checks the row (`ValidItem`) and walks the tree without locking it; nothing in that
  walk can change meanwhile, since a row refers to what is or was published, and this
  is closed to edits.
* **The gate** is `validate_bom_tree(lifecycle_gate=True)` from `bom_revision_actions`
  (`BeginGate`, `CommitGate`) or an import. `Visit` is the one query for a node's rows;
  `LockChild` the query that locks a child revision, and with it, by
  `select_related`, the child's BOM and its root, and looks at its state again;
  `LockParts` the last query, for all parts. `todo` is the stack (in any order), `seen`
  what was popped: a history part that only the proofs use.
* **`Abort`** is every refusal on the way, a deadlock victim, and a crash: nothing of the
  transaction remains. Units, quantities, positions, groups, budgets and the attachments
  of a release only make a request fail, so they are part of it.
* **Imports** check before they lock: `ImportBegin` and `ImportCheck` read, `ImportWrite`
  saves. An imported line overwrites the part of the old line with its number but not
  its child BOM, hence `kept`.
* **`PartStep`** is whatever releases a part revision or ends that, in one step on a free
  row. A part may be released again and again, more than `PartLifecycle` allows; nothing
  here depends on it.

`row_version` is left out: every handler compares it under the lock of the revision, so a
stale page only has its request refused.

### ExportJob

`job[j]` is the `ExportJob` row, `bucket[j][f]` the object at the job's key, which has the
extension of the format `f`. A run is `Load`, `Put`, `Complete` or `Fail`; it never looks at the
status. `BeginUpdate`/`Update` are PUT and PATCH, which the view set inherits: all columns
are saved as they were read, so a job may be reset, or made again after it was deleted.
`BeginCancel`/`Cancel` test and save the status. `runs` is a history variable: how many
runs have loaded the job.

### AuditChain

`entry[n]` is the `AuditEvent` with the stamp `n`, `tx[w]` the transaction of a writer. A stamp
is `created_at`, the time of whichever worker writes, and then the random id: a new entry may
get any free one, later or earlier than what it follows. `Look` is the query for the newest
entry as its statement sees it, `LockEntry` the end of its wait: PostgreSQL locks the row that
was found, though it may be the newest no more. `Insert`, `Commit` and `Rollback` end the
transaction. `WantRow` and `TakeRow` are any statement that writes or locks a row of another
table: a transaction has any number of them in any order before it appends (`perform_update`,
workflow steps with Part and revision, gates with a whole tree, imports). A "destroy"
(`perform_destroy`) has them afterwards too, and so has the request that deletes a row of a
BOM; that one's entry is an "event", `AuditEvent.objects.create`, which locks nothing.

### SessionSecurity

`account[u]` is the `User` with its `UserSecurity` row. A login is four steps (`BeginLogin`,
`Accept` or `Reject`, `ResetCounters`, `Establish`), none under a lock. `LetIn` is the
middleware; what the request then does (`Administer`, `Logout`) comes later, when its user may
have lost the role it was let in with. `Change` is what all changes of an account by an
administrator share: they hold the lock on its row. `PatchRole` writes `permission_version`
twice, once raised by `assign_role` and once from what was read before, to the same value.
`page` is what an administrator's page shows, for the If-Match of a PATCH. `past` is a history
variable: endings, wrong passwords, those since the last success, and whether that count is
"blurred" since, by logins that overlap or by a wrong password for an account that has no
`UserSecurity` row yet, which `Reject` neither counts nor locks.

### Downloads

One released file, in the units of time of its licences. `Issue` is
`attachment_version_download`; `Begin`, `Claim` (or `Replay`) and `Serve` are
`attachment_version_content`: what it reads first, `cache.add` of the nonces, and the
second look at the release before the bytes are sent. `ParseRange`, `MayLimit` and `Limit`
are the arithmetic of ranges and `max_bytes`, for all Range headers around the size of the file.
`Tick`, `Rescan`, `Retire`, `Replace` and `ChangeAccount` are what happens meanwhile, and `Evict`:
the cache loses an entry before its time. `evicted` and `served` are history variables: answers
are counted per licence, nonce, and number of evictions before the entry they were given on.

## 4. Runs, bounds and fairness

| run | question | bounds | states |
|---|---|---|---|
| `PartLifecycle_clients` | stale pages, imports, duties, publications of one revision; refinement of `FourEyes` | 3 users with every role, 2 tabs, 1 importer, row_version up to 9, 2 edits | 385,962 |
| `PartLifecycle_revisions` | two revisions, deletes and updates of the Part in between | an engineer who is an admin too, a reviewer, a publisher, 1 tab, 1 unlocked handler, row_version up to 6, also of the Part | 2.7 M |
| `ReleasePromotion_barrier` | refinement of the barrier under faults | 2 attachments, 2 uploads each, 2 VersionIds per key, 1 fault | 905 k |
| `ImportJob_commits` | repeated deliveries, cancels, retries, revocations, PUT, PATCH and DELETE | 2 jobs, 1 token, 1 update, 1 change of catalogue and of permissions | 1.7 M |
| `AttachmentScan_gate` | what passes the gate; every scan ends | 2 sessions, 1 infected, 1 editor, 2 workers, 2 updates, 1 loss | 467 k |
| `UploadSession_complete` | what complete means; every job ends | 2 clients, 2 workers, 2 jobs, 3 requests, 1 fault | 261 k |
| `BomLifecycle_gate` | gates against edits, imports and retirements; refinement of `FourEyes` | 2 BOMs: one with a published and a new revision, one with a new one; 2 parts, 3 users, 2 rows, 2 gated requests at a time | 520 k |
| `SessionSecurity_accounts` | logins against revocations; stale administrators' pages; failure counts | 2 accounts, one of them an administrator; 2 logins, 2 requests, 2 sessions, 2 failures lock, permission_version up to 3 | 1.5 M |
| `Downloads_licences` | one licence under two requests, time and change | 1 licence and nonce, 2 requests, 2 placements, sizes 0 and 2, lives 1, 1 and 3, clock up to 4, 1 eviction | 830 k |
| `ExportJob_outcomes` | what is offered, and who takes it back | 1 job, 2 formats, 2 contents, 2 workers, 2 requests, 2 redeliveries | 240 k |
| `AuditChain_writers` | turns of the writers that follow one entry; circles of waiting writers | 3 writers, 2 rows, 3 entries | 649 k |

The twelfth run, `ReleasePromotion_retry`, shows a violation and is described under
[findings](#5-findings).

Why the bounds are enough to be interesting:

* `MaxVersion = 9` lets a revision go through a rejection and a resubmission, or a
  failed publication that is abandoned and published again, by people whose roles change;
  three users is the least with which the duties can be separated, so
  that any reuse of a person is one that a rule has to refuse.
* Two revisions are the least in which the status of the Part and the state of the
  revision that moved can differ; three tabs or users add interchangeable actors.
  The unlocked handler is an update or a delete that reads before any step of the workflow and
  writes after it; two such handlers at once are covered by the proof, which has no bound.
* Two uploads of each of two attachments have every order of copies and an older version
  beside the newer; a fault is a refused copy or a crash, and what it leaves meets the
  retry. A second fault only repeats this.
* In `ImportJob_commits`, a second job is the retry of the first, or another one that names it as its
  parent. One update that read a job before its commit is enough to take the end back and to
  write the rows again. A job that is previewed again with a second token, and two clients, are in
  the proof, which has no bounds.
* In `AttachmentScan_gate` one update is enough to replace the file under a scan; two turn back
  to an earlier file, and give it another label than it had. Two workers are a scan and its
  overlap with the next.
* In `BomLifecycle_gate` the BOM `B1` has the published `x1` and the draft `x2`, `B2` the
  draft `y`. `y` may contain `x1`, and `x2` then `y`: `B1` would contain itself two levels
  down, through a sibling. `Offered` keeps what requests name to these. Gates of trees
  of two levels overlap with the retirement of each node and part, with an import
  into `y`, and with each other. The users are an engineer, a publisher and an admin, who
  may do everything, so that only the rules keep the admin from doing it all.
* In `SessionSecurity_accounts` only one role can be assigned (`Grantable`), the one that
  administers, so that an account becomes an administrator and stops being one; version 3
  has two changes after the first login, such as a disabling and an enabling under one login.
  Passwords are tried and changes made on one account (`Guessed`, `Changed`); both accounts log
  in and administer.
* In `Downloads_licences` an empty file and one of two bytes are the sizes at which intervals,
  suffixes and limits meet their ends; a second licence or nonce has a cache entry of its own.
  The lives keep the order of 600, 60 and 900 seconds, with the smallest difference:
  `LicenceLife + RequestLife < NonceLife`. The clock goes on until the entry made first has
  expired.
* In `ExportJob_outcomes` two redeliveries have two runs and a third; two requests are an
  update that read before another update or a cancel.
* In `AuditChain_writers` three writers are the holder of the newest entry and two who wait
  for it, which is how a fork arises; two rows have circles of two that have nothing to do
  with the chain, and circles of two or three through a row and an entry.
* In `UploadSession_complete` the third request is the one that comes after two that
  overlapped.

Fairness, and why the code justifies it:

* a handler or task that has begun goes on to its end unless a fault stops it
  (`WF` of its steps in `ReleasePromotion`, `AttachmentScan`, `UploadSession`); nothing in
  these handlers waits for something that another may withhold for ever, and the
  scanner's socket and the store's client time out, which is one of the modelled failures;
* a free Celery worker takes a waiting task (`WF` of `Load` within `Scan` and
  `TakeTask`);
* in `ReleasePromotion`, the publisher keeps asking: `WF` of "publish" and `SF` of `Begin`,
  because the gate may be shut at times by a scan. This is a premise about a person, not
  about the code, and the two properties that use it also require that the scans are
  clean from some time on. Without it neither property would speak about retries;
* there is no fairness for crashes, losses, other requests, or the clock.

The other modules promise nothing about progress, and neither need they: nobody has to act, an import
waits for its owner, and two gates or two audited writes may wait for each other until the
database aborts one. The runs of `ImportJob`, `AttachmentScan`, `UploadSession`, `SessionSecurity`,
`ExportJob` and `AuditChain`, whose systems may really stop, say `CHECK_DEADLOCK FALSE`: all
jobs are decided or gone, the file is released, and the bounds are reached.

Liveness that is model-checked: `CrashesAreHarmless` (as long as no failed attempt left
a placement, crashes and refused copies only delay a release), `ScansEnd` (no
attachment waits for ever unless a task or worker is lost, or the task of its creation outran
the transaction that sent it and no update followed; the task of an update may outrun its
transaction and still ends in a verdict), `JobsEnd` (no `FinalizeJob` stays queued or running unless
a task is lost or a worker dies).

The type invariants of `PartLifecycle`, `BomLifecycle`, `AuditChain` and `ExportJob` are
not among the properties of their runs: they are proved (`PartsAreTyped`, `BomsAreTyped`,
`AuditChainTypeOK`, `ExportsAreTyped`), for these bounds and all others.

Each property of a passing run has a mutant in `PROJECT.json`: a definition of the
model changed as a plausible mistake in the code would change it, under which TLC
finds the property violated. The mutated forms stand in the modules, marked "Mutant".

## 5. Findings

What the code does although its own words exclude it, as a run that TLC ends with a
counterexample:

* **`ReleasePromotion_retry`** (`RetryReleases`): a failed release leaves the placements
  of the copies it had made. A retry copies to the same key, the versioned bucket
  answers with a new VersionId, and `get_or_create` finds the old one: every retry
  ends in `STORAGE_RECONCILIATION_FAILED`, although `retry_publish` is said to be
  idempotent (`docs/revision-state-machine.md:13`, `models.py:320`). Without leftovers
  the retries do succeed (`CrashesAreHarmless`), and readers see all or nothing whatever happens
  (`IsBarrier`). The run is one instance; that a leftover placement shuts out every later success is
proved in general (`RetriesNeedACleanStart`).

What else the code does and a reader may not expect. The models have these steps; they are
why the properties nearby say less than one might wish:

* `PartViewSet.destroy` compares If-Match and writes `status` and `row_version` from a
  row that it read without a lock (`views.py:334`). A workflow step in between gets the same
  `row_version`, so that of a Part, unlike a revision's, does not identify what a page
  shows, and a later update may pass its If-Match and save an old status:
  `StatusFollowsRevisions` exempts Parts to which this has happened (`overwritten`).
* All clean versions of an attachment are copied from its current session
  (`views.py:511`): the placement of an older version holds the newer file, which is what
  `PlacementsExist` says.
* The status `failed` or `expired` that `process_import_job` saves in its except clause
  is rolled back by the exception that it raises again (`jobs.py:736`). Rows are
  written once all the same.
* A scan that began before the file was replaced, and ends after, gives its verdict to the new
  file (`jobs.py:69`), and the release gate believes it. `OnlyMisjudgedSlipThrough` says that
  this is the only way past the gate, and that an update ends it.
* "Re-labelling the same ciphertext must not turn it into plaintext" (`serializers.py:234`),
  but it can: an update to another file labelled plain, and a second one back to the first file; or one
  update whose check read the row before another update. The object is then scanned as plaintext, and
  released if the scanner passes it.
* The request that creates an attachment sends its scan before it commits (`views.py:593-597`).
  A worker that is faster finds no row, `.get` raises `DoesNotExist` (`jobs.py:66`), and the
  task is not retried: the attachment stays pending, with nothing lost, until somebody updates
  it. `ScansEnd` makes this exception and no other.
* PUT and PATCH of an import job save all columns as they were read (`serializers.py:213`),
  over a commit, a cancel or a retry that came in between, and DELETE removes it. A completed
  job so taken back to "awaiting_confirmation" or "queued" can be committed again, and its rows
  are then written twice: when the commit was delivered twice, even without another
  confirmation, if the first run's callback has not emptied the cache yet. The docstring at
  `jobs.py:674` says that row locking "makes duplicate Celery deliveries harmless"; that holds
  as long as nobody does this. `AppliedOnce` and `FinalIsFinal` count these saves (`undone`)
  and say that nothing else takes an end back.
* An import of parts changes a draft without raising its `row_version`, and a revision that it
  adds to a Part has the number 1 (`jobs.py:611`), so that which revision is the latest
  is up to the database.
* `record_audit` says that "`select_for_update` serializes writers" (`views.py:66`). A
  writer who has waited gets the entry that was newest when it began to wait, so it and
  the one it waited for follow the same predecessor: the chain forks. It forks as well where
  `AuditEvent.objects.create` appends without a lock, and where the clock of one worker is behind
  another's, so that the newest entry is not the last one. What remains is that those who follow one
  locked entry are not at it together (`FollowersTakeTurns`), and that what an entry follows
  is never lost (`AuditChainUnbroken`).
* `perform_destroy` appends before it deletes, `perform_update` writes before it appends
  (`views.py:149-154`): the two can wait for each other. Requests that lock several rows, such
  as gates (`bom_services.py:245`), can also wait for each other over those rows alone.
  `DeadlocksNeedDestroy` says that appending adds nothing but the first kind.
* A PUT or PATCH of an export job saves all columns as it read them: a completed job is reset to
  queued, a deleted one comes back. `run_export_job` does not look at the status, so a
  cancel before the run has no effect (`jobs.py:778`). What is offered is there all the same
  (`OfferedIsStored`).
* Two failed logins that overlap count once, and a failure can write back a lock that a success
  lifted, or lift one (`auth_views.py:71`). A lock that has run out leaves the counter at its
  limit, so that the next failure locks again. Of an account that has no `UserSecurity` row,
  because it has never been logged in to nor changed by an administrator, failures are neither
  counted nor lead to a lock (`auth_views.py:62`, `70`, `80`: "if local_security"); only the
  counter in the cache stands in their way. `FailuresCount` is exact where none of this
  happens, and says for all cases that nobody is locked too early.
* A licence "once per nonce" is so only as long as the cache keeps the nonce, and the deployed
  Redis evicts any key when its 256 MB are full (`docker-compose.yaml:24`): `ServedOnce` counts
  per life of the entry.

Two more, that passing properties name:

* `OnlyOverlapsUndo`: a cancel or an expiry that read an upload session before it was
  completed still ends it afterwards, although `actions` says "completed upload cannot be
  cancelled" (`views.py:836`).
* `FrozenOutsideDraft`: an import that found a BOM revision in draft writes its root and
  rows even if the revision was submitted, approved or published meanwhile
  (`jobs.py:649`), and does not raise its `row_version`. The rows are all released then,
  but nobody has reviewed them; `bom_services.py:125` says "BOM revision is immutable
  outside draft state".

`docs/revision-state-machine.md` also lists `approved --> draft: withdraw` and a reference
gate on `retire`; the code has neither, and the models follow the code.

## 6. Theorems

Proved by TLAPS for all values of the constants, from the assumptions named in the
modules (`ASSUME`): the bounds are natural numbers, `NoUser` and `NoObject` are not
members of the sets that they extend, clients and workers differ, the infected sessions
are sessions, an account has at least one failure before it is locked. No fairness is used.

**`PartLifecycleProofs`.** `PartsAreTyped` is inductive as it stands. `StepOfRow` says that
every action changes a given revision in one of a few ways; every later proof splits on these
rather than on the actions. That an import changes a draft as an edit of its attachments does,
and adds a revision as a create does, is all that the rest has to know of imports.
`DutiesAreSeparated` is not inductive: `DutyInv` adds that a revision that has left draft has a
submitter, without which a reviewer would merely differ from nobody, and says what is separated
in each state. `TagsIdentifyRevisions` needs `PagesInv`: no page has a `row_version` ahead of
its row's, and one with the same `row_version` shows the same row, attachments excepted while
it is a draft. `InformedDecisions` follows from it. `ReviewIsFinal` and `PublicationAgrees` are
about rows alone. `StatusFollows` is not: the status may be saved from an instance that a
request read long ago. `ListInv` says of every update in progress that its instance is no newer
than the row, and that one with the row's `row_version` has its status, unless a destroy has
used a `row_version` twice; every write of the Part raises it (`PartRises`), so an update that
passes `TagHolds` saves the status that is there. `PartsFollowFourEyes` maps each accepted
transition to a step of the approval, state by state (`MovedFollows`), and a failed promotion
to one more attempt to publish (`FailedFollows`); the columns that a draft still has from
earlier rounds are where the mapping earns its keep.

**`ReleasePromotionProofs`.** `RecordsAgree` and `PlacementsExist` become inductive
with `TxnInv`, `TypeOK` (`ReleasesAreTyped`) and `Kept`, which says which file a stored
object has: a transaction exists only while the committed rows say that nothing is
out; what it has written is either still in progress with nothing visible, or one of the
two complete outcomes (`Succeeded`, `GaveUp`); what it has placed is stored. For
`ReleaseIsBarrier`, initial states map to initial states and each step to a step of the
barrier or a stutter: a copy is a stutter, since a placement is invisible until the rows
say "active"; `Crash`, and the `Commit` of a failure, are `Cancel`; the `Commit` of a success
is `Open`, where the invariant yields exactly one object for every version on offer.
`RetriesNeedACleanStart` and `CleanRetriesFailByFaults` are about retries, for any versions, files
and attempts: a release that succeeds had no placement left of a version it opens, and an
attempt past its gate fails only by a fault of the store or by such a leftover. Both need
`Fresh`: an attempt has placed only what had no placement, and has left the other
placements alone.

**`ImportJobProofs`.** Three invariants beside `ImportsAreTyped`. `LockInv`: a job whose commit
was checked and not yet written still waits for its confirmation, since its row is locked
against everybody, and its permissions are those that were checked, since the user's row is
locked too; this is `CommitsAreAuthorised`. `ReadInv`: a client that has read a completed job
has read it after a commit of it. `CountInv`: how often rows were written is bounded by how
often the job's end was taken back, and by one more once it is completed; a job that was
retried has ended, unless a client took that back. `RowsAreWrittenOnce` follows, and
`EndedJobsStayEnded` from the actions and `LockInv`, one by one.

**`AttachmentScanProofs`.** `OnlyMisjudgedSlipThrough` says nothing about the row before it is
released. The invariant does, unless `misjudged`: the row is "available" only if its file is
clean and plain (`VerdictHolds`), because the worker that last judged it had loaded this file
and this label; and this is what passes the gate (`GateHolds`). An update is committed only in
draft (`SavedInDraft`), never as "available" (`EditsPend`), and there is none before the
creation. It holds for any number of updates, those that turn back to an earlier file included.
`NoScanIsForgotten` is what keeps the promise of a verdict: unless something was lost or the
first task outran the creation, an attachment that waits for a verdict, or is about to, has a
task or a worker that has not decided yet. Requests send before they commit, and a worker
decides last.

**`UploadSessionProofs`.** `CompleteIsVerified` rests on `TakenOnce` (the store takes the parts
once, so a stored object never changes) and `CheckedIsGood` (whoever is past the check of size
and checksum has seen a good object). `OverlapsUndo` needs `UndoesOpen`: a request that expires
or cancels has read a state that was not "uploaded". `NoJobIsForgotten`: unless something was
lost, a job that is queued or running has a task, or a worker at work on it.

**`BomLifecycleProofs`.** `BomInvariant` is an invariant of one transaction at a time
(`Sound`): what it has visited or put on the stack is locked by it and, below the first node,
released (`Holds`); what a visited node contains was found, so it is locked, on the stack, or
waiting to be locked (`Visited`); the locked first row is as it was when it was checked
(`Checked`); in the end the parts are locked and released too (`Passed`). Other transactions
cannot disturb this, as they write only rows that nobody else has locked. When nothing is left
to visit, the visited nodes are closed under containment, so the tree lies among them
(`ReachWithin`): `GatesSeeReleasedTrees`, for trees of any depth. `RowsFrozen` follows from the
same facts. `NoCycles` needs that rows refer to what is or was published (`RefersToPublished`)
and that what is published gets no new child BOMs (an import adds parts only): a row added to a
draft changes no tree below it (`ReachLess`), so the walk of that one edit has seen all there
is to see. `BomDutiesSeparated` needs `Duties`, which says who has acted in each state; the new
step comes from `Checked`, since the gate lies between the test and the write.
`BomsFollowFourEyes` rests on `Checked` too: the row that the gate commits is still the one
that the duties were tested on, so the many steps of a gated transition are stutters of the
approval and its last one is the step.

**`DownloadsProofs`.** Assumed is `LicenceLife + RequestLife < NonceLife`, as in the code (600
+ 60 < 900 seconds); nothing is assumed of evictions. `DownloadsServedOnce` needs that a
request is at work only within its life and began while its licence was fresh (`InTime`); that
a cache entry made for it is there, unless it was evicted, as long as a request could still ask
for the same (`Remembered`); and that answers and requests past the cache are one at most
together for each number of evictions (`Single`). For `DownloadsSentAsLicensed` the lemma
`ParsedInside` says that what `ParseRange` accepts lies in the file, for every size, and
`LimitBounded` that a limit is neither zero nor longer than the interval; `Issued` then gives
`DownloadsLicencesCanBeUsed` its witness, the header that asks for the first bytes allowed.

**`ServicesProofs`** has three parts, on three modules that share nothing.

*Audit chain.* `ChainInv` ties locks to steps: who holds an entry is past the step that took it
and locks entries (`HoldsEntry`); what a writer follows was committed, and is locked by it
until its end unless its own entry is an event (`WriterInv`); what an entry follows was
committed, and one that is not committed is the only one of its writer (`EntryInv`). Nothing is
assumed of clocks. `AuditChainTakesTurns` follows, as an entry has one lock. For
`AuditChainDeadlocksNeedDestroy`, take any set of writers that wait for one another. Who waits
for an entry waits for somebody that holds it and waits too, and that can only be a destroy
that has appended and wants a row; if none waits for an entry and there is no such destroy, all
of them that lock entries wait for rows before they append. `AuditChainUnbroken` says what
forks leave intact: whatever an entry follows is committed and never changes, so every chain of
predecessors can still be read and verified.

*Export jobs.* A row may be in the table or in the memory of a request that will write it back,
so the invariant `ExportInv` is about both (`Held`): whatever a row offers was stored, and is
what was rendered if no second run can have stored another (`Honest`). A run holds what it
stored unless there was another (`RunHolds`), two runs at once have raised the count (`Alone`),
a row is not offered before a run has ended (`Untried`), and a cancel has read a job that was
queued (`CancelsQueued`). `ExportsAreStored` and `ExportsStand` follow.

*Sessions and accounts.* `DataCurrent` and `PageCurrent` are what optimistic locking comes to
here: what a session, a login or a page has read is never ahead of the account's
`permission_version`, and as long as the version is the same, it is still true; this is
inductive since every change of an account raises the version by one or leaves standing,
endings and rights alone. `SecurityEndsSessions` and `SecurityPagesMatch` follow.
`SecurityCountsFailures` has two halves. Whatever overlaps, a counter, or the copy of it that a
login has, is never ahead of the wrong passwords there have been (`Earned`), and a lock was
written at the limit (`Enough`). And while nothing is blurred, one login is at work at most and
knows the counters as they are (`Counted`).

Only model-checked: liveness, since fairness and `ENABLED` are out of this prover's reach. Of
`ScansEnd` and `JobsEnd` the safety core is proved (`NoScanIsForgotten`, `NoJobIsForgotten`),
of `CrashesAreHarmless` what a retry can fail by (`CleanRetriesFailByFaults`); what stays with TLC is
that the waiting task is taken and its worker goes on. The counterexample to `RetryReleases`
is a fact about one instance; that every instance has it is `RetriesNeedACleanStart`.

## 7. What is not modelled

* The number register, catalogue writes, BOM effectivity (tests alone call it), and the
  arithmetic of BOM rows: see the [plan](#2-plan) and `PROJECT.json`.
* `ALLOW_OPAQUE_RELEASE` (off unless the environment sets it) and attachments from
  before version rows were introduced: the gate is modelled with the switch off and a
  version for each attachment.
* Deleting an attachment: its version rows protect it, so the request fails.
* `Idempotency-Key`: the keys of import and export actions only decide whether an answer is
  repeated; the model lets every request act, which is the harder case. That the
  actions overwrite the key under which a job was created is a listed hazard.
* Initiating an upload, and reading parts back: neither changes what the model has.
* In `ImportJob`, jobs without an owner, which the import action of the catalogue queues
  (`views.py:219`): they are previewed, and nobody can confirm or retry them. And the imported
  rows themselves: "applied" counts the times they were written. Parsing and validation is a
  choice between success and errors; the size and the number of rows do not matter to the job.
* Tenants: every query of a handler is confined to one; the models are about one
  tenant.
* Names, formats, messages, paging, serialisation, logging, metrics.
* Of BOMs: `row_version`, update and delete of a BOM, effectivity, and everything about a
  row but what it refers to.
* Audit rows in the modules other than `AuditChain`; in that module one transaction appends
  one entry, as in the code.
* Of logins: the cache's counter of failures, which only refuses, and LDAP, which stands for
  a password that is right or wrong. Of sessions: their ages, as `Refuse` may end any.
* Of downloads: mode "draft", for which there is never a placement, and the signature of a
  licence, taken to be unforgeable.
* Of exports: what is rendered, expiry, the count of downloads, `row_version`.
* Rows of an import that concern one another: `PartLifecycle` takes them one by one.

## 8. Running it

    tlc -workers 2 -config PartLifecycle_clients.cfg MC_PartLifecycle
    tlapm PartLifecycleProofs.tla

Each `.cfg` belongs to the `MC_` module with the same first name. The longest run takes
about two minutes on two cores, the longest proof, of `BomLifecycle`, about three,
the others about one each.
