------------------------------- MODULE ImportJob -------------------------------
(***************************************************************************)
(* Imports with a preview and a confirmation: ImportJobViewSet of          *)
(* plm/views.py and process_import_job of plm/jobs.py, for one user.       *)
(*                                                                         *)
(* A Celery delivery locks the ImportJob row for the whole of its          *)
(* transaction.  The preview is one step.  A commit is two: it checks what *)
(* was confirmed, then writes the rows, and other transactions run in      *)
(* between.  What a handler registers with transaction.on_commit runs      *)
(* after the transaction and apart from it.                                *)
(*                                                                         *)
(* PUT and PATCH, which the view set inherits, read the row without a lock *)
(* and later save all its columns, whatever has become of the job; DELETE  *)
(* removes it.  So a job may be previewed again, with another confirmation *)
(* token.  Tokens are numbered as they are issued.  One is followed by     *)
(* where its copies are, the hash in the row and the secret in the cache;  *)
(* confirm_expires_at is always that of the hash beside it.                *)
(* Those requests may name other data too; a commit that notices is        *)
(* CommitRaises.                                                           *)
(***************************************************************************)
EXTENDS Naturals

CONSTANTS
  Clients,     \* requests that save a whole row
  MaxJobs,     \* bound: jobs, the retried ones included
  MaxTokens,   \* bound: confirmation tokens issued
  MaxUpdates,  \* bound: PUTs and PATCHes
  MaxChanges   \* bound: changes of the catalog, and of the user's permissions

ASSUME JobsAssumption == MaxJobs \in Nat \ {0}
ASSUME TokensAssumption == MaxTokens \in Nat
ASSUME UpdatesAssumption == MaxUpdates \in Nat
ASSUME ChangesAssumption == MaxChanges \in Nat

VARIABLES
  job,        \* job[j]: the ImportJob row
  cache,      \* cache[j]: the token whose secret is in the cache, or 0
  callbacks,  \* pairs <<job, token>>: on_commit functions that are to put the token
              \* into the cache, or to delete what is there (0)
  queue,      \* deliveries waiting
  locked,     \* jobs whose commit has been checked but not written yet
  client,     \* client[c]: the job a PUT or PATCH is about, and its row as it was read
  minted,     \* tokens issued
  late,       \* tokens up to this one have run out
  catalog,    \* version of the category catalog
  permission, \* UserSecurity.permission_version of the user
  updates,    \* PUTs and PATCHes so far
  applied,    \* applied[j]: history, how often j's rows were written to the domain tables
  retried,    \* history: jobs for which a retry was made
  undone      \* undone[j]: history, how often a client took j's end back

vars == <<job, cache, callbacks, queue, locked, client, minted, late, catalog, permission,
          updates, applied, retried, undone>>
histories == <<applied, retried, undone>>

Jobs == 1 .. MaxJobs
Tokens == 0 .. MaxTokens
Kinds == {"preview", "commit"}
Final == {"completed", "completed_with_errors", "failed", "cancelled", "expired"}
Statuses == Final \cup {"absent", "queued", "awaiting_confirmation", "gone"}

\* "previewed" is the catalog the preview was made with, "parent" the job it is a
\* retry of, or that a client says it is one of.
Row == [status : Statuses, parent : 0 .. MaxJobs, permission : Nat, token : Tokens,
        previewed : Nat]
NewRow(status, parent, version) ==
  [status |-> status, parent |-> parent, permission |-> version, token |-> 0, previewed |-> 0]
QueuedRow(parent) == NewRow("queued", parent, permission)
AtRest == [job |-> 0, row |-> NewRow("absent", 0, 0)]

TypeOK ==
  /\ job \in [Jobs -> Row]
  /\ cache \in [Jobs -> Tokens]
  /\ callbacks \subseteq Jobs \X Tokens
  /\ queue \subseteq Jobs \X Kinds
  /\ locked \subseteq Jobs
  /\ client \in [Clients -> [job : 0 .. MaxJobs, row : Row]]
  /\ minted \in Tokens
  /\ late \in Tokens
  /\ catalog \in 0 .. MaxChanges
  /\ permission \in 0 .. MaxChanges
  /\ updates \in 0 .. MaxUpdates
  /\ applied \in [Jobs -> Nat]
  /\ retried \subseteq Jobs
  /\ undone \in [Jobs -> Nat]

Init ==
  /\ job = [j \in Jobs |-> NewRow("absent", 0, 0)]
  /\ cache = [j \in Jobs |-> 0]
  /\ callbacks = {}
  /\ queue = {}
  /\ locked = {}
  /\ client = [c \in Clients |-> AtRest]
  /\ minted = 0
  /\ late = 0
  /\ catalog = 0
  /\ permission = 0
  /\ updates = 0
  /\ applied = [j \in Jobs |-> 0]
  /\ retried = {}
  /\ undone = [j \in Jobs |-> 0]

-----------------------------------------------------------------------------
(* What the handlers share.                                                *)

\* Mutant: the row is read without select_for_update.
LockFree_Always(j) == TRUE

\* select_for_update on the job's row does not have to wait.
LockFree(j) == j \notin locked

\* Mutant: business_state is written into status.
SetStatus_Business(j, status) == [job EXCEPT ![j] = [@ EXCEPT !.status = "none"]]

SetStatus(j, status) == [job EXCEPT ![j] = [@ EXCEPT !.status = status]]

Exists(j) == job[j].status \notin {"absent", "gone"}

\* Jobs are numbered as they are made.
IsNew(j) == \A i \in Jobs : job[i].status = "absent" <=> i >= j

\* A delivery may come again: what is taken may stay to be taken once more.
Enqueued(j, kind) == queue \cup {<<j, kind>>}
Taken(j, kind) ==
  /\ <<j, kind>> \in queue
  /\ \/ UNCHANGED queue
     \/ queue' = queue \ {<<j, kind>>}

\* The hash in the row is that of the cached secret, and has not run out.
TokenHolds(j) ==
  /\ job[j].token # 0 /\ cache[j] = job[j].token
  /\ late < job[j].token

\* Every check of a confirmation except those of the data it is about:
\* _available_import_confirm_token, the commit action, _validate_commit_binding.
Confirmable(j) ==
  /\ job[j].status = "awaiting_confirmation"
  /\ TokenHolds(j)
  /\ job[j].permission = permission

-----------------------------------------------------------------------------
(* Requests.                                                               *)

\* The preview is sent off after the job was stored; if that fails, or the process
\* dies before it, the job stays without a delivery.
Sent(j) == queue' = Enqueued(j, "preview") \/ UNCHANGED queue

\* A POST may name any job as the one it is a retry of.
Create(j, parent) ==
  /\ IsNew(j)
  /\ parent # 0 => Exists(parent)
  /\ job' = [job EXCEPT ![j] = QueuedRow(parent)]
  /\ Sent(j)
  /\ UNCHANGED <<cache, callbacks, locked, client, minted, late, catalog, permission, updates>>
  /\ UNCHANGED histories

\* The commit action looks at the job without a lock and only sends a delivery.
RequestCommit(j) ==
  /\ Confirmable(j)
  /\ queue' = Enqueued(j, "commit")
  /\ UNCHANGED <<job, cache, callbacks, locked, client, minted, late, catalog, permission,
                 updates>>
  /\ UNCHANGED histories

\* cancel_import_job: If-Match was compared before the lock was taken.
Cancel(j) ==
  /\ LockFree(j)
  /\ job[j].status \in {"queued", "awaiting_confirmation"}
  /\ job' = [job EXCEPT ![j] = [@ EXCEPT !.status = "cancelled", !.token = 0]]
  /\ cache' = [cache EXCEPT ![j] = 0]
  /\ callbacks' = callbacks \cup {<<j, 0>>}
  /\ UNCHANGED <<queue, locked, client, minted, late, catalog, permission, updates>>
  /\ UNCHANGED histories

Stale(j) == job[j].status = "awaiting_confirmation" /\ ~Confirmable(j)

\* Mutant: a stale confirmation is left as it is.
Retired_Kept(j) == job

\* A job that is retried because its confirmation is stale expires.
Retired(j) ==
  IF Stale(j)
  THEN [job EXCEPT ![j] = [@ EXCEPT !.status = "expired", !.token = 0]]
  ELSE job

Retry(j, child) ==
  /\ LockFree(j)
  /\ job[j].status \in {"failed", "completed_with_errors", "expired"} \/ Stale(j)
  /\ IsNew(child)
  /\ job' = [Retired(j) EXCEPT ![child] = QueuedRow(j)]
  /\ callbacks' = IF Stale(j) THEN callbacks \cup {<<j, 0>>} ELSE callbacks
  /\ retried' = retried \cup {j}
  /\ Sent(child)
  /\ UNCHANGED <<cache, locked, client, minted, late, catalog, permission, updates, applied,
                 undone>>

\* get_object of a PUT or PATCH.
BeginUpdate(c, j) ==
  /\ client[c] = AtRest
  /\ Exists(j)
  /\ updates < MaxUpdates
  /\ updates' = updates + 1
  /\ client' = [client EXCEPT ![c] = [job |-> j, row |-> job[j]]]
  /\ UNCHANGED <<job, cache, callbacks, queue, locked, minted, late, catalog, permission>>
  /\ UNCHANGED histories

\* The status of an ended job gives way to another.
Undone(j, status) ==
  IF job[j].status \in Final /\ status # job[j].status
  THEN [undone EXCEPT ![j] = @ + 1]
  ELSE undone

\* perform_update waits for the row, saves all columns as they were read, and inserts
\* the row again if it is gone.  The parent is the client's to choose.
Update(c, parent) ==
  LET j == client[c].job IN
  /\ j \in Jobs
  /\ LockFree(j)
  /\ parent \notin {0, j} => Exists(parent)
  /\ job' = [job EXCEPT ![j] = [client[c].row EXCEPT !.parent = parent]]
  /\ undone' = Undone(j, client[c].row.status)
  /\ client' = [client EXCEPT ![c] = AtRest]
  /\ UNCHANGED <<cache, callbacks, queue, locked, minted, late, catalog, permission, updates,
                 applied, retried>>

\* The request fails: it is refused, the parent is gone, the process dies.
UpdateFails(c) ==
  /\ client[c].job \in Jobs
  /\ client' = [client EXCEPT ![c] = AtRest]
  /\ UNCHANGED <<job, cache, callbacks, queue, locked, minted, late, catalog, permission,
                 updates>>
  /\ UNCHANGED histories

\* DELETE: a job that another names as its parent is protected.
Destroy(j) ==
  /\ Exists(j)
  /\ LockFree(j)
  /\ \A i \in Jobs : Exists(i) => job[i].parent # j
  /\ job' = [job EXCEPT ![j] = NewRow("gone", 0, 0)]
  /\ undone' = Undone(j, "gone")
  /\ UNCHANGED <<cache, callbacks, queue, locked, client, minted, late, catalog, permission,
                 updates, applied, retried>>

-----------------------------------------------------------------------------
(* process_import_job(commit=False).                                       *)

Preview(j) ==
  /\ Taken(j, "preview")
  /\ LockFree(j)
  /\ job[j].status = "queued"
  /\ \/ /\ minted < MaxTokens
        /\ minted' = minted + 1
        /\ job' = [job EXCEPT ![j] = [@ EXCEPT !.status = "awaiting_confirmation",
                                               !.token = minted',
                                               !.previewed = catalog]]
        /\ callbacks' = callbacks \cup {<<j, minted'>>}
     \/ /\ job' = SetStatus(j, "completed_with_errors")
        /\ UNCHANGED <<minted, callbacks>>
  /\ UNCHANGED <<cache, locked, client, late, catalog, permission, updates>>
  /\ UNCHANGED histories

(* process_import_job(commit=True).                                        *)

Committable(j) == job[j].status = "awaiting_confirmation"

\* The import does not parse any more: the job fails.
CommitErrors(j) ==
  /\ Taken(j, "commit")
  /\ LockFree(j)
  /\ Committable(j)
  /\ job' = SetStatus(j, "failed")
  /\ UNCHANGED <<cache, callbacks, locked, client, minted, late, catalog, permission, updates>>
  /\ UNCHANGED histories

\* _validate_commit_binding.  The user's row stays locked from here on.
BindingHolds(j) ==
  /\ TokenHolds(j)
  /\ job[j].permission = permission
  /\ job[j].previewed = catalog

Validate(j) ==
  /\ Taken(j, "commit")
  /\ LockFree(j)
  /\ Committable(j)
  /\ BindingHolds(j)
  /\ locked' = locked \cup {j}
  /\ UNCHANGED <<job, cache, callbacks, client, minted, late, catalog, permission, updates>>
  /\ UNCHANGED histories

Apply(j) ==
  /\ j \in locked
  /\ locked' = locked \ {j}
  /\ applied' = [applied EXCEPT ![j] = @ + 1]
  /\ job' = [job EXCEPT ![j] = [@ EXCEPT !.status = "completed", !.token = 0]]
  /\ callbacks' = callbacks \cup {<<j, 0>>}
  /\ UNCHANGED <<cache, queue, client, minted, late, catalog, permission, updates, retried,
                 undone>>

\* An exception: the except clause saves a status, then raises through
\* transaction.atomic, which takes the status back.
PreviewRaises(j) ==
  /\ Taken(j, "preview")
  /\ LockFree(j)
  /\ job[j].status = "queued"
  /\ UNCHANGED <<job, cache, callbacks, locked, client, minted, late, catalog, permission,
                 updates>>
  /\ UNCHANGED histories

CommitRaises(j) ==
  /\ Taken(j, "commit")
  /\ LockFree(j)
  /\ job[j].status \in {"queued", "completed_with_errors"} \/ Committable(j)
  /\ UNCHANGED <<job, cache, callbacks, locked, client, minted, late, catalog, permission,
                 updates>>
  /\ UNCHANGED histories

\* Writing the rows raises, or the worker dies: nothing was written.
ApplyRaises(j) ==
  /\ j \in locked
  /\ locked' = locked \ {j}
  /\ UNCHANGED <<job, cache, callbacks, queue, client, minted, late, catalog, permission,
                 updates>>
  /\ UNCHANGED histories

\* The job is past the step the delivery is about, or gone.
Ignore(j) ==
  /\ LockFree(j)
  /\ \/ Taken(j, "preview") /\ job[j].status # "queued"
     \/ Taken(j, "commit") /\ job[j].status \in {"completed", "failed", "cancelled",
                                                  "expired", "gone"}
  /\ UNCHANGED <<job, cache, callbacks, locked, client, minted, late, catalog, permission,
                 updates>>
  /\ UNCHANGED histories

-----------------------------------------------------------------------------
(* The environment.                                                        *)

RunCallback(j, token) ==
  /\ <<j, token>> \in callbacks
  /\ cache' = [cache EXCEPT ![j] = token]
  /\ callbacks' = callbacks \ {<<j, token>>}
  /\ UNCHANGED <<job, queue, locked, client, minted, late, catalog, permission, updates>>
  /\ UNCHANGED histories

\* The process dies between its commit and its callback.
LoseCallback(j, token) ==
  /\ <<j, token>> \in callbacks
  /\ callbacks' = callbacks \ {<<j, token>>}
  /\ UNCHANGED <<job, cache, queue, locked, client, minted, late, catalog, permission, updates>>
  /\ UNCHANGED histories

\* The cache evicts the secret, or its time is over.
Evict(j) ==
  /\ cache[j] # 0
  /\ cache' = [cache EXCEPT ![j] = 0]
  /\ UNCHANGED <<job, callbacks, queue, locked, client, minted, late, catalog, permission,
                 updates>>
  /\ UNCHANGED histories

\* The deadline of the oldest token that still has one passes.
RunOut ==
  /\ late < minted
  /\ late' = late + 1
  /\ UNCHANGED <<job, cache, callbacks, queue, locked, client, minted, catalog, permission,
                 updates>>
  /\ UNCHANGED histories

ChangeCatalog ==
  /\ catalog < MaxChanges
  /\ catalog' = catalog + 1
  /\ UNCHANGED <<job, cache, callbacks, queue, locked, client, minted, late, permission, updates>>
  /\ UNCHANGED histories

\* Mutant: the commit reads the user's rows without locking them.
UserLocked_Never == FALSE

UserLocked == locked # {}

\* A role is assigned or the sessions are revoked.
ChangePermission ==
  /\ ~UserLocked
  /\ permission < MaxChanges
  /\ permission' = permission + 1
  /\ UNCHANGED <<job, cache, callbacks, queue, locked, client, minted, late, catalog, updates>>
  /\ UNCHANGED histories

-----------------------------------------------------------------------------

Process(j) ==
  \/ Preview(j)
  \/ CommitErrors(j)
  \/ Validate(j)
  \/ Apply(j)
  \/ PreviewRaises(j)
  \/ CommitRaises(j)
  \/ ApplyRaises(j)
  \/ Ignore(j)

Next ==
  \/ \E j \in Jobs, parent \in 0 .. MaxJobs : Create(j, parent)
  \/ \E j \in Jobs : RequestCommit(j)
  \/ \E j \in Jobs : Cancel(j)
  \/ \E j, child \in Jobs : Retry(j, child)
  \/ \E c \in Clients, j \in Jobs : BeginUpdate(c, j)
  \/ \E c \in Clients, parent \in 0 .. MaxJobs : Update(c, parent)
  \/ \E c \in Clients : UpdateFails(c)
  \/ \E j \in Jobs : Destroy(j)
  \/ \E j \in Jobs : Process(j)
  \/ \E j \in Jobs, token \in Tokens : RunCallback(j, token)
  \/ \E j \in Jobs, token \in Tokens : LoseCallback(j, token)
  \/ \E j \in Jobs : Evict(j)
  \/ RunOut
  \/ ChangeCatalog
  \/ ChangePermission

Spec == Init /\ [][Next]_vars

-----------------------------------------------------------------------------
(* Properties.                                                             *)

\* However often a commit is asked for and delivered, the rows of a job are written
\* once, exactly when the job is completed, and not at all once a retry was made of
\* it.  Each further time takes a client that took the end of the job back, with a
\* PUT, PATCH or DELETE (views.py:853, 903-941; jobs.py:678-721).
AppliedOnce ==
  \A j \in Jobs :
    /\ applied[j] <= undone[j] + (IF job[j].status = "completed" THEN 1 ELSE 0)
    /\ job[j].status = "completed" => applied[j] > 0
    /\ j \in retried => applied[j] <= undone[j]

\* A job that was cancelled, expired, failed or completed stays so: a commit under
\* way, a late delivery, a retry or a callback does not bring it back.  Only a PUT or
\* PATCH does that had read the job with another status, or it is deleted.
FinalIsFinal ==
  [][\A j \in Jobs :
       job[j].status \in Final =>
         \/ job'[j].status \in {job[j].status, "gone"}
         \/ \E c \in Clients : /\ client[c].job = j /\ client'[c] = AtRest
                               /\ client[c].row.status # job[j].status]_vars

\* When rows are written, the user still has the permissions with which the import
\* was made, although they were checked before the rows were, and although a client
\* may save a row with older permissions meanwhile.
CommitIsAuthorised ==
  [][\A j \in Jobs : applied'[j] # applied[j] => job[j].permission = permission]_vars
=============================================================================
