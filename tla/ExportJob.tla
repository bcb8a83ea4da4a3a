------------------------------- MODULE ExportJob -------------------------------
(***************************************************************************)
(* Export jobs: ExportJobViewSet of plm/views.py, and run_export_job and   *)
(* cancel_export_job of plm/jobs.py.                                       *)
(*                                                                         *)
(* Nothing locks a job.  A worker loads it, renders, puts the artifact at  *)
(* a key of the job's own, and saves its columns; it never looks at the    *)
(* status.  A cancel reads the status and then saves it.  PUT and PATCH,   *)
(* which the view set inherits, read the job and save all its columns.     *)
(*                                                                         *)
(* row_version is left out: it is compared once, with a row read without a *)
(* lock, and a client can always have read it just before.  So are the     *)
(* expiry of an artifact, which only withdraws it, and the count of        *)
(* downloads, which has a column and a save of its own.                    *)
(***************************************************************************)
EXTENDS Naturals

CONSTANTS
  Jobs,           \* jobs
  Formats,        \* formats, and so extensions of the artifact's key
  Contents,       \* what may be rendered, as the catalogue changes
  Workers,        \* Celery workers
  Clients,        \* requests to update or to cancel
  Nothing,        \* no key, no checksum, no object
  MaxRedelivered  \* bound: tasks that the broker delivers again

ASSUME NothingAssumption == Nothing \notin Formats \cup Contents
ASSUME RedeliveredAssumption == MaxRedelivered \in Nat

VARIABLES
  job,         \* job[j]: the ExportJob row, Unmade or Gone
  bucket,      \* bucket[j][f]: the object at the job's key with that extension
  tasks,       \* tasks[j]: run_export_job tasks waiting
  worker,      \* worker[w]: a run in progress, or AtRest
  client,      \* client[c]: a request in progress, or AtRest
  redelivered, \* tasks delivered again so far
  runs         \* runs[j]: history, runs that loaded the job

exportVars == <<job, bucket, tasks, worker, client, redelivered, runs>>

Statuses == {"queued", "completed", "failed", "cancelled"}
Row == [status : Statuses, format : Formats, object : Formats \cup {Nothing},
        sha : Contents \cup {Nothing}]
Unmade == [state |-> "unmade"]
Gone == [state |-> "gone"]
AtRest == [step |-> "idle"]
Running == [step : {"loaded", "stored"}, job : Jobs, row : Row, body : Contents \cup {Nothing}]
Asking == [step : {"update", "cancel"}, job : Jobs, row : Row]

ExportTypeOK ==
  /\ job \in [Jobs -> Row \cup {Unmade, Gone}]
  /\ bucket \in [Jobs -> [Formats -> Contents \cup {Nothing}]]
  /\ tasks \in [Jobs -> Nat]
  /\ worker \in [Workers -> Running \cup {AtRest}]
  /\ client \in [Clients -> Asking \cup {AtRest}]
  /\ redelivered \in 0 .. MaxRedelivered
  /\ runs \in [Jobs -> Nat]

ExportInit ==
  /\ job = [j \in Jobs |-> Unmade]
  /\ bucket = [j \in Jobs |-> [f \in Formats |-> Nothing]]
  /\ tasks = [j \in Jobs |-> 0]
  /\ worker = [w \in Workers |-> AtRest]
  /\ client = [c \in Clients |-> AtRest]
  /\ redelivered = 0
  /\ runs = [j \in Jobs |-> 0]

Exists(j) == job[j] \notin {Unmade, Gone}

-----------------------------------------------------------------------------
(* Making a job, and what the broker does with its task.                   *)

\* create, and export_rows of the categories: the row is saved, and the task sent off;
\* that it could not be sent (n = 0) is passed over.
Create(j, f, n) ==
  /\ job[j] = Unmade
  /\ job' = [job EXCEPT ![j] =
       [status |-> "queued", format |-> f, object |-> Nothing, sha |-> Nothing]]
  /\ tasks' = [tasks EXCEPT ![j] = n]
  /\ UNCHANGED <<bucket, worker, client, redelivered, runs>>

\* A task that no worker had acknowledged in time is delivered again.
Redeliver(j) ==
  /\ job[j] # Unmade
  /\ redelivered < MaxRedelivered
  /\ redelivered' = redelivered + 1
  /\ tasks' = [tasks EXCEPT ![j] = @ + 1]
  /\ UNCHANGED <<job, bucket, worker, client, runs>>

-----------------------------------------------------------------------------
(* run_export_job                                                          *)

\* The task is acknowledged and the job loaded; if it is gone, that is all.
Load(w, j) ==
  /\ worker[w] = AtRest
  /\ tasks[j] > 0
  /\ tasks' = [tasks EXCEPT ![j] = @ - 1]
  /\ IF Exists(j)
     THEN /\ worker' = [worker EXCEPT ![w] =
               [step |-> "loaded", job |-> j, row |-> job[j], body |-> Nothing]]
          /\ runs' = [runs EXCEPT ![j] = @ + 1]
     ELSE UNCHANGED <<worker, runs>>
  /\ UNCHANGED <<job, bucket, client, redelivered>>

Stored(w, body) == [bucket EXCEPT ![worker[w].job][worker[w].row.format] = body]

\* The catalogue is rendered as it is, and the artifact put.
Put(w, body) ==
  /\ worker[w] # AtRest /\ worker[w].step = "loaded"
  /\ bucket' = Stored(w, body)
  /\ worker' = [worker EXCEPT ![w].step = "stored", ![w].body = body]
  /\ UNCHANGED <<job, tasks, client, redelivered, runs>>

\* Saving some columns of a row that is gone fails, in the except clause too.
Saved(j, row) == IF Exists(j) THEN [job EXCEPT ![j] = row] ELSE job

\* Mutant: the key is made from the format the job has by now.
Completed_NewFormat(w) ==
  [job[worker[w].job] EXCEPT !.status = "completed", !.object = job[worker[w].job].format,
                             !.sha = worker[w].body]

Completed(w) ==
  [job[worker[w].job] EXCEPT !.status = "completed", !.object = worker[w].row.format,
                             !.sha = worker[w].body]

Complete(w) ==
  /\ worker[w] # AtRest /\ worker[w].step = "stored"
  /\ job' = Saved(worker[w].job, Completed(w))
  /\ worker' = [worker EXCEPT ![w] = AtRest]
  /\ UNCHANGED <<bucket, tasks, client, redelivered, runs>>

Failure == "failed"

\* The render or the store fails; the object may be there all the same.
Fail(w, body) ==
  /\ worker[w] # AtRest /\ worker[w].step = "loaded"
  /\ job' = Saved(worker[w].job, [job[worker[w].job] EXCEPT !.status = Failure])
  /\ bucket' = IF body = Nothing THEN bucket ELSE Stored(w, body)
  /\ worker' = [worker EXCEPT ![w] = AtRest]
  /\ UNCHANGED <<tasks, client, redelivered, runs>>

\* The worker dies; its task was acknowledged.
Die(w) ==
  /\ worker[w] # AtRest
  /\ worker' = [worker EXCEPT ![w] = AtRest]
  /\ UNCHANGED <<job, bucket, tasks, client, redelivered, runs>>

-----------------------------------------------------------------------------
(* Requests.                                                               *)

\* get_object, and cancel_export_job up to the test of the status.
Ask(c, j, step) ==
  /\ client[c] = AtRest
  /\ client' = [client EXCEPT ![c] = [step |-> step, job |-> j, row |-> job[j]]]
  /\ UNCHANGED <<job, bucket, tasks, worker, redelivered, runs>>

BeginUpdate(c, j) == Exists(j) /\ Ask(c, j, "update")

\* All columns are saved as they were read; a row that is gone is inserted again.
Update(c, f) ==
  /\ client[c] # AtRest /\ client[c].step = "update"
  /\ job' = [job EXCEPT ![client[c].job] = [client[c].row EXCEPT !.format = f]]
  /\ client' = [client EXCEPT ![c] = AtRest]
  /\ UNCHANGED <<bucket, tasks, worker, redelivered, runs>>

\* Mutant: a job is cancelled whatever its status.
MayCancel_Any(row) == TRUE

MayCancel(row) == row.status = "queued"

BeginCancel(c, j) == Exists(j) /\ MayCancel(job[j]) /\ Ask(c, j, "cancel")

\* Only the status is saved.
Cancel(c) ==
  /\ client[c] # AtRest /\ client[c].step = "cancel"
  /\ job' = Saved(client[c].job, [job[client[c].job] EXCEPT !.status = "cancelled"])
  /\ client' = [client EXCEPT ![c] = AtRest]
  /\ UNCHANGED <<bucket, tasks, worker, redelivered, runs>>

Destroy(j) ==
  /\ Exists(j)
  /\ job' = [job EXCEPT ![j] = Gone]
  /\ UNCHANGED <<bucket, tasks, worker, client, redelivered, runs>>

-----------------------------------------------------------------------------

ExportNext ==
  \/ \E j \in Jobs, f \in Formats, n \in {0, 1} : Create(j, f, n)
  \/ \E j \in Jobs : Redeliver(j)
  \/ \E w \in Workers, j \in Jobs : Load(w, j)
  \/ \E w \in Workers, body \in Contents : Put(w, body)
  \/ \E w \in Workers : Complete(w)
  \/ \E w \in Workers, body \in Contents \cup {Nothing} : Fail(w, body)
  \/ \E w \in Workers : Die(w)
  \/ \E c \in Clients, j \in Jobs : BeginUpdate(c, j)
  \/ \E c \in Clients, f \in Formats : Update(c, f)
  \/ \E c \in Clients, j \in Jobs : BeginCancel(c, j)
  \/ \E c \in Clients : Cancel(c)
  \/ \E j \in Jobs : Destroy(j)

ExportSpec == ExportInit /\ [][ExportNext]_exportVars

-----------------------------------------------------------------------------
(* Correctness.                                                            *)

\* What is offered for download is there: a completed job's key holds an object, whatever
\* saved the job since it was put there; and unless the task ran twice, it is the object
\* whose checksum the job has.
OfferedIsStored ==
  \A j \in Jobs : Exists(j) /\ job[j].status = "completed" =>
    /\ job[j].object # Nothing
    /\ bucket[j][job[j].object] # Nothing
    /\ runs[j] <= 1 => bucket[j][job[j].object] = job[j].sha

\* A completed job stops being so only by a request that had read it before it was
\* completed, or because its task runs a second time, or because it is deleted.
CompletedStands ==
  [][\A j \in Jobs :
       Exists(j) /\ job[j].status = "completed" /\ runs[j] <= 1 /\ job'[j] # Gone =>
         \/ job'[j].status = "completed"
         \/ \E c \in Clients : /\ client[c] # AtRest /\ client[c].job = j
                               /\ client[c].row.status # "completed"]_exportVars
=============================================================================
