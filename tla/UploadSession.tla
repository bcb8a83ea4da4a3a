---------------------------- MODULE UploadSession ----------------------------
(***************************************************************************)
(* One multipart upload: the UploadSession row, the object store behind    *)
(* it, the API requests that complete or cancel it (UploadSessionViewSet   *)
(* of plm/views.py), and the Celery workers that finalize a large one      *)
(* (finalize_upload_job of plm/jobs.py).                                   *)
(*                                                                         *)
(* No request locks the row or runs in a transaction: each reads it once,  *)
(* decides on what it read, talks to the object store, and saves a few of  *)
(* its columns.  The contents a client can upload are those that pass the  *)
(* check of size and checksum ("good") and those that do not ("bad").      *)
(***************************************************************************)
EXTENDS Naturals

CONSTANTS
  Clients,     \* API requests at work at a time
  Workers,     \* Celery workers
  Jobs,        \* FinalizeJob rows there is room for
  MaxRequests, \* bound: requests that get past their checks
  MaxFaults    \* bound: crashes, lost answers, lost or repeated tasks

ASSUME ProcessesAssumption == Clients \cap Workers = {}
ASSUME BoundsAssumption == MaxRequests \in Nat /\ MaxFaults \in Nat

VARIABLES
  session,  \* the row: state and generation
  large,    \* it is finalized by a worker
  elapsed,  \* its expires_at has passed
  parts,    \* the multipart upload: what its parts hold, or "gone" once committed
  object,   \* the object committed at its key, or "none"
  job,      \* job[j]: the FinalizeJob row
  tasks,    \* tasks[j]: finalize tasks waiting
  proc,     \* proc[p]: the request or the task p is at work on, or Idle
  attached, \* an attachment refers to the session
  requests, \* number of requests so far
  faults,   \* number of faults so far
  lost      \* history: a fault has lost a task or what a process was at work on

vars ==
  <<session, large, elapsed, parts, object, job, tasks, proc, attached, requests, faults, lost>>

Processes == Clients \cup Workers
Contents == {"good", "bad"}
\* "verified" and "failed" are read, but nothing writes them.
Row == [state : {"created", "uploaded", "expired", "cancelled"}, generation : Nat]
JobRow == [status : {"none", "queued", "running", "completed", "failed"}, content : Contents]
Idle == [step |-> "idle"]
Working ==
  [step : {"expiring", "cancelling", "starting", "reconciling", "committing", "verifying",
           "verified", "saved", "refreshed", "ending"},
   session : Row, content : Contents, job : Jobs \cup {"none"}]

TypeOK ==
  /\ session \in Row
  /\ large \in BOOLEAN
  /\ elapsed \in BOOLEAN
  /\ parts \in Contents \cup {"partial", "gone"}
  /\ object \in Contents \cup {"none"}
  /\ job \in [Jobs -> JobRow]
  /\ tasks \in [Jobs -> 0 .. MaxFaults + 1]
  /\ proc \in [Processes -> Working \cup {Idle}]
  /\ attached \in BOOLEAN
  /\ requests \in 0 .. MaxRequests
  /\ faults \in 0 .. MaxFaults
  /\ lost \in BOOLEAN

Init ==
  /\ session = [state |-> "created", generation |-> 1]
  /\ large \in BOOLEAN
  /\ elapsed = FALSE
  /\ parts = "partial"
  /\ object = "none"
  /\ job = [j \in Jobs |-> [status |-> "none", content |-> "good"]]
  /\ tasks = [j \in Jobs |-> 0]
  /\ proc = [p \in Processes |-> Idle]
  /\ attached = FALSE
  /\ requests = 0
  /\ faults = 0
  /\ lost = FALSE

Fault == faults < MaxFaults /\ faults' = faults + 1

-----------------------------------------------------------------------------
(* The store, the clock, and the attachment.                               *)

\* The client puts parts to the URLs it was given, whatever became of the session.
PutParts(content) ==
  /\ parts # "gone"
  /\ parts' = content
  /\ UNCHANGED <<session, large, elapsed, object, job, tasks, proc, attached, requests, faults, lost>>

Elapse ==
  /\ ~elapsed
  /\ elapsed' = TRUE
  /\ UNCHANGED <<session, large, parts, object, job, tasks, proc, attached, requests, faults, lost>>

\* PartAttachmentViewSet.perform_create
Attach ==
  /\ session.state = "uploaded"
  /\ ~attached
  /\ attached' = TRUE
  /\ UNCHANGED <<session, large, elapsed, parts, object, job, tasks, proc, requests, faults, lost>>

-----------------------------------------------------------------------------
(* A process.                                                              *)

Goes(p, step) == proc' = [proc EXCEPT ![p].step = step]
Ends(p) == proc' = [proc EXCEPT ![p] = Idle]
IsAt(p, step) == proc[p].step = step

Begins(p, step, content, j) ==
  proc' = [proc EXCEPT ![p] =
             [step |-> step, session |-> session, content |-> content, job |-> j]]

\* Mutant: what was verified is saved as "verified".
WithState_Verified(state) ==
  [session EXCEPT !.state = IF state = "uploaded" THEN "verified" ELSE state]

\* The row that saving a new state leaves, its other columns untouched.
WithState(state) == [session EXCEPT !.state = state]

\* A worker that ends has its job to answer for.
Answered(p, status) ==
  IF p \in Workers THEN [job EXCEPT ![proc[p].job].status = status] ELSE job

\* A client that has read the row it names in If-Match.
Request(c) == IsAt(c, "idle") /\ requests < MaxRequests /\ requests' = requests + 1

\* Mutant: a completed upload can be completed, expired and cancelled again.
Open_Always == TRUE

\* The row, as read, is not that of a completed upload.
Open == session.state # "uploaded"

\* complete: the time is up.
BeginExpire(c) ==
  /\ Request(c)
  /\ Open /\ elapsed
  /\ Begins(c, "expiring", "good", "none")
  /\ UNCHANGED <<session, large, elapsed, parts, object, job, tasks, attached, faults, lost>>

Expire(c) ==
  /\ IsAt(c, "expiring")
  /\ session' = WithState("expired")
  /\ Ends(c)
  /\ UNCHANGED <<large, elapsed, parts, object, job, tasks, attached, requests, faults, lost>>

\* complete: the client says what the parts hold.
BeginComplete(c, content) ==
  /\ Request(c)
  /\ Open /\ ~elapsed
  /\ ~large
  /\ Begins(c, "reconciling", content, "none")
  /\ UNCHANGED <<session, large, elapsed, parts, object, job, tasks, attached, faults, lost>>

\* complete, for a large upload: every request makes a job.
CreateJob(c, j, content) ==
  /\ Request(c)
  /\ Open /\ ~elapsed
  /\ large
  /\ job[j].status = "none"
  /\ \/ /\ job' = [job EXCEPT ![j] = [status |-> "queued", content |-> content]]
        /\ tasks' = [tasks EXCEPT ![j] = 1]
        /\ UNCHANGED faults
     \/ /\ Fault \* the broker refuses the task
        /\ job' = [job EXCEPT ![j] = [status |-> "failed", content |-> content]]
        /\ UNCHANGED tasks
  /\ UNCHANGED <<session, large, elapsed, parts, object, proc, attached, lost>>

BeginCancel(c) ==
  /\ Request(c)
  /\ Open
  /\ Begins(c, "cancelling", "good", "none")
  /\ UNCHANGED <<session, large, elapsed, parts, object, job, tasks, attached, faults, lost>>

Cancel(c) ==
  /\ IsAt(c, "cancelling")
  /\ session' = [state |-> "cancelled", generation |-> proc[c].session.generation + 1]
  /\ Ends(c)
  /\ UNCHANGED <<large, elapsed, parts, object, job, tasks, attached, requests, faults, lost>>

\* finalize_upload_job reads the job and its session; a completed job is left alone.
TakeTask(w, j) ==
  /\ IsAt(w, "idle")
  /\ tasks[j] > 0
  /\ tasks' = [tasks EXCEPT ![j] = @ - 1]
  /\ IF job[j].status = "completed"
     THEN UNCHANGED proc
     ELSE Begins(w, "starting", job[j].content, j)
  /\ UNCHANGED <<session, large, elapsed, parts, object, job, attached, requests, faults, lost>>

StartJob(w) ==
  /\ IsAt(w, "starting")
  /\ job' = Answered(w, "running")
  /\ Goes(w, "reconciling")
  /\ UNCHANGED <<session, large, elapsed, parts, object, tasks, attached, requests, faults, lost>>

-----------------------------------------------------------------------------
(* _complete_upload_session, for a request and for a worker alike.         *)

\* Mutant: a job that fails is left running.
Failed_Running(p) == job

\* An exception: the request answers with an error, the worker's job has failed.
Failed(p) == Answered(p, "failed")

\* The parts at the store are those the client names.
Reconcile(p) ==
  /\ IsAt(p, "reconciling")
  /\ IF parts = proc[p].content
     THEN Goes(p, "committing") /\ UNCHANGED job
     ELSE Ends(p) /\ job' = Failed(p)
  /\ UNCHANGED <<session, large, elapsed, parts, object, tasks, attached, requests, faults, lost>>

\* complete_multipart_upload: the store checks the parts again, and takes them once.
CommitParts(p) ==
  /\ IsAt(p, "committing")
  /\ IF parts = proc[p].content
     THEN /\ object' = parts
          /\ parts' = "gone"
          /\ Goes(p, "verifying")
          /\ UNCHANGED job
     ELSE Ends(p) /\ job' = Failed(p) /\ UNCHANGED <<parts, object>>
  /\ UNCHANGED <<session, large, elapsed, tasks, attached, requests, faults, lost>>

\* The store takes the parts, and its answer is lost.
CommitUnanswered(p) ==
  /\ IsAt(p, "committing")
  /\ parts = proc[p].content
  /\ Fault
  /\ object' = parts
  /\ parts' = "gone"
  /\ Ends(p)
  /\ job' = Failed(p)
  /\ UNCHANGED <<session, large, elapsed, tasks, attached, requests, lost>>

\* Mutant: the size and the checksum are not compared.
Passes_Always == TRUE

\* head_object's length, and the digest of the bytes.
Passes == object = "good"

Verify(p) ==
  /\ IsAt(p, "verifying")
  /\ IF Passes
     THEN Goes(p, "verified") /\ UNCHANGED job
     ELSE Ends(p) /\ job' = Failed(p)
  /\ UNCHANGED <<session, large, elapsed, parts, object, tasks, attached, requests, faults, lost>>

SaveUploaded(p) ==
  /\ IsAt(p, "verified")
  /\ session' = WithState("uploaded")
  /\ Goes(p, "saved")
  /\ UNCHANGED <<large, elapsed, parts, object, job, tasks, attached, requests, faults, lost>>

Refresh(p) ==
  /\ IsAt(p, "saved")
  /\ proc' = [proc EXCEPT ![p].step = "refreshed", ![p].session = session]
  /\ UNCHANGED <<session, large, elapsed, parts, object, job, tasks, attached, requests, faults, lost>>

Bump(p) ==
  /\ IsAt(p, "refreshed")
  /\ session' = [session EXCEPT !.generation = proc[p].session.generation + 1]
  /\ IF p \in Workers THEN Goes(p, "ending") ELSE Ends(p)
  /\ UNCHANGED <<large, elapsed, parts, object, job, tasks, attached, requests, faults, lost>>

EndJob(w) ==
  /\ IsAt(w, "ending")
  /\ job' = Answered(w, "completed")
  /\ Ends(w)
  /\ UNCHANGED <<session, large, elapsed, parts, object, tasks, attached, requests, faults, lost>>

-----------------------------------------------------------------------------
(* Faults.                                                                 *)

Crash(p) ==
  /\ proc[p] # Idle
  /\ Fault
  /\ Ends(p)
  /\ lost' = TRUE
  /\ UNCHANGED <<session, large, elapsed, parts, object, job, tasks, attached, requests>>

\* The broker delivers a task of j once more.
Redeliver(j) ==
  /\ job[j].status # "none"
  /\ Fault
  /\ tasks' = [tasks EXCEPT ![j] = @ + 1]
  /\ UNCHANGED <<session, large, elapsed, parts, object, job, proc, attached, requests, lost>>

LoseTask(j) ==
  /\ tasks[j] > 0
  /\ Fault
  /\ tasks' = [tasks EXCEPT ![j] = @ - 1]
  /\ lost' = TRUE
  /\ UNCHANGED <<session, large, elapsed, parts, object, job, proc, attached, requests>>

-----------------------------------------------------------------------------

Proceed(p) ==
  \/ Expire(p)
  \/ Cancel(p)
  \/ StartJob(p)
  \/ Reconcile(p)
  \/ CommitParts(p)
  \/ Verify(p)
  \/ SaveUploaded(p)
  \/ Refresh(p)
  \/ Bump(p)
  \/ EndJob(p)

Next ==
  \/ \E content \in Contents : PutParts(content)
  \/ Elapse
  \/ Attach
  \/ \E c \in Clients : BeginExpire(c)
  \/ \E c \in Clients, content \in Contents : BeginComplete(c, content)
  \/ \E c \in Clients, j \in Jobs, content \in Contents : CreateJob(c, j, content)
  \/ \E c \in Clients : BeginCancel(c)
  \/ \E w \in Workers, j \in Jobs : TakeTask(w, j)
  \/ \E p \in Processes : Proceed(p)
  \/ \E p \in Processes : CommitUnanswered(p)
  \/ \E p \in Processes : Crash(p)
  \/ \E j \in Jobs : Redeliver(j)
  \/ \E j \in Jobs : LoseTask(j)

Spec == Init /\ [][Next]_vars

\* A request or a task goes on until it ends, and a free worker takes a task.
Fairness ==
  /\ \A p \in Processes : WF_vars(Proceed(p))
  /\ \A j \in Jobs : WF_vars(\E w \in Workers : TakeTask(w, j))

FairSpec == Spec /\ Fairness

-----------------------------------------------------------------------------
(* Correctness.                                                            *)

\* Whoever says that the upload is complete, the row, a job or an attachment, speaks of
\* an object whose size and checksum were verified, whatever raced or was repeated.
Complete == session.state = "uploaded" \/ attached \/ \E j \in Jobs : job[j].status = "completed"
UploadedIsVerified == Complete => object = "good"

\* Only a request that was under way while the upload was completed undoes that, and it
\* does so with a generation or a state that it read before.
Undoes(p) ==
  /\ proc[p] # Idle
  /\ proc[p].step \in {"expiring", "cancelling"}
  /\ proc[p].session.state # "uploaded"
OnlyOverlapsUndo ==
  [][session.state = "uploaded" /\ session'.state # "uploaded" =>
       \E c \in Clients : Undoes(c) /\ proc'[c] = Idle]_vars

\* Unless a task is lost or a worker dies, no FinalizeJob waits or runs for ever.
UnderWay(j) == job[j].status \in {"queued", "running"}
JobsEnd == [](~lost) => \A j \in Jobs : []<>~UnderWay(j)
=============================================================================
