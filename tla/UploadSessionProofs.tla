------------------------- MODULE UploadSessionProofs -------------------------
(***************************************************************************)
(* For any number of requests, workers, jobs and faults: who says that the *)
(* upload is complete speaks of a verified object, and what undoes that    *)
(* was under way before it was completed.                                  *)
(***************************************************************************)
EXTENDS UploadSession, TLAPS

\* A task waits only for a job that was created, and is repeated only by faults.
TasksBounded ==
  \A j \in Jobs : tasks[j] <= faults + 1 /\ (job[j].status = "none" => tasks[j] = 0)

\* The store takes the parts once.
TakenOnce == object # "none" => parts = "gone"

\* Past the check of size and checksum a process knows that the object is good.
PastCheck == {"verified", "saved", "refreshed", "ending"}
CheckedIsGood == \A p \in Processes : proc[p].step \in PastCheck => object = "good"

\* Only a client's request expires or cancels, and what it read was not complete.
Undoing == {"expiring", "cancelling"}
UndoesOpen ==
  \A p \in Processes :
    proc[p].step \in Undoing => p \in Clients /\ proc[p].session.state # "uploaded"

Safe == TakenOnce /\ CheckedIsGood /\ UndoesOpen /\ UploadedIsVerified

Inv == TypeOK /\ TasksBounded /\ Safe

-----------------------------------------------------------------------------

LEMMA InitInv == Init => Inv
<1> SUFFICES ASSUME Init PROVE Inv
  OBVIOUS
<1>1. TypeOK
  <2>1. session \in Row /\ requests \in 0 .. MaxRequests /\ faults \in 0 .. MaxFaults
    BY BoundsAssumption DEF Init, Row
  <2>2. job \in [Jobs -> JobRow] /\ tasks \in [Jobs -> 0 .. MaxFaults + 1]
    BY BoundsAssumption DEF Init, JobRow, Contents
  <2>3. proc \in [Processes -> Working \cup {Idle}]
    BY DEF Init
  <2> QED BY <2>1, <2>2, <2>3 DEF Init, TypeOK
<1>2. TasksBounded
  BY DEF Init, TasksBounded
<1>3. Safe
  BY DEF Init, Safe, TakenOnce, CheckedIsGood, PastCheck, UndoesOpen, Undoing, Idle,
         UploadedIsVerified, Complete
<1> QED BY <1>1, <1>2, <1>3 DEF Inv

\* A process that is anywhere but idle has a record of what it is at work on.
LEMMA AtWork ==
  ASSUME TypeOK, NEW p \in Processes
  PROVE  /\ proc[p].step # "idle" => proc[p] \in Working
         /\ Idle.step = "idle"
         /\ proc[p] \in Working => proc[p] # Idle /\ proc[p].session \in Row
BY DEF TypeOK, Idle, Working

\* What a process does next, and how it ends, keeps proc well formed.
Steps == {"expiring", "cancelling", "starting", "reconciling", "committing", "verifying",
          "verified", "saved", "refreshed", "ending"}

LEMMA ProcOK ==
  ASSUME TypeOK, NEW p \in Processes
  PROVE  /\ \A step \in Steps :
              proc[p].step # "idle" /\ Goes(p, step) => proc' \in [Processes -> Working \cup {Idle}]
         /\ Ends(p) => proc' \in [Processes -> Working \cup {Idle}]
         /\ \A step \in Steps, content \in Contents, j \in Jobs \cup {"none"} :
              Begins(p, step, content, j) => proc' \in [Processes -> Working \cup {Idle}]
<1>1. ASSUME NEW step \in Steps, proc[p].step # "idle", Goes(p, step)
      PROVE  proc' \in [Processes -> Working \cup {Idle}]
  <2>1. proc[p] \in Working
    BY <1>1, AtWork
  <2>2. [proc[p] EXCEPT !.step = step] \in Working
    BY <2>1 DEF Working, Steps
  <2> QED BY <1>1, <2>2 DEF Goes, TypeOK
<1>2. Ends(p) => proc' \in [Processes -> Working \cup {Idle}]
  BY DEF Ends, TypeOK
<1>3. ASSUME NEW step \in Steps, NEW content \in Contents, NEW j \in Jobs \cup {"none"},
             Begins(p, step, content, j)
      PROVE  proc' \in [Processes -> Working \cup {Idle}]
  <2>1. [step |-> step, session |-> session, content |-> content, job |-> j] \in Working
    BY DEF Working, Steps, TypeOK
  <2> QED BY <1>3, <2>1 DEF Begins, TypeOK
<1> QED BY <1>1, <1>2, <1>3

\* A worker's answer leaves the jobs well formed, and makes none out of nothing.
LEMMA JobsOK ==
  ASSUME TypeOK, NEW p, NEW status \in {"running", "completed", "failed"}
  PROVE  /\ Answered(p, status) \in [Jobs -> JobRow]
         /\ \A j \in Jobs : Answered(p, status)[j].status \in {job[j].status, status}
BY DEF Answered, TypeOK, JobRow

-----------------------------------------------------------------------------
(* TypeOK.                                                                 *)

LEMMA ClientTypes ==
  ASSUME Inv, NEW c \in Clients,
         \/ BeginExpire(c) \/ Expire(c) \/ BeginCancel(c) \/ Cancel(c)
         \/ \E content \in Contents : BeginComplete(c, content)
         \/ \E j \in Jobs, content \in Contents : CreateJob(c, j, content)
  PROVE  TypeOK' /\ TasksBounded'
<1> USE BoundsAssumption DEF Inv
<1>0. c \in Processes
  BY DEF Processes
<1>1. ASSUME BeginExpire(c) \/ BeginCancel(c) \/ \E content \in Contents : BeginComplete(c, content)
      PROVE  TypeOK' /\ TasksBounded'
  <2>1. proc' \in [Processes -> Working \cup {Idle}]
    BY <1>0, <1>1, ProcOK DEF BeginExpire, BeginCancel, BeginComplete, Steps, Contents
  <2> QED BY <1>1, <2>1
      DEF BeginExpire, BeginCancel, BeginComplete, Request, TypeOK, TasksBounded
<1>2. CASE Expire(c)
  <2>1. session' \in Row
    BY <1>2 DEF Expire, WithState, TypeOK, Row
  <2> QED BY <1>0, <1>2, <2>1, ProcOK DEF Expire, TypeOK, TasksBounded
<1>3. CASE Cancel(c)
  <2>1. session' \in Row
    BY <1>0, <1>3, AtWork DEF Cancel, IsAt, Row
  <2> QED BY <1>0, <1>3, <2>1, ProcOK DEF Cancel, TypeOK, TasksBounded
<1>4. ASSUME NEW j \in Jobs, NEW content \in Contents, CreateJob(c, j, content)
      PROVE  TypeOK' /\ TasksBounded'
  <2>1. job' \in [Jobs -> JobRow] /\ tasks' \in [Jobs -> 0 .. MaxFaults + 1]
    BY <1>4 DEF CreateJob, TypeOK, JobRow
  <2>2. requests' \in 0 .. MaxRequests /\ faults' \in 0 .. MaxFaults /\ faults' >= faults
    BY <1>4 DEF CreateJob, Request, Fault, TypeOK
  <2>3. TasksBounded'
    BY <1>4, <2>2 DEF CreateJob, TypeOK, TasksBounded
  <2> QED BY <1>4, <2>1, <2>2, <2>3 DEF CreateJob, TypeOK
<1> QED BY <1>1, <1>2, <1>3, <1>4

\* _complete_upload_session and the worker's own steps.
Completes(p) ==
  \/ StartJob(p) \/ Reconcile(p) \/ CommitParts(p) \/ CommitUnanswered(p) \/ Verify(p)
  \/ SaveUploaded(p) \/ Refresh(p) \/ Bump(p) \/ EndJob(p)

LEMMA ProcessTypes ==
  ASSUME Inv, NEW p \in Processes, Completes(p)
  PROVE  TypeOK' /\ TasksBounded'
<1> USE BoundsAssumption DEF Inv
<1>1. proc' \in [Processes -> Working \cup {Idle}]
  <2>1. CASE Refresh(p)
    <3>1. [proc[p] EXCEPT !.step = "refreshed", !.session = session] \in Working
      BY <2>1, AtWork DEF Refresh, IsAt, TypeOK, Working
    <3>2. proc' = [proc EXCEPT ![p] = [proc[p] EXCEPT !.step = "refreshed", !.session = session]]
      BY <2>1 DEF Refresh, TypeOK
    <3> QED BY <3>1, <3>2 DEF TypeOK
  <2>2. CASE ~Refresh(p)
    BY <2>2, ProcOK DEF Completes, StartJob, Reconcile, CommitParts, CommitUnanswered, Verify,
                        SaveUploaded, Bump, EndJob, IsAt, Steps
  <2> QED BY <2>1, <2>2
<1>2. job' = job \/ \E status \in {"running", "completed", "failed"} : job' = Answered(p, status)
  BY DEF Completes, StartJob, Reconcile, CommitParts, CommitUnanswered, Verify, SaveUploaded,
         Refresh, Bump, EndJob, Failed
<1>3. job' \in [Jobs -> JobRow] /\ \A j \in Jobs : job'[j].status = "none" => job[j].status = "none"
  BY <1>2, JobsOK DEF TypeOK
<1>4. session' \in Row
  <2>1. CASE SaveUploaded(p)
    BY <2>1 DEF SaveUploaded, WithState, TypeOK, Row
  <2>2. CASE Bump(p)
    BY <2>2, AtWork DEF Bump, IsAt, TypeOK, Row
  <2>3. CASE ~SaveUploaded(p) /\ ~Bump(p)
    BY <2>3 DEF Completes, StartJob, Reconcile, CommitParts, CommitUnanswered, Verify, Refresh,
                EndJob, TypeOK
  <2> QED BY <2>1, <2>2, <2>3
<1>5. parts' \in Contents \cup {"partial", "gone"} /\ object' \in Contents \cup {"none"}
  <2>1. proc[p].step = "committing" => proc[p].content \in Contents
    BY AtWork DEF Working
  <2> QED BY <2>1 DEF Completes, StartJob, Reconcile, CommitParts, CommitUnanswered, Verify,
                      SaveUploaded, Refresh, Bump, EndJob, IsAt, TypeOK
<1>6. faults' \in 0 .. MaxFaults /\ faults' >= faults
      /\ UNCHANGED <<large, elapsed, tasks, attached, requests, lost>>
  BY DEF Completes, StartJob, Reconcile, CommitParts, CommitUnanswered, Verify, SaveUploaded,
         Refresh, Bump, EndJob, Fault, TypeOK
<1>7. TasksBounded'
  BY <1>3, <1>6 DEF TasksBounded, TypeOK
<1> QED BY <1>1, <1>3, <1>4, <1>5, <1>6, <1>7 DEF TypeOK

LEMMA WorldTypes ==
  ASSUME Inv,
         \/ \E content \in Contents : PutParts(content)
         \/ Elapse \/ Attach
         \/ \E w \in Workers, j \in Jobs : TakeTask(w, j)
         \/ \E p \in Processes : Crash(p)
         \/ \E j \in Jobs : Redeliver(j) \/ LoseTask(j)
  PROVE  TypeOK' /\ TasksBounded'
<1> USE BoundsAssumption DEF Inv
<1>1. CASE (\E content \in Contents : PutParts(content)) \/ Elapse \/ Attach
  BY <1>1 DEF PutParts, Elapse, Attach, TypeOK, TasksBounded
<1>2. ASSUME NEW w \in Workers, NEW j \in Jobs, TakeTask(w, j)
      PROVE  TypeOK' /\ TasksBounded'
  <2>1. w \in Processes /\ job[j].content \in Contents
    BY DEF Processes, TypeOK, JobRow
  <2>2. proc' \in [Processes -> Working \cup {Idle}]
    BY <1>2, <2>1, ProcOK DEF TakeTask, Steps, TypeOK
  <2>3. tasks' \in [Jobs -> 0 .. MaxFaults + 1]
    BY <1>2 DEF TakeTask, TypeOK
  <2>4. TasksBounded'
    BY <1>2 DEF TakeTask, TypeOK, TasksBounded
  <2> QED BY <1>2, <2>2, <2>3, <2>4 DEF TakeTask, TypeOK
<1>3. ASSUME NEW p \in Processes, Crash(p)
      PROVE  TypeOK' /\ TasksBounded'
  BY <1>3, ProcOK DEF Crash, Fault, TypeOK, TasksBounded
<1>4. ASSUME NEW j \in Jobs, Redeliver(j) \/ LoseTask(j)
      PROVE  TypeOK' /\ TasksBounded'
  <2>1. faults' = faults + 1 /\ faults' \in 0 .. MaxFaults
    BY <1>4 DEF Redeliver, LoseTask, Fault, TypeOK
  <2>2. tasks[j] \in 0 .. MaxFaults + 1 /\ tasks[j] <= faults + 1
    BY DEF TypeOK, TasksBounded
  <2>3. tasks' \in [Jobs -> 0 .. MaxFaults + 1]
    BY <1>4, <2>1, <2>2 DEF Redeliver, LoseTask, TypeOK
  <2>4. TasksBounded'
    BY <1>4, <2>1, <2>2 DEF Redeliver, LoseTask, TypeOK, TasksBounded
  <2> QED BY <1>4, <2>1, <2>3, <2>4 DEF Redeliver, LoseTask, TypeOK
<1> QED BY <1>1, <1>2, <1>3, <1>4

-----------------------------------------------------------------------------
(* Safe.                                                                   *)

\* Where a process is after a step, and that the others stay where they are.
LEMMA ProcAfter ==
  ASSUME TypeOK, NEW p \in Processes
  PROVE  /\ \A step \in Steps :
              proc[p].step # "idle" /\ Goes(p, step) =>
                /\ proc'[p].step = step
                /\ proc'[p].session = proc[p].session
                /\ \A q \in Processes \ {p} : proc'[q] = proc[q]
         /\ Ends(p) => proc'[p] = Idle /\ \A q \in Processes \ {p} : proc'[q] = proc[q]
         /\ \A step \in Steps, content \in Contents, j \in Jobs \cup {"none"} :
              Begins(p, step, content, j) =>
                /\ proc'[p].step = step
                /\ proc'[p].session = session
                /\ \A q \in Processes \ {p} : proc'[q] = proc[q]
<1>1. ASSUME NEW step \in Steps, proc[p].step # "idle", Goes(p, step)
      PROVE  /\ proc'[p].step = step
             /\ proc'[p].session = proc[p].session
             /\ \A q \in Processes \ {p} : proc'[q] = proc[q]
  <2>1. proc[p] \in Working
    BY <1>1, AtWork
  <2>2. proc'[p] = [proc[p] EXCEPT !.step = step]
    BY <1>1 DEF Goes, TypeOK
  <2> QED BY <1>1, <2>1, <2>2 DEF Goes, TypeOK, Working
<1>2. Ends(p) => proc'[p] = Idle /\ \A q \in Processes \ {p} : proc'[q] = proc[q]
  BY DEF Ends, TypeOK
<1>3. ASSUME NEW step \in Steps, NEW content \in Contents, NEW j \in Jobs \cup {"none"},
             Begins(p, step, content, j)
      PROVE  /\ proc'[p].step = step
             /\ proc'[p].session = session
             /\ \A q \in Processes \ {p} : proc'[q] = proc[q]
  BY <1>3 DEF Begins, TypeOK
<1> QED BY <1>1, <1>2, <1>3

\* The claims that the upload is complete, when no step makes a new one.
LEMMA NoNewClaim ==
  ASSUME Inv, UNCHANGED <<parts, object>>, attached' => attached,
         session'.state = "uploaded" => session.state = "uploaded",
         \A j \in Jobs : job'[j].status = "completed" => job[j].status = "completed"
  PROVE  TakenOnce' /\ UploadedIsVerified'
BY DEF Inv, Safe, TakenOnce, UploadedIsVerified, Complete

LEMMA ClientSafe ==
  ASSUME Inv, NEW c \in Clients,
         \/ BeginExpire(c) \/ Expire(c) \/ BeginCancel(c) \/ Cancel(c)
         \/ \E content \in Contents : BeginComplete(c, content)
         \/ \E j \in Jobs, content \in Contents : CreateJob(c, j, content)
  PROVE  Safe'
<1>0. c \in Processes /\ TypeOK /\ Safe
  BY DEF Processes, Inv
<1>1. TakenOnce' /\ UploadedIsVerified'
  <2>1. session'.state = "uploaded" => session.state = "uploaded"
    BY <1>0 DEF BeginExpire, Expire, BeginCancel, Cancel, BeginComplete, CreateJob, WithState,
                TypeOK, Row
  <2>2. \A j \in Jobs : job'[j].status = "completed" => job[j].status = "completed"
    BY <1>0 DEF BeginExpire, Expire, BeginCancel, Cancel, BeginComplete, CreateJob, TypeOK
  <2>3. UNCHANGED <<parts, object, attached>>
    BY DEF BeginExpire, Expire, BeginCancel, Cancel, BeginComplete, CreateJob
  <2> QED BY <2>1, <2>2, <2>3, NoNewClaim
<1>2. CASE \E j \in Jobs, content \in Contents : CreateJob(c, j, content)
  BY <1>0, <1>1, <1>2 DEF CreateJob, Safe, CheckedIsGood, UndoesOpen
<1>3. CASE Expire(c) \/ Cancel(c)
  BY <1>0, <1>1, <1>3, ProcAfter
  DEF Expire, Cancel, Safe, CheckedIsGood, PastCheck, UndoesOpen, Undoing, Idle
<1>4. ASSUME BeginExpire(c) \/ BeginCancel(c) \/ \E content \in Contents : BeginComplete(c, content)
      PROVE  Safe'
  <2>1. /\ proc'[c].step \in Undoing \cup {"reconciling"}
        /\ proc'[c].session.state # "uploaded"
        /\ \A q \in Processes \ {c} : proc'[q] = proc[q]
    BY <1>0, <1>4, ProcAfter
    DEF BeginExpire, BeginCancel, BeginComplete, Open, Undoing, Steps, Contents
  <2>2. object' = object
    BY <1>4 DEF BeginExpire, BeginCancel, BeginComplete
  <2> QED BY <1>0, <1>1, <2>1, <2>2 DEF Safe, CheckedIsGood, PastCheck, UndoesOpen, Undoing
<1> QED BY <1>2, <1>3, <1>4

LEMMA ProcessSafe ==
  ASSUME Inv, NEW p \in Processes, Completes(p)
  PROVE  Safe'
<1>0. TypeOK /\ Safe
  BY DEF Inv
<1>1. CASE StartJob(p) \/ Reconcile(p)
  <2>1. /\ proc'[p].step \in {"idle", "reconciling", "committing"}
        /\ \A q \in Processes \ {p} : proc'[q] = proc[q]
    BY <1>0, <1>1, ProcAfter DEF StartJob, Reconcile, IsAt, Steps, Idle
  <2>2. \A j \in Jobs : job'[j].status = "completed" => job[j].status = "completed"
    BY <1>0, <1>1, JobsOK DEF StartJob, Reconcile, Failed
  <2>3. UNCHANGED <<parts, object, attached, session>>
    BY <1>1 DEF StartJob, Reconcile
  <2> QED BY <1>0, <2>1, <2>2, <2>3, NoNewClaim
      DEF Safe, CheckedIsGood, PastCheck, UndoesOpen, Undoing
<1>2. CASE CommitParts(p) \/ CommitUnanswered(p)
  <2>1. /\ proc'[p].step \in {"idle", "verifying"}
        /\ \A q \in Processes \ {p} : proc'[q] = proc[q]
    BY <1>0, <1>2, ProcAfter DEF CommitParts, CommitUnanswered, IsAt, Steps, Idle
  <2>2. \A j \in Jobs : job'[j].status = "completed" => job[j].status = "completed"
    BY <1>0, <1>2, JobsOK DEF CommitParts, CommitUnanswered, Failed
  <2>3. UNCHANGED <<attached, session>>
    BY <1>2 DEF CommitParts, CommitUnanswered
  <2>4. \/ UNCHANGED <<parts, object>>
        \/ parts # "gone" /\ parts' = "gone"
    <3>1. proc[p].step = "committing" => proc[p].content \in Contents
      BY <1>0, AtWork DEF Working
    <3> QED BY <1>2, <3>1 DEF CommitParts, CommitUnanswered, IsAt, Contents
  <2>5. CASE UNCHANGED <<parts, object>>
    BY <1>0, <2>1, <2>2, <2>3, <2>5, NoNewClaim
    DEF Safe, CheckedIsGood, PastCheck, UndoesOpen, Undoing
  <2>6. CASE parts # "gone" /\ parts' = "gone"
    <3>1. object # "good"
      BY <1>0, <2>6 DEF Safe, TakenOnce
    <3>2. TakenOnce' /\ ~Complete
      BY <1>0, <2>6, <3>1 DEF Safe, TakenOnce, UploadedIsVerified
    <3>3. ~Complete'
      BY <2>2, <2>3, <3>2 DEF Complete
    <3>4. \A q \in Processes : proc'[q].step \notin PastCheck
      BY <1>0, <2>1, <3>1 DEF Safe, CheckedIsGood, PastCheck
    <3> QED BY <1>0, <2>1, <3>2, <3>3, <3>4
        DEF Safe, CheckedIsGood, UndoesOpen, Undoing, UploadedIsVerified
  <2> QED BY <2>4, <2>5, <2>6
<1>3. CASE Verify(p)
  <2>1. /\ proc'[p].step = "idle" \/ (proc'[p].step = "verified" /\ object = "good")
        /\ \A q \in Processes \ {p} : proc'[q] = proc[q]
    <3>1. CASE Passes
      <4>1. proc[p].step # "idle" /\ Goes(p, "verified")
        BY <1>3, <3>1 DEF Verify, IsAt
      <4> QED BY <1>0, <3>1, <4>1, ProcAfter DEF Passes, Steps
    <3>2. CASE ~Passes
      BY <1>0, <1>3, <3>2, ProcAfter DEF Verify, Idle
    <3> QED BY <3>1, <3>2
  <2>2. \A j \in Jobs : job'[j].status = "completed" => job[j].status = "completed"
    BY <1>0, <1>3, JobsOK DEF Verify, Failed
  <2>3. UNCHANGED <<parts, object, attached, session>>
    BY <1>3 DEF Verify
  <2> QED BY <1>0, <2>1, <2>2, <2>3, NoNewClaim
      DEF Safe, CheckedIsGood, PastCheck, UndoesOpen, Undoing
<1>4. CASE SaveUploaded(p) \/ Refresh(p) \/ Bump(p) \/ EndJob(p)
  <2>1. object = "good" /\ UNCHANGED <<parts, object, attached>>
    BY <1>0, <1>4
    DEF Safe, CheckedIsGood, PastCheck, SaveUploaded, Refresh, Bump, EndJob, IsAt
  <2>2. proc'[p].step \notin Undoing /\ \A q \in Processes \ {p} : proc'[q] = proc[q]
    <3>1. CASE Refresh(p)
      <4>1. proc[p] \in Working
        BY <1>0, <3>1, AtWork DEF Refresh, IsAt
      <4>2. proc'[p] = [proc[p] EXCEPT !.step = "refreshed", !.session = session]
        BY <1>0, <3>1 DEF Refresh, TypeOK
      <4> QED BY <1>0, <3>1, <4>1, <4>2 DEF Refresh, TypeOK, Working, Undoing
    <3>2. CASE ~Refresh(p)
      BY <1>0, <1>4, <3>2, ProcAfter DEF SaveUploaded, Bump, EndJob, IsAt, Steps, Undoing, Idle
    <3> QED BY <3>1, <3>2
  <2> QED BY <1>0, <2>1, <2>2
      DEF Safe, TakenOnce, CheckedIsGood, UndoesOpen, UploadedIsVerified
<1> QED BY <1>1, <1>2, <1>3, <1>4 DEF Completes

LEMMA WorldSafe ==
  ASSUME Inv,
         \/ \E content \in Contents : PutParts(content)
         \/ Elapse \/ Attach
         \/ \E w \in Workers, j \in Jobs : TakeTask(w, j)
         \/ \E p \in Processes : Crash(p)
         \/ \E j \in Jobs : Redeliver(j) \/ LoseTask(j)
  PROVE  Safe'
<1>0. TypeOK /\ Safe
  BY DEF Inv
<1>1. CASE (\E content \in Contents : PutParts(content)) \/ Elapse \/ Attach
           \/ \E j \in Jobs : Redeliver(j) \/ LoseTask(j)
  BY <1>0, <1>1
  DEF PutParts, Elapse, Attach, Redeliver, LoseTask, Safe, TakenOnce, CheckedIsGood, UndoesOpen,
      UploadedIsVerified, Complete
<1>2. ASSUME NEW w \in Workers, NEW j \in Jobs, TakeTask(w, j)
      PROVE  Safe'
  <2>1. w \in Processes /\ job[j].content \in Contents
    BY <1>0 DEF Processes, TypeOK, JobRow
  <2>2. \/ proc' = proc
        \/ proc'[w].step = "starting" /\ \A q \in Processes \ {w} : proc'[q] = proc[q]
    BY <1>0, <1>2, <2>1, ProcAfter DEF TakeTask, Steps
  <2>3. UNCHANGED <<session, parts, object, job, attached>>
    BY <1>2 DEF TakeTask
  <2> QED BY <1>0, <2>2, <2>3, NoNewClaim
      DEF Safe, CheckedIsGood, PastCheck, UndoesOpen, Undoing
<1>3. ASSUME NEW p \in Processes, Crash(p)
      PROVE  Safe'
  <2>1. UNCHANGED <<session, parts, object, job, attached>>
    BY <1>3 DEF Crash
  <2> QED BY <1>0, <1>3, <2>1, ProcAfter, NoNewClaim
      DEF Crash, Safe, CheckedIsGood, PastCheck, UndoesOpen, Undoing, Idle
<1> QED BY <1>1, <1>2, <1>3

LEMMA NextInv == Inv /\ [Next]_vars => Inv'
<1> SUFFICES ASSUME Inv, [Next]_vars PROVE Inv'
  OBVIOUS
<1>1. CASE UNCHANGED vars
  BY <1>1 DEF vars, Inv, TypeOK, TasksBounded, Safe, TakenOnce, CheckedIsGood, UndoesOpen,
              UploadedIsVerified, Complete
<1>2. ASSUME NEW p \in Processes, Proceed(p) \/ CommitUnanswered(p)
      PROVE  Inv'
  <2>1. CASE Expire(p) \/ Cancel(p)
    <3>1. p \in Clients
      BY <2>1 DEF Expire, Cancel, IsAt, Inv, Safe, UndoesOpen, Undoing
    <3> QED BY <2>1, <3>1, ClientTypes, ClientSafe DEF Inv
  <2>2. CASE Completes(p)
    BY <2>2, ProcessTypes, ProcessSafe DEF Inv
  <2> QED BY <1>2, <2>1, <2>2 DEF Proceed, Completes
<1>3. ASSUME NEW c \in Clients,
             \/ BeginExpire(c) \/ BeginCancel(c)
             \/ \E content \in Contents : BeginComplete(c, content)
             \/ \E j \in Jobs, content \in Contents : CreateJob(c, j, content)
      PROVE  Inv'
  BY <1>3, ClientTypes, ClientSafe DEF Inv
<1>4. ASSUME \/ \E content \in Contents : PutParts(content)
             \/ Elapse \/ Attach
             \/ \E w \in Workers, j \in Jobs : TakeTask(w, j)
             \/ \E p \in Processes : Crash(p)
             \/ \E j \in Jobs : Redeliver(j) \/ LoseTask(j)
      PROVE  Inv'
  BY <1>4, WorldTypes, WorldSafe DEF Inv
<1> QED BY <1>1, <1>2, <1>3, <1>4 DEF Next

-----------------------------------------------------------------------------
(* No job is forgotten: what JobsEnd rests on.                             *)

\* A worker is at work on a job.
WorkersHaveJobs == \A w \in Workers : proc[w] # Idle => proc[w].job \in Jobs
Tends(w, j) == proc[w] # Idle /\ proc[w].job = j

\* As long as nothing was lost, a job that is queued or running has a task or a worker.
NoJobForgotten ==
  ~lost => \A j \in Jobs : UnderWay(j) => tasks[j] > 0 \/ \E w \in Workers : Tends(w, j)

Tended == WorkersHaveJobs /\ NoJobForgotten

\* A request concerns no worker.
LEMMA ClientTends ==
  ASSUME Inv, Tended, NEW c \in Clients,
         \/ BeginExpire(c) \/ Expire(c) \/ BeginCancel(c) \/ Cancel(c)
         \/ \E content \in Contents : BeginComplete(c, content)
         \/ \E j \in Jobs, content \in Contents : CreateJob(c, j, content)
  PROVE  Tended'
<1>0. c \in Processes /\ c \notin Workers /\ TypeOK /\ Workers \subseteq Processes
  BY ProcessesAssumption DEF Processes, Inv
<1>1. \A w \in Workers : proc'[w] = proc[w]
  BY <1>0 DEF BeginExpire, Expire, BeginCancel, Cancel, BeginComplete, CreateJob, Begins, Ends, TypeOK
<1>2. lost' = lost
  BY DEF BeginExpire, Expire, BeginCancel, Cancel, BeginComplete, CreateJob
<1>3. \A j \in Jobs :
        \/ tasks'[j] = tasks[j] /\ job'[j] = job[j]
        \/ tasks'[j] = 1
        \/ job'[j].status = "failed"
  BY <1>0 DEF BeginExpire, Expire, BeginCancel, Cancel, BeginComplete, CreateJob, TypeOK
<1> QED BY <1>1, <1>2, <1>3 DEF Tended, WorkersHaveJobs, NoJobForgotten, Tends, UnderWay

\* A step of _complete_upload_session goes on with its job, or ends and answers for it.
GoesOn(p) ==
  /\ proc'[p] # Idle /\ proc'[p].job = proc[p].job
  /\ job' = job \/ job' = Answered(p, "running")
Answers(p) ==
  /\ proc'[p] = Idle
  /\ p \in Workers => job' \in {Answered(p, "failed"), Answered(p, "completed")}
  /\ p \notin Workers => job' = job

LEMMA GoesOnOrAnswers ==
  ASSUME Inv, NEW p \in Processes, Completes(p)
  PROVE  /\ proc[p] # Idle
         /\ GoesOn(p) \/ Answers(p)
         /\ \A q \in Processes \ {p} : proc'[q] = proc[q]
<1>0. TypeOK
  BY DEF Inv
<1>1. proc[p] \in Working /\ proc[p] # Idle
  BY <1>0, AtWork
  DEF Completes, StartJob, Reconcile, CommitParts, CommitUnanswered, Verify, SaveUploaded,
      Refresh, Bump, EndJob, IsAt
<1>2. \A step \in Steps : Goes(p, step) =>
        /\ proc'[p] # Idle /\ proc'[p].job = proc[p].job
        /\ \A q \in Processes \ {p} : proc'[q] = proc[q]
  <2> SUFFICES ASSUME NEW step \in Steps, Goes(p, step)
               PROVE  /\ proc'[p] # Idle /\ proc'[p].job = proc[p].job
                      /\ \A q \in Processes \ {p} : proc'[q] = proc[q]
    OBVIOUS
  <2>1. proc'[p] = [proc[p] EXCEPT !.step = step] /\ \A q \in Processes \ {p} : proc'[q] = proc[q]
    BY <1>0 DEF Goes, TypeOK
  <2> QED BY <1>1, <2>1 DEF Working, Steps, Idle
<1>3. Ends(p) => proc'[p] = Idle /\ \A q \in Processes \ {p} : proc'[q] = proc[q]
  BY <1>0 DEF Ends, TypeOK
<1>4. CASE Refresh(p)
  <2>1. proc'[p] = [proc[p] EXCEPT !.step = "refreshed", !.session = session]
    BY <1>0, <1>4 DEF Refresh, TypeOK
  <2>2. \A q \in Processes \ {p} : proc'[q] = proc[q]
    BY <1>0, <1>4 DEF Refresh, TypeOK
  <2>3. proc'[p].job = proc[p].job /\ proc'[p].step = "refreshed"
    BY <1>1, <2>1 DEF Working
  <2>4. job' = job
    BY <1>4 DEF Refresh
  <2>5. proc'[p] # Idle
    BY <2>3 DEF Idle
  <2> QED BY <1>1, <2>2, <2>3, <2>4, <2>5 DEF GoesOn
<1>5. CASE StartJob(p) \/ SaveUploaded(p) \/ EndJob(p)
  BY <1>1, <1>2, <1>3, <1>5
  DEF StartJob, SaveUploaded, EndJob, GoesOn, Answers, Steps, Answered
<1>6. CASE Reconcile(p) \/ CommitParts(p) \/ CommitUnanswered(p) \/ Verify(p)
  BY <1>1, <1>2, <1>3, <1>6
  DEF Reconcile, CommitParts, CommitUnanswered, Verify, Failed, GoesOn, Answers, Steps, Answered
<1>7. CASE Bump(p)
  BY <1>1, <1>2, <1>3, <1>7 DEF Bump, GoesOn, Answers, Steps
<1> QED BY <1>1, <1>4, <1>5, <1>6, <1>7 DEF Completes

LEMMA ProcessTends ==
  ASSUME Inv, Tended, NEW p \in Processes, Completes(p)
  PROVE  Tended'
<1>0. TypeOK /\ Workers \subseteq Processes
  BY DEF Inv, Processes
<1>1. UNCHANGED <<tasks, lost>>
  BY DEF Completes, StartJob, Reconcile, CommitParts, CommitUnanswered, Verify, SaveUploaded,
         Refresh, Bump, EndJob
<1>2. /\ proc[p] # Idle
      /\ \A q \in Workers \ {p} : proc'[q] = proc[q]
  BY <1>0, GoesOnOrAnswers
<1>3. \A status : \A j \in Jobs :
        p \notin Workers \/ j # proc[p].job => Answered(p, status)[j] = job[j]
  BY <1>0 DEF Answered, TypeOK
<1>4. CASE GoesOn(p)
  <2>1. WorkersHaveJobs'
    BY <1>2, <1>4 DEF GoesOn, Tended, WorkersHaveJobs
  <2>2. \A j \in Jobs : UnderWay(j)' => UnderWay(j) \/ (p \in Workers /\ j = proc[p].job)
    BY <1>3, <1>4 DEF GoesOn, UnderWay
  <2>3. \A w \in Workers, j \in Jobs : Tends(w, j) => Tends(w, j)'
    BY <1>2, <1>4 DEF GoesOn, Tends
  <2>4. p \in Workers => Tends(p, proc[p].job)'
    BY <1>4 DEF GoesOn, Tends
  <2>5. NoJobForgotten'
    <3> SUFFICES ASSUME ~lost, NEW j \in Jobs, UnderWay(j)'
                 PROVE  tasks[j] > 0 \/ \E w \in Workers : Tends(w, j)'
      BY <1>1 DEF NoJobForgotten, UnderWay
    <3>1. CASE UnderWay(j)
      BY <3>1, <2>3 DEF Tended, NoJobForgotten
    <3>2. CASE p \in Workers /\ j = proc[p].job
      BY <3>2, <1>4 DEF GoesOn, Tends
    <3> QED BY <2>2, <3>1, <3>2
  <2> QED BY <2>1, <2>5 DEF Tended
<1>5. CASE Answers(p)
  <2>1. WorkersHaveJobs'
    BY <1>2, <1>5 DEF Answers, Tended, WorkersHaveJobs
  <2>2. \A j \in Jobs : UnderWay(j)' => UnderWay(j) /\ ~(p \in Workers /\ j = proc[p].job)
    <3>1. CASE p \in Workers
      <4>1. proc[p].job \in Jobs
        BY <1>2, <3>1 DEF Tended, WorkersHaveJobs
      <4>2. /\ Answered(p, "failed")[proc[p].job].status = "failed"
            /\ Answered(p, "completed")[proc[p].job].status = "completed"
        BY <1>0, <3>1, <4>1 DEF Answered, TypeOK, JobRow
      <4> QED BY <1>3, <1>5, <3>1, <4>2 DEF Answers, UnderWay
    <3>2. CASE p \notin Workers
      BY <1>5, <3>2 DEF Answers, UnderWay
    <3> QED BY <3>1, <3>2
  <2>3. \A w \in Workers, j \in Jobs : Tends(w, j) /\ ~(p \in Workers /\ j = proc[p].job) => Tends(w, j)'
    BY <1>2 DEF Tends
  <2>4. NoJobForgotten'
    <3> SUFFICES ASSUME ~lost, NEW j \in Jobs, UnderWay(j)'
                 PROVE  tasks[j] > 0 \/ \E w \in Workers : Tends(w, j)'
      BY <1>1 DEF NoJobForgotten, UnderWay
    <3> QED BY <2>2, <2>3 DEF Tended, NoJobForgotten
  <2> QED BY <2>1, <2>4 DEF Tended
<1> QED BY <1>4, <1>5, GoesOnOrAnswers

LEMMA WorldTends ==
  ASSUME Inv, Tended,
         \/ \E content \in Contents : PutParts(content)
         \/ Elapse \/ Attach
         \/ \E w \in Workers, j \in Jobs : TakeTask(w, j)
         \/ \E p \in Processes : Crash(p)
         \/ \E j \in Jobs : Redeliver(j) \/ LoseTask(j)
  PROVE  Tended'
<1>0. TypeOK /\ Workers \subseteq Processes
  BY DEF Inv, Processes
<1>1. CASE (\E content \in Contents : PutParts(content)) \/ Elapse \/ Attach
  BY <1>1 DEF PutParts, Elapse, Attach, Tended, WorkersHaveJobs, NoJobForgotten, Tends, UnderWay
<1>2. ASSUME NEW w \in Workers, NEW j \in Jobs, TakeTask(w, j)
      PROVE  Tended'
  <2>1. proc[w] = Idle /\ UNCHANGED <<job, lost>> /\ \A i \in Jobs \ {j} : tasks'[i] = tasks[i]
    BY <1>0, <1>2 DEF TakeTask, IsAt, TypeOK, Idle, Working
  <2>2. CASE job[j].status = "completed"
    <3>1. proc' = proc
      BY <1>2, <2>2 DEF TakeTask
    <3>2. ~UnderWay(j)'
      BY <2>1, <2>2 DEF UnderWay
    <3> QED BY <2>1, <3>1, <3>2 DEF Tended, WorkersHaveJobs, NoJobForgotten, Tends, UnderWay
  <2>3. CASE job[j].status # "completed"
    <3>1. proc' = [proc EXCEPT ![w] =
            [step |-> "starting", session |-> session, content |-> job[j].content, job |-> j]]
      BY <1>2, <2>3 DEF TakeTask, Begins
    <3>2. /\ proc'[w].step = "starting" /\ proc'[w].job = j
          /\ \A v \in Workers \ {w} : proc'[v] = proc[v]
      BY <1>0, <3>1 DEF TypeOK
    <3>3. Tends(w, j)'
      BY <3>2 DEF Tends, Idle
    <3> QED BY <2>1, <3>2, <3>3 DEF Tended, WorkersHaveJobs, NoJobForgotten, Tends, UnderWay
  <2> QED BY <2>2, <2>3
<1>3. ASSUME NEW p \in Processes, Crash(p)
      PROVE  Tended'
  BY <1>0, <1>3 DEF Crash, Ends, TypeOK, Tended, WorkersHaveJobs, NoJobForgotten
<1>4. ASSUME NEW j \in Jobs, Redeliver(j) \/ LoseTask(j)
      PROVE  Tended'
  <2>1. UNCHANGED <<job, proc>> /\ (lost' \/ \A i \in Jobs : tasks[i] > 0 => tasks'[i] > 0)
    BY <1>0, <1>4 DEF Redeliver, LoseTask, TypeOK
  <2>2. lost => lost'
    BY <1>4 DEF Redeliver, LoseTask
  <2> QED BY <2>1, <2>2 DEF Tended, WorkersHaveJobs, NoJobForgotten, Tends, UnderWay
<1> QED BY <1>1, <1>2, <1>3, <1>4

LEMMA TendedNext == Inv /\ Tended /\ [Next]_vars => Tended'
<1> SUFFICES ASSUME Inv, Tended, [Next]_vars PROVE Tended'
  OBVIOUS
<1>1. CASE UNCHANGED vars
  BY <1>1 DEF vars, Tended, WorkersHaveJobs, NoJobForgotten, Tends, UnderWay
<1>2. ASSUME NEW p \in Processes, Proceed(p) \/ CommitUnanswered(p)
      PROVE  Tended'
  <2>1. CASE Expire(p) \/ Cancel(p)
    <3>1. p \in Clients
      BY <2>1 DEF Expire, Cancel, IsAt, Inv, Safe, UndoesOpen, Undoing
    <3> QED BY <2>1, <3>1, ClientTends
  <2>2. CASE Completes(p)
    BY <2>2, ProcessTends
  <2> QED BY <1>2, <2>1, <2>2 DEF Proceed, Completes
<1> QED BY <1>1, <1>2, ClientTends, WorldTends DEF Next

-----------------------------------------------------------------------------

\* The row, the jobs and the requests keep their shape, and no code path writes the
\* states "verified" and "failed" that UploadSession.STATES offers.
THEOREM UploadsAreTyped == Spec => []TypeOK
<1>1. Inv => TypeOK
  BY DEF Inv
<1> QED BY <1>1, InitInv, NextInv, PTL DEF Spec

\* Whoever says that the upload is complete, the row, a FinalizeJob or an attachment,
\* speaks of an object that _complete_upload_session verified.
THEOREM CompleteIsVerified == Spec => []UploadedIsVerified
<1>1. Inv => UploadedIsVerified
  BY DEF Inv, Safe
<1> QED BY <1>1, InitInv, NextInv, PTL DEF Spec

\* Only complete (on expiry) and the cancel action take back that an upload is complete,
\* and only on a row that they read before it was.
THEOREM OverlapsUndo == Spec => OnlyOverlapsUndo
<1> DEFINE Step ==
      session.state = "uploaded" /\ session'.state # "uploaded" =>
        \E c \in Clients : Undoes(c) /\ proc'[c] = Idle
<1>1. Inv /\ [Next]_vars => [Step]_vars
  <2> SUFFICES ASSUME Inv, Next, session.state = "uploaded", session'.state # "uploaded"
               PROVE  \E c \in Clients : Undoes(c) /\ proc'[c] = Idle
    BY DEF vars
  <2>0. TypeOK
    BY DEF Inv
  <2>1. PICK p \in Processes : Expire(p) \/ Cancel(p) \/ SaveUploaded(p) \/ Bump(p)
    <3>1. session' # session
      OBVIOUS
    <3> QED BY <3>1
        DEF Next, PutParts, Elapse, Attach, BeginExpire, BeginComplete, CreateJob, BeginCancel,
            TakeTask, Proceed, StartJob, Reconcile, CommitParts, Verify, Refresh, EndJob,
            CommitUnanswered, Crash, Redeliver, LoseTask
  <2>2. Expire(p) \/ Cancel(p)
    BY <2>0, <2>1 DEF SaveUploaded, Bump, WithState, TypeOK, Row
  <2>3. p \in Clients /\ proc[p].session.state # "uploaded" /\ proc[p].step \in Undoing
    BY <2>2 DEF Expire, Cancel, IsAt, Undoing, Inv, Safe, UndoesOpen
  <2>4. proc[p] # Idle /\ proc'[p] = Idle
    BY <2>0, <2>2, <2>3, AtWork DEF Expire, Cancel, Ends, TypeOK, Undoing
  <2> QED BY <2>3, <2>4 DEF Undoes, Undoing
<1> QED BY <1>1, InitInv, NextInv, PTL DEF Spec, OnlyOverlapsUndo

\* finalize_upload_job catches what its job meets: unless a task or a worker was lost, no
\* FinalizeJob is left queued or running with nobody to end it, whatever is delivered twice.
THEOREM NoJobIsForgotten == Spec => []NoJobForgotten
<1>1. Init => Tended
  BY DEF Init, Tended, WorkersHaveJobs, NoJobForgotten, UnderWay, Processes
<1>2. Tended => NoJobForgotten
  BY DEF Tended
<1> QED BY <1>1, <1>2, InitInv, NextInv, TendedNext, PTL DEF Spec
=============================================================================
