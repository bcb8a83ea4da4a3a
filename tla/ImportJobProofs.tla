---------------------------- MODULE ImportJobProofs ----------------------------
(***************************************************************************)
(* For any number of jobs, clients, tokens, updates and changes: the rows  *)
(* of an import are written once, and once more only for each time that a  *)
(* client took the end of the job back; a job that has ended stays ended   *)
(* unless a client saves what it had read before; and what is written was  *)
(* authorised when it was written.                                         *)
(***************************************************************************)
EXTENDS ImportJob, TLAPS

\* The row lock and the lock on the user are what a commit under way relies on.
LockInv ==
  \A j \in locked :
    /\ job[j].status = "awaiting_confirmation"
    /\ job[j].permission = permission

\* What a client has read of a completed job is no older than the job's first commit.
ReadInv ==
  \A c \in Clients :
    client[c].job \in Jobs /\ client[c].row.status = "completed" => applied[client[c].job] > 0

\* A retried job had ended without writing its rows.  So it has to be taken back before
\* it can write them, and again before it can do so again.
CountInv ==
  \A j \in Jobs :
    /\ applied[j] <= undone[j] + (IF job[j].status = "completed" THEN 1 ELSE 0)
    /\ job[j].status = "completed" => applied[j] > 0
    /\ j \in retried => applied[j] + (IF job[j].status \in Final THEN 0 ELSE 1) <= undone[j]

Inv == TypeOK /\ LockInv /\ ReadInv /\ CountInv

-----------------------------------------------------------------------------
(* TypeOK.                                                                 *)

\* Changing the fields a handler changes leaves a row a row.
LEMMA RowsOK ==
  ASSUME TypeOK, NEW j \in Jobs
  PROVE  /\ \A status \in Statuses : SetStatus(j, status) \in [Jobs -> Row]
         /\ \A status \in Statuses, token \in Tokens :
              [job EXCEPT ![j] = [@ EXCEPT !.status = status, !.token = token]] \in [Jobs -> Row]
         /\ \A status \in Statuses, parent \in 0 .. MaxJobs, version \in Nat :
              NewRow(status, parent, version) \in Row
<1>1. job[j] \in Row
  BY DEF TypeOK
<1>2. \A status \in Statuses : [job[j] EXCEPT !.status = status] \in Row
  BY <1>1 DEF Row
<1>3. \A status \in Statuses, token \in Tokens :
        [job[j] EXCEPT !.status = status, !.token = token] \in Row
  BY <1>1 DEF Row
<1>4. \A status \in Statuses, parent \in 0 .. MaxJobs, version \in Nat :
        NewRow(status, parent, version) \in Row
  BY TokensAssumption DEF NewRow, Row, Tokens
<1> QED BY <1>2, <1>3, <1>4 DEF SetStatus, TypeOK

\* Deliveries, callbacks and counts stay what they are.
LEMMA PartsOK ==
  ASSUME TypeOK, NEW j \in Jobs
  PROVE  /\ \A kind \in Kinds : Enqueued(j, kind) \subseteq Jobs \X Kinds
         /\ \A kind \in Kinds : Taken(j, kind) => queue' \subseteq Jobs \X Kinds
         /\ \A token \in Tokens : callbacks \cup {<<j, token>>} \subseteq Jobs \X Tokens
         /\ \A status : Undone(j, status) \in [Jobs -> Nat]
<1>1. \A status : Undone(j, status) \in [Jobs -> Nat]
  BY DEF Undone, TypeOK
<1> QED BY <1>1 DEF Enqueued, Taken, TypeOK

\* Every step keeps the type invariant.
LEMMA TypePreserved == TypeOK /\ [Next]_vars => TypeOK'
<1> SUFFICES ASSUME TypeOK, [Next]_vars PROVE TypeOK'
  OBVIOUS
<1> USE JobsAssumption, TokensAssumption, UpdatesAssumption, ChangesAssumption
<1>k. "preview" \in Kinds /\ "commit" \in Kinds
  BY DEF Kinds
<1>s. /\ {"queued", "awaiting_confirmation", "completed", "completed_with_errors", "failed",
          "cancelled", "expired", "gone", "absent"} \subseteq Statuses
      /\ 0 \in Tokens /\ 0 \in 0 .. MaxJobs
      /\ Jobs \subseteq 0 .. MaxJobs
      /\ permission \in Nat
  BY DEF Statuses, Final, Tokens, Jobs, TypeOK
<1>r. AtRest \in [job : 0 .. MaxJobs, row : Row]
  BY <1>s DEF AtRest, NewRow, Row, Tokens
<1>1. ASSUME NEW j \in Jobs, NEW parent \in 0 .. MaxJobs, Create(j, parent) PROVE TypeOK'
  <2>1. job' \in [Jobs -> Row]
    BY <1>1, <1>s, RowsOK DEF Create, QueuedRow, TypeOK
  <2>2. queue' \subseteq Jobs \X Kinds
    BY <1>1, <1>k, PartsOK DEF Create, Sent, TypeOK
  <2> QED BY <1>1, <2>1, <2>2 DEF Create, histories, TypeOK
<1>2. ASSUME NEW j \in Jobs, RequestCommit(j) PROVE TypeOK'
  <2>1. queue' \subseteq Jobs \X Kinds
    BY <1>2, <1>k, PartsOK DEF RequestCommit
  <2> QED BY <1>2, <2>1 DEF RequestCommit, histories, TypeOK
<1>3. ASSUME NEW j \in Jobs, Cancel(j) PROVE TypeOK'
  <2>1. job' \in [Jobs -> Row]
    BY <1>3, <1>s, RowsOK DEF Cancel
  <2>2. callbacks' \subseteq Jobs \X Tokens
    BY <1>3, <1>s, PartsOK DEF Cancel
  <2>3. cache' \in [Jobs -> Tokens]
    BY <1>3, <1>s DEF Cancel, TypeOK
  <2> QED BY <1>3, <2>1, <2>2, <2>3 DEF Cancel, histories, TypeOK
<1>4. ASSUME NEW j \in Jobs, NEW child \in Jobs, Retry(j, child) PROVE TypeOK'
  <2>1. Retired(j) \in [Jobs -> Row]
    BY <1>s, RowsOK DEF Retired, TypeOK
  <2>2. job' \in [Jobs -> Row]
    BY <1>4, <1>s, <2>1, RowsOK DEF Retry, QueuedRow
  <2>3. queue' \subseteq Jobs \X Kinds
    BY <1>4, <1>k, PartsOK DEF Retry, Sent, TypeOK
  <2>4. callbacks' \subseteq Jobs \X Tokens
    BY <1>4, <1>s, PartsOK DEF Retry, TypeOK
  <2>5. retried' \subseteq Jobs
    BY <1>4 DEF Retry, TypeOK
  <2> QED BY <1>4, <2>2, <2>3, <2>4, <2>5 DEF Retry, TypeOK
<1>5. ASSUME NEW c \in Clients, NEW j \in Jobs, BeginUpdate(c, j) PROVE TypeOK'
  <2>1. client' \in [Clients -> [job : 0 .. MaxJobs, row : Row]]
    BY <1>5, <1>s DEF BeginUpdate, TypeOK
  <2>2. updates' \in 0 .. MaxUpdates
    BY <1>5 DEF BeginUpdate, TypeOK
  <2> QED BY <1>5, <2>1, <2>2 DEF BeginUpdate, histories, TypeOK
<1>6. ASSUME NEW c \in Clients, NEW parent \in 0 .. MaxJobs, Update(c, parent) PROVE TypeOK'
  <2> DEFINE j == client[c].job
             row == [client[c].row EXCEPT !.parent = parent]
  <2>1. j \in Jobs
    BY <1>6 DEF Update
  <2>2. row \in Row
    <3>1. client[c].row \in Row
      BY DEF TypeOK
    <3> QED BY <3>1 DEF Row
  <2>3. job' \in [Jobs -> Row]
    <3>1. job' = [job EXCEPT ![j] = row]
      BY <1>6 DEF Update
    <3> HIDE DEF row, j
    <3> QED BY <3>1, <2>1, <2>2 DEF TypeOK
  <2>4. undone' \in [Jobs -> Nat]
    BY <1>6, <2>1, PartsOK DEF Update
  <2>5. client' \in [Clients -> [job : 0 .. MaxJobs, row : Row]]
    <3>1. client' = [client EXCEPT ![c] = AtRest]
      BY <1>6 DEF Update
    <3> QED BY <3>1, <1>r DEF TypeOK
  <2> QED BY <1>6, <2>3, <2>4, <2>5 DEF Update, TypeOK
<1>7. ASSUME NEW c \in Clients, UpdateFails(c) PROVE TypeOK'
  <2>1. client' \in [Clients -> [job : 0 .. MaxJobs, row : Row]]
    BY <1>7, <1>r DEF UpdateFails, TypeOK
  <2> QED BY <1>7, <2>1 DEF UpdateFails, histories, TypeOK
<1>8. ASSUME NEW j \in Jobs, Destroy(j) PROVE TypeOK'
  <2>1. job' \in [Jobs -> Row]
    BY <1>8, <1>s, RowsOK DEF Destroy, TypeOK
  <2>2. undone' \in [Jobs -> Nat]
    BY <1>8, PartsOK DEF Destroy
  <2> QED BY <1>8, <2>1, <2>2 DEF Destroy, TypeOK
<1>9. ASSUME NEW j \in Jobs, Preview(j) PROVE TypeOK'
  <2>1. queue' \subseteq Jobs \X Kinds
    BY <1>9, <1>k, PartsOK DEF Preview
  <2>2. CASE job' = SetStatus(j, "completed_with_errors") /\ UNCHANGED <<minted, callbacks>>
    <3>1. job' \in [Jobs -> Row]
      BY <2>2, <1>s, RowsOK
    <3> QED BY <1>9, <2>1, <2>2, <3>1 DEF Preview, histories, TypeOK
  <2>3. ASSUME minted < MaxTokens, minted' = minted + 1,
               NEW row, row = [job[j] EXCEPT !.status = "awaiting_confirmation",
                                             !.token = minted', !.previewed = catalog],
               job' = [job EXCEPT ![j] = row], callbacks' = callbacks \cup {<<j, minted'>>}
        PROVE  TypeOK'
    <3>1. minted' \in Tokens
      BY <2>3 DEF TypeOK, Tokens
    <3>2. catalog \in Nat /\ job[j] \in Row
      BY DEF TypeOK
    <3>3. row \in Row
      BY <2>3, <3>1, <3>2, <1>s DEF Row
    <3>4. job' \in [Jobs -> Row]
      BY <2>3, <3>3 DEF TypeOK
    <3>5. callbacks' \subseteq Jobs \X Tokens
      BY <2>3, <3>1, PartsOK
    <3> QED BY <1>9, <2>1, <3>1, <3>4, <3>5 DEF Preview, histories, TypeOK
  <2> QED BY <1>9, <2>2, <2>3 DEF Preview
<1>10. ASSUME NEW j \in Jobs, CommitErrors(j) PROVE TypeOK'
  <2>1. queue' \subseteq Jobs \X Kinds
    BY <1>10, <1>k, PartsOK DEF CommitErrors
  <2>2. job' \in [Jobs -> Row]
    BY <1>10, <1>s, RowsOK DEF CommitErrors
  <2> QED BY <1>10, <2>1, <2>2 DEF CommitErrors, histories, TypeOK
<1>11. ASSUME NEW j \in Jobs, Validate(j) PROVE TypeOK'
  <2>1. queue' \subseteq Jobs \X Kinds
    BY <1>11, <1>k, PartsOK DEF Validate
  <2> QED BY <1>11, <2>1 DEF Validate, histories, TypeOK
<1>12. ASSUME NEW j \in Jobs, Apply(j) PROVE TypeOK'
  <2>1. job' \in [Jobs -> Row]
    BY <1>12, <1>s, RowsOK DEF Apply
  <2>2. applied' \in [Jobs -> Nat]
    BY <1>12 DEF Apply, TypeOK
  <2>3. callbacks' \subseteq Jobs \X Tokens
    BY <1>12, <1>s, PartsOK DEF Apply
  <2> QED BY <1>12, <2>1, <2>2, <2>3 DEF Apply, TypeOK
<1>13. ASSUME NEW j \in Jobs, PreviewRaises(j) PROVE TypeOK'
  <2>1. queue' \subseteq Jobs \X Kinds
    BY <1>13, <1>k, PartsOK DEF PreviewRaises
  <2> QED BY <1>13, <2>1 DEF PreviewRaises, histories, TypeOK
<1>14. ASSUME NEW j \in Jobs, CommitRaises(j) PROVE TypeOK'
  <2>1. queue' \subseteq Jobs \X Kinds
    BY <1>14, <1>k, PartsOK DEF CommitRaises
  <2> QED BY <1>14, <2>1 DEF CommitRaises, histories, TypeOK
<1>15. ASSUME NEW j \in Jobs, ApplyRaises(j) PROVE TypeOK'
  BY <1>15 DEF ApplyRaises, histories, TypeOK
<1>16. ASSUME NEW j \in Jobs, Ignore(j) PROVE TypeOK'
  <2>1. queue' \subseteq Jobs \X Kinds
    BY <1>16, <1>k, PartsOK DEF Ignore
  <2> QED BY <1>16, <2>1 DEF Ignore, histories, TypeOK
<1>17. ASSUME NEW j \in Jobs, NEW token \in Tokens, RunCallback(j, token) PROVE TypeOK'
  BY <1>17 DEF RunCallback, histories, TypeOK
<1>18. ASSUME NEW j \in Jobs, NEW token \in Tokens, LoseCallback(j, token) PROVE TypeOK'
  BY <1>18 DEF LoseCallback, histories, TypeOK
<1>19. ASSUME NEW j \in Jobs, Evict(j) PROVE TypeOK'
  BY <1>19, <1>s DEF Evict, histories, TypeOK
<1>20. CASE RunOut
  <2>1. late' \in Tokens
    BY <1>20 DEF RunOut, TypeOK, Tokens
  <2> QED BY <1>20, <2>1 DEF RunOut, histories, TypeOK
<1>21. CASE ChangeCatalog
  BY <1>21 DEF ChangeCatalog, histories, TypeOK
<1>22. CASE ChangePermission
  BY <1>22 DEF ChangePermission, histories, TypeOK
<1>23. CASE UNCHANGED vars
  BY <1>23 DEF vars, TypeOK
<1> QED
  BY <1>1, <1>2, <1>3, <1>4, <1>5, <1>6, <1>7, <1>8, <1>9, <1>10, <1>11, <1>12, <1>13,
     <1>14, <1>15, <1>16, <1>17, <1>18, <1>19, <1>20, <1>21, <1>22, <1>23 DEF Next, Process

-----------------------------------------------------------------------------
(* The inductive invariant.                                                *)

\* Steps that leave the rows and the histories alone.
Quiet == UNCHANGED <<job, applied, retried, undone>>

LEMMA QuietKeeps ==
  ASSUME Inv, TypeOK', Quiet, permission' = permission, client' = client,
         \A j \in locked' \ locked :
           job[j].status = "awaiting_confirmation" /\ job[j].permission = permission
  PROVE  Inv'
<1>1. LockInv'
  BY DEF Inv, LockInv, Quiet
<1>2. ReadInv'
  BY DEF Inv, ReadInv, Quiet
<1>3. CountInv'
  BY DEF Inv, CountInv, Quiet
<1> QED BY <1>1, <1>2, <1>3 DEF Inv

\* Steps that rewrite the row of one job that no commit has locked, other than with the
\* commit itself: its end is taken back, if it had one, as undone says.
Rewritten(j) ==
  /\ j \notin locked
  /\ \A i \in Jobs \ {j} : job'[i] = job[i]
  /\ undone' = Undone(j, job'[j].status)
  /\ UNCHANGED <<locked, permission, applied, retried>>

LEMMA RewriteKeeps ==
  ASSUME Inv, TypeOK', NEW j \in Jobs, Rewritten(j), ReadInv',
         job'[j].status = "completed" => applied[j] > 0
  PROVE  Inv'
<1>1. LockInv'
  BY DEF Inv, LockInv, Rewritten, TypeOK
<1>2. CountInv'
  <2> SUFFICES ASSUME NEW i \in Jobs
               PROVE  /\ applied'[i] <= undone'[i] + (IF job'[i].status = "completed" THEN 1 ELSE 0)
                      /\ job'[i].status = "completed" => applied'[i] > 0
                      /\ i \in retried' =>
                           applied'[i] + (IF job'[i].status \in Final THEN 0 ELSE 1) <= undone'[i]
    BY DEF CountInv
  <2>c. /\ applied[i] <= undone[i] + (IF job[i].status = "completed" THEN 1 ELSE 0)
        /\ job[i].status = "completed" => applied[i] > 0
        /\ i \in retried => applied[i] + (IF job[i].status \in Final THEN 0 ELSE 1) <= undone[i]
    BY DEF Inv, CountInv
  <2>t. applied[i] \in Nat /\ undone[i] \in Nat
    BY DEF Inv, TypeOK
  <2>u. applied' = applied /\ retried' = retried
    BY DEF Rewritten
  <2>1. CASE i # j
    <3>1. job'[i] = job[i] /\ undone'[i] = undone[i]
      BY <2>1 DEF Rewritten, Undone, Inv, TypeOK
    <3> QED BY <2>c, <2>u, <3>1
  <2>2. CASE i = j /\ job[j].status \in Final /\ job'[j].status # job[j].status
    <3>1. undone'[i] = undone[i] + 1
      BY <2>2 DEF Rewritten, Undone, Inv, TypeOK
    <3> QED BY <2>2, <2>c, <2>t, <2>u, <3>1
  <2>3. CASE i = j /\ job'[j].status = job[j].status
    <3>1. undone'[i] = undone[i]
      BY <2>3 DEF Rewritten, Undone
    <3> QED BY <2>3, <2>c, <2>t, <2>u, <3>1
  <2>4. CASE i = j /\ job[j].status \notin Final
    <3>1. undone'[i] = undone[i]
      BY <2>4 DEF Rewritten, Undone
    <3>2. job[j].status # "completed"
      BY <2>4 DEF Final
    <3> QED BY <2>4, <2>c, <2>t, <2>u, <3>1, <3>2
  <2> QED BY <2>1, <2>2, <2>3, <2>4
<1> QED BY <1>1, <1>2 DEF Inv

\* Every step keeps the invariant.
LEMMA InvPreserved == Inv /\ [Next]_vars => Inv'
<1> SUFFICES ASSUME Inv, [Next]_vars PROVE Inv'
  OBVIOUS
<1>t. TypeOK /\ TypeOK'
  BY TypePreserved DEF Inv
<1>r. UNCHANGED <<client, applied>> => ReadInv'
  BY DEF Inv, ReadInv
<1>1. ASSUME NEW j \in Jobs, NEW parent \in 0 .. MaxJobs, Create(j, parent) PROVE Inv'
  <2>1. job' = [job EXCEPT ![j] = QueuedRow(parent)] /\ job[j].status = "absent"
    BY <1>1 DEF Create, IsNew, Jobs
  <2>2. job'[j].status = "queued"
    BY <2>1, <1>t DEF TypeOK, QueuedRow, NewRow
  <2>3. Rewritten(j)
    <3>1. j \notin locked
      BY <2>1 DEF Inv, LockInv
    <3>2. undone' = Undone(j, job'[j].status)
      BY <1>1, <2>1 DEF Create, histories, Undone, Final
    <3> QED BY <1>1, <1>t, <2>1, <3>1, <3>2 DEF Create, histories, Rewritten, TypeOK
  <2>4. ReadInv'
    BY <1>1, <1>r DEF Create, histories
  <2> QED BY <1>t, <2>2, <2>3, <2>4, RewriteKeeps
<1>2. ASSUME NEW j \in Jobs, RequestCommit(j) PROVE Inv'
  BY <1>2, <1>t, QuietKeeps DEF RequestCommit, histories, Quiet
<1>3. ASSUME NEW j \in Jobs, Cancel(j) PROVE Inv'
  <2>1. job'[j].status = "cancelled" /\ job[j].status \notin Final
    BY <1>3, <1>t DEF Cancel, Final, TypeOK, Row
  <2>2. Rewritten(j)
    BY <1>3, <1>t, <2>1 DEF Cancel, histories, LockFree, Undone, Rewritten, TypeOK
  <2>3. ReadInv'
    BY <1>3, <1>r DEF Cancel, histories
  <2> QED BY <1>t, <2>1, <2>2, <2>3, RewriteKeeps
<1>4. ASSUME NEW j \in Jobs, NEW child \in Jobs, Retry(j, child) PROVE Inv'
  <2>1. /\ job' = [Retired(j) EXCEPT ![child] = QueuedRow(j)]
        /\ job[child].status = "absent"
        /\ j # child /\ j \notin locked /\ child \notin locked
    BY <1>4 DEF Retry, IsNew, Stale, LockFree, Inv, LockInv, Jobs
  <2>2. UNCHANGED <<locked, permission, client, applied, undone>> /\ retried' = retried \cup {j}
    BY <1>4 DEF Retry
  <2>3. Retired(j) \in [Jobs -> Row]
    <3>1. "expired" \in Statuses /\ 0 \in Tokens
      BY TokensAssumption DEF Statuses, Final, Tokens
    <3> QED BY <1>t, <3>1, RowsOK DEF Retired, TypeOK
  <2>4. job'[child].status = "queued"
    BY <2>1, <2>3 DEF QueuedRow, NewRow
  <2>5. /\ job'[j].status \in Final \ {"completed"}
        /\ job[j].status # "completed"
    <3>1. job'[j] = Retired(j)[j]
      BY <2>1, <2>3
    <3>2. CASE Stale(j)
      <4>1. job'[j] = [job[j] EXCEPT !.status = "expired", !.token = 0]
        BY <1>t, <3>1, <3>2 DEF Retired, TypeOK
      <4>2. job[j] \in Row
        BY <1>t DEF TypeOK
      <4> QED BY <3>2, <4>1, <4>2 DEF Stale, Final, Row
    <3>3. CASE ~Stale(j)
      <4>1. job'[j] = job[j]
        BY <3>1, <3>3 DEF Retired
      <4> QED BY <1>4, <3>3, <4>1 DEF Retry, Final
    <3> QED BY <3>2, <3>3
  <2>6. \A i \in Jobs \ {j, child} : job'[i] = job[i]
    BY <1>t, <2>1, <2>3 DEF Retired, TypeOK
  <2>7. LockInv'
    BY <1>t, <2>1, <2>2, <2>6 DEF Inv, LockInv, TypeOK
  <2>8. CountInv'
    <3> SUFFICES ASSUME NEW i \in Jobs
                 PROVE  /\ applied'[i] <= undone'[i] + (IF job'[i].status = "completed" THEN 1 ELSE 0)
                        /\ job'[i].status = "completed" => applied'[i] > 0
                        /\ i \in retried' =>
                             applied'[i] + (IF job'[i].status \in Final THEN 0 ELSE 1) <= undone'[i]
      BY DEF CountInv
    <3>c. /\ applied[i] <= undone[i] + (IF job[i].status = "completed" THEN 1 ELSE 0)
          /\ job[i].status = "completed" => applied[i] > 0
          /\ i \in retried => applied[i] + (IF job[i].status \in Final THEN 0 ELSE 1) <= undone[i]
      BY DEF Inv, CountInv
    <3>t. applied[i] \in Nat /\ undone[i] \in Nat
      BY <1>t DEF TypeOK
    <3>1. CASE i = child
      BY <3>1, <3>c, <3>t, <2>1, <2>2, <2>4 DEF Final
    <3>2. CASE i = j
      BY <3>2, <3>c, <3>t, <2>2, <2>5
    <3>3. CASE i \notin {j, child}
      BY <3>3, <3>c, <3>t, <2>2, <2>6
    <3> QED BY <3>1, <3>2, <3>3
  <2> QED BY <1>t, <1>r, <2>2, <2>7, <2>8 DEF Inv
<1>5. ASSUME NEW c \in Clients, NEW j \in Jobs, BeginUpdate(c, j) PROVE Inv'
  <2>1. UNCHANGED <<job, locked, permission, applied, retried, undone>>
    BY <1>5 DEF BeginUpdate, histories
  <2>2. ReadInv'
    <3> SUFFICES ASSUME NEW d \in Clients, client'[d].job \in Jobs,
                        client'[d].row.status = "completed"
                 PROVE  applied'[client'[d].job] > 0
      BY DEF ReadInv
    <3>1. CASE d = c
      <4>1. client'[d].job = j /\ client'[d].row = job[j]
        BY <1>5, <1>t, <3>1 DEF BeginUpdate, TypeOK
      <4> QED BY <4>1, <2>1 DEF Inv, CountInv
    <3>2. CASE d # c
      <4>1. client'[d] = client[d]
        BY <1>5, <1>t, <3>2 DEF BeginUpdate, TypeOK
      <4> QED BY <4>1, <2>1 DEF Inv, ReadInv
    <3> QED BY <3>1, <3>2
  <2>3. LockInv'
    BY <2>1 DEF Inv, LockInv
  <2>4. CountInv'
    BY <2>1 DEF Inv, CountInv
  <2> QED BY <1>t, <2>2, <2>3, <2>4 DEF Inv
<1>a. ASSUME NEW c \in Clients, client' = [client EXCEPT ![c] = AtRest], applied' = applied
      PROVE  ReadInv'
  <2> SUFFICES ASSUME NEW d \in Clients, client'[d].job \in Jobs,
                      client'[d].row.status = "completed"
               PROVE  applied'[client'[d].job] > 0
    BY DEF ReadInv
  <2>1. d # c
    BY <1>a, <1>t DEF TypeOK, AtRest, Jobs
  <2>2. client'[d] = client[d]
    BY <1>a, <1>t, <2>1 DEF TypeOK
  <2> QED BY <1>a, <2>2 DEF Inv, ReadInv
<1>6. ASSUME NEW c \in Clients, NEW parent \in 0 .. MaxJobs, Update(c, parent) PROVE Inv'
  <2>1. PICK j \in Jobs : j = client[c].job
    BY <1>6 DEF Update
  <2>2. job' = [job EXCEPT ![j] = [client[c].row EXCEPT !.parent = parent]]
    BY <1>6, <2>1 DEF Update
  <2>3. job'[j].status = client[c].row.status
    <3>1. client[c].row \in Row
      BY <1>t DEF TypeOK
    <3> QED BY <1>t, <2>2, <3>1 DEF TypeOK, Row
  <2>4. Rewritten(j)
    BY <1>6, <1>t, <2>1, <2>2, <2>3 DEF Update, LockFree, Rewritten, TypeOK
  <2>5. ReadInv'
    BY <1>6, <1>a DEF Update
  <2>6. job'[j].status = "completed" => applied[j] > 0
    BY <2>1, <2>3 DEF Inv, ReadInv
  <2> QED BY <1>t, <2>4, <2>5, <2>6, RewriteKeeps
<1>7. ASSUME NEW c \in Clients, UpdateFails(c) PROVE Inv'
  <2>1. UNCHANGED <<job, locked, permission, applied, retried, undone>>
    BY <1>7 DEF UpdateFails, histories
  <2>2. ReadInv'
    BY <1>7, <2>1, <1>a DEF UpdateFails
  <2>3. LockInv' /\ CountInv'
    BY <2>1 DEF Inv, LockInv, CountInv
  <2> QED BY <1>t, <2>2, <2>3 DEF Inv
<1>8. ASSUME NEW j \in Jobs, Destroy(j) PROVE Inv'
  <2>1. job'[j].status = "gone"
    BY <1>8, <1>t DEF Destroy, NewRow, TypeOK
  <2>2. Rewritten(j)
    BY <1>8, <1>t, <2>1 DEF Destroy, LockFree, Rewritten, TypeOK
  <2>3. ReadInv'
    BY <1>8, <1>r DEF Destroy
  <2> QED BY <1>t, <2>1, <2>2, <2>3, RewriteKeeps
<1>9. ASSUME NEW j \in Jobs, Preview(j) PROVE Inv'
  <2>1. job'[j].status \in {"awaiting_confirmation", "completed_with_errors"}
    <3>1. CASE job' = SetStatus(j, "completed_with_errors")
      BY <1>t, <3>1 DEF SetStatus, TypeOK, Row
    <3>2. ASSUME NEW row, row = [job[j] EXCEPT !.status = "awaiting_confirmation",
                                               !.token = minted', !.previewed = catalog],
                 job' = [job EXCEPT ![j] = row]
          PROVE  job'[j].status = "awaiting_confirmation"
      <4>1. job[j] \in Row
        BY <1>t DEF TypeOK
      <4>2. row.status = "awaiting_confirmation"
        BY <3>2, <4>1 DEF Row
      <4> QED BY <1>t, <3>2, <4>2 DEF TypeOK
    <3> QED BY <1>9, <3>1, <3>2 DEF Preview
  <2>2. \A i \in Jobs \ {j} : job'[i] = job[i]
    BY <1>9, <1>t DEF Preview, SetStatus, TypeOK
  <2>3. Rewritten(j)
    BY <1>9, <2>2 DEF Preview, histories, LockFree, Undone, Final, Rewritten
  <2>4. ReadInv'
    BY <1>9, <1>r DEF Preview, histories
  <2> QED BY <1>t, <2>1, <2>3, <2>4, RewriteKeeps
<1>10. ASSUME NEW j \in Jobs, CommitErrors(j) PROVE Inv'
  <2>1. job'[j].status = "failed" /\ job[j].status \notin Final
    BY <1>10, <1>t DEF CommitErrors, Committable, SetStatus, Final, TypeOK, Row
  <2>2. Rewritten(j)
    BY <1>10, <1>t, <2>1
    DEF CommitErrors, SetStatus, histories, LockFree, Undone, Rewritten, TypeOK
  <2>3. ReadInv'
    BY <1>10, <1>r DEF CommitErrors, histories
  <2> QED BY <1>t, <2>1, <2>2, <2>3, RewriteKeeps
<1>11. ASSUME NEW j \in Jobs, Validate(j) PROVE Inv'
  BY <1>11, <1>t, QuietKeeps DEF Validate, Committable, BindingHolds, histories, Quiet
<1>12. ASSUME NEW j \in Jobs, Apply(j) PROVE Inv'
  <2>1. job[j].status = "awaiting_confirmation"
    BY <1>12 DEF Apply, Inv, LockInv
  <2>2. job'[j].status = "completed" /\ \A i \in Jobs \ {j} : job'[i] = job[i]
    BY <1>12, <1>t DEF Apply, TypeOK, Row
  <2>3. applied' = [applied EXCEPT ![j] = @ + 1] /\ UNCHANGED <<client, permission, retried, undone>>
    BY <1>12 DEF Apply
  <2>4. LockInv'
    BY <1>12, <1>t, <2>2, <2>3 DEF Apply, Inv, LockInv, TypeOK
  <2>5. ReadInv'
    BY <1>t, <2>3 DEF Inv, ReadInv, TypeOK
  <2>6. CountInv'
    <3> SUFFICES ASSUME NEW i \in Jobs
                 PROVE  /\ applied'[i] <= undone'[i] + (IF job'[i].status = "completed" THEN 1 ELSE 0)
                        /\ job'[i].status = "completed" => applied'[i] > 0
                        /\ i \in retried' =>
                             applied'[i] + (IF job'[i].status \in Final THEN 0 ELSE 1) <= undone'[i]
      BY DEF CountInv
    <3>c. /\ applied[i] <= undone[i] + (IF job[i].status = "completed" THEN 1 ELSE 0)
          /\ job[i].status = "completed" => applied[i] > 0
          /\ i \in retried => applied[i] + (IF job[i].status \in Final THEN 0 ELSE 1) <= undone[i]
      BY DEF Inv, CountInv
    <3>t. applied[i] \in Nat /\ undone[i] \in Nat
      BY <1>t DEF TypeOK
    <3>1. CASE i = j
      <4>1. applied'[i] = applied[i] + 1
        BY <3>1, <1>t, <2>3 DEF TypeOK
      <4> QED BY <3>1, <3>c, <3>t, <4>1, <2>1, <2>2, <2>3 DEF Final
    <3>2. CASE i # j
      <4>1. applied'[i] = applied[i] /\ job'[i] = job[i]
        BY <3>2, <1>t, <2>2, <2>3 DEF TypeOK
      <4> QED BY <3>c, <3>t, <4>1, <2>3
    <3> QED BY <3>1, <3>2
  <2> QED BY <1>t, <2>4, <2>5, <2>6 DEF Inv
<1>13. ASSUME NEW j \in Jobs, PreviewRaises(j) PROVE Inv'
  BY <1>13, <1>t, QuietKeeps DEF PreviewRaises, histories, Quiet
<1>14. ASSUME NEW j \in Jobs, CommitRaises(j) PROVE Inv'
  BY <1>14, <1>t, QuietKeeps DEF CommitRaises, histories, Quiet
<1>15. ASSUME NEW j \in Jobs, ApplyRaises(j) PROVE Inv'
  BY <1>15, <1>t, QuietKeeps DEF ApplyRaises, histories, Quiet
<1>16. ASSUME NEW j \in Jobs, Ignore(j) PROVE Inv'
  BY <1>16, <1>t, QuietKeeps DEF Ignore, histories, Quiet
<1>17. ASSUME NEW j \in Jobs, NEW token \in Tokens, RunCallback(j, token) PROVE Inv'
  BY <1>17, <1>t, QuietKeeps DEF RunCallback, histories, Quiet
<1>18. ASSUME NEW j \in Jobs, NEW token \in Tokens, LoseCallback(j, token) PROVE Inv'
  BY <1>18, <1>t, QuietKeeps DEF LoseCallback, histories, Quiet
<1>19. ASSUME NEW j \in Jobs, Evict(j) PROVE Inv'
  BY <1>19, <1>t, QuietKeeps DEF Evict, histories, Quiet
<1>20. CASE RunOut
  BY <1>20, <1>t, QuietKeeps DEF RunOut, histories, Quiet
<1>21. CASE ChangeCatalog
  BY <1>21, <1>t, QuietKeeps DEF ChangeCatalog, histories, Quiet
<1>22. CASE ChangePermission
  <2>1. locked' = {}
    BY <1>22 DEF ChangePermission, UserLocked
  <2>2. UNCHANGED <<job, client, applied, retried, undone>>
    BY <1>22 DEF ChangePermission, histories
  <2> QED BY <1>t, <2>1, <2>2 DEF Inv, LockInv, ReadInv, CountInv
<1>23. CASE UNCHANGED vars
  BY <1>23, <1>t, QuietKeeps DEF vars, Quiet
<1> QED
  BY <1>1, <1>2, <1>3, <1>4, <1>5, <1>6, <1>7, <1>8, <1>9, <1>10, <1>11, <1>12, <1>13,
     <1>14, <1>15, <1>16, <1>17, <1>18, <1>19, <1>20, <1>21, <1>22, <1>23 DEF Next, Process

LEMMA Invariance == Spec => []Inv
<1>1. Init => Inv
  <2>1. Init => TypeOK
    <3>1. ASSUME Init PROVE TypeOK
      BY <3>1, JobsAssumption, TokensAssumption, UpdatesAssumption, ChangesAssumption
      DEF Init, TypeOK, AtRest, NewRow, Row, Statuses, Tokens, Jobs
    <3> QED BY <3>1
  <2> QED BY <2>1 DEF Init, Inv, LockInv, ReadInv, CountInv, NewRow, AtRest, Jobs
<1> QED BY <1>1, InvPreserved, PTL DEF Spec

-----------------------------------------------------------------------------
(* The theorems.                                                           *)

\* Jobs, deliveries, callbacks and requests always have their types.
THEOREM ImportsAreTyped == Spec => []TypeOK
<1>1. Inv => TypeOK
  BY DEF Inv
<1> QED BY <1>1, Invariance, PTL

\* The rows of a job are written once, exactly when it is completed, and not after a
\* retry was made of it (process_import_job and the retry action); each further time
\* takes a client that took the end of the job back.
THEOREM RowsAreWrittenOnce == Spec => []AppliedOnce
<1>1. Inv => AppliedOnce
  <2> SUFFICES ASSUME Inv, NEW j \in Jobs
               PROVE  /\ applied[j] <= undone[j] + (IF job[j].status = "completed" THEN 1 ELSE 0)
                      /\ job[j].status = "completed" => applied[j] > 0
                      /\ j \in retried => applied[j] <= undone[j]
    BY DEF AppliedOnce
  <2>1. applied[j] \in Nat /\ undone[j] \in Nat
    BY DEF Inv, TypeOK
  <2> QED BY <2>1 DEF Inv, CountInv
<1> QED BY <1>1, Invariance, PTL

\* No commit, delivery, retry or callback brings back a job that has ended; only a
\* request does that saves the row as it had read it before.
THEOREM EndedJobsStayEnded == Spec => FinalIsFinal
<1> DEFINE Stays ==
      \A j \in Jobs :
        job[j].status \in Final =>
          \/ job'[j].status \in {job[j].status, "gone"}
          \/ \E c \in Clients : /\ client[c].job = j /\ client'[c] = AtRest
                                /\ client[c].row.status # job[j].status
<1>1. Inv /\ [Next]_vars => [Stays]_vars
  <2> SUFFICES ASSUME Inv, Next PROVE Stays
    OBVIOUS
  <2>t. TypeOK
    BY DEF Inv
  <2>1. ASSUME NEW j \in Jobs, NEW child \in Jobs, Retry(j, child) PROVE Stays
    <3>1. job' = [Retired(j) EXCEPT ![child] = QueuedRow(j)] /\ job[child].status = "absent"
      BY <2>1 DEF Retry, IsNew, Jobs
    <3>2. \A i \in Jobs : job[i].status \in Final => Retired(j)[i] = job[i]
      BY <2>t DEF Retired, Stale, Final, TypeOK
    <3>3. \A i \in Jobs : job[i].status \in Final => i # child
      BY <3>1 DEF Final
    <3>4. \A i \in Jobs \ {child} : job'[i] = Retired(j)[i]
      BY <3>1, <2>t DEF Retired, TypeOK
    <3> QED BY <3>2, <3>3, <3>4
  <2>2. ASSUME NEW j \in Jobs, NEW parent \in 0 .. MaxJobs, Create(j, parent) PROVE Stays
    <3>1. job[j].status = "absent"
      BY <2>2 DEF Create, IsNew, Jobs
    <3> QED BY <2>2, <2>t, <3>1 DEF Create, Final, TypeOK
  <2>3. ASSUME NEW j \in Jobs, Cancel(j) PROVE Stays
    BY <2>3, <2>t DEF Cancel, Final, TypeOK
  <2>4. ASSUME NEW j \in Jobs, Process(j) PROVE Stays
    <3>1. CASE Apply(j)
      <4>1. job[j].status = "awaiting_confirmation"
        BY <3>1 DEF Apply, Inv, LockInv
      <4> QED BY <3>1, <4>1, <2>t DEF Apply, Final, TypeOK
    <3>2. CASE Preview(j)
      BY <3>2, <2>t DEF Preview, SetStatus, Final, TypeOK
    <3>3. CASE CommitErrors(j)
      BY <3>3, <2>t DEF CommitErrors, Committable, SetStatus, Final, TypeOK
    <3>4. CASE Validate(j) \/ PreviewRaises(j) \/ CommitRaises(j) \/ ApplyRaises(j) \/ Ignore(j)
      BY <3>4 DEF Validate, PreviewRaises, CommitRaises, ApplyRaises, Ignore
    <3> QED BY <2>4, <3>1, <3>2, <3>3, <3>4 DEF Process
  <2>5. ASSUME NEW c \in Clients, NEW parent \in 0 .. MaxJobs, Update(c, parent) PROVE Stays
    <3>1. PICK j \in Jobs : j = client[c].job
      BY <2>5 DEF Update
    <3>2. job' = [job EXCEPT ![j] = [client[c].row EXCEPT !.parent = parent]]
      BY <2>5, <3>1 DEF Update
    <3>3. job'[j].status = client[c].row.status
      <4>1. client[c].row \in Row
        BY <2>t DEF TypeOK
      <4> QED BY <2>t, <3>2, <4>1 DEF TypeOK, Row
    <3>4. client'[c] = AtRest
      BY <2>5, <2>t DEF Update, TypeOK
    <3>5. \A i \in Jobs \ {j} : job'[i] = job[i]
      BY <2>t, <3>2 DEF TypeOK
    <3> QED BY <3>1, <3>3, <3>4, <3>5
  <2>6. ASSUME NEW j \in Jobs, Destroy(j) PROVE Stays
    <3>1. job'[j].status = "gone" /\ \A i \in Jobs \ {j} : job'[i] = job[i]
      BY <2>6, <2>t DEF Destroy, NewRow, TypeOK
    <3> QED BY <3>1
  <2>7. ASSUME job' = job PROVE Stays
    BY <2>7
  <2> QED
    BY <2>1, <2>2, <2>3, <2>4, <2>5, <2>6, <2>7
    DEF Next, RequestCommit, BeginUpdate, UpdateFails, RunCallback, LoseCallback, Evict, RunOut,
        ChangeCatalog, ChangePermission
<1> QED BY <1>1, Invariance, PTL DEF Spec, FinalIsFinal

\* Rows are written only while the user has the permissions the import was made with.
THEOREM CommitsAreAuthorised == Spec => CommitIsAuthorised
<1> DEFINE Authorised ==
      \A j \in Jobs : applied'[j] # applied[j] => job[j].permission = permission
<1>1. Inv /\ [Next]_vars => [Authorised]_vars
  <2> SUFFICES ASSUME Inv, Next PROVE Authorised
    OBVIOUS
  <2>1. ASSUME NEW j \in Jobs, Apply(j) PROVE Authorised
    BY <2>1 DEF Apply, Inv, LockInv, TypeOK
  <2>2. ASSUME applied' = applied PROVE Authorised
    BY <2>2
  <2> QED
    BY <2>1, <2>2
    DEF Next, Process, histories, Create, RequestCommit, Cancel, Retry, BeginUpdate, Update,
        UpdateFails, Destroy, Preview, CommitErrors, Validate, PreviewRaises, CommitRaises,
        ApplyRaises, Ignore, RunCallback, LoseCallback, Evict, RunOut, ChangeCatalog,
        ChangePermission
<1> QED BY <1>1, Invariance, PTL DEF Spec, CommitIsAuthorised
=============================================================================
