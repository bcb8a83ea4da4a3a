------------------------- MODULE AttachmentScanProofs -------------------------
(***************************************************************************)
(* The release gate keeps its word unless a scan judges what has replaced  *)
(* the file that it read, and no attachment is forgotten unless its first  *)
(* task outran it: for any number of uploads, editors and workers.         *)
(***************************************************************************)
EXTENDS AttachmentScan, TLAPS

Clean == att.session \notin Infected /\ att.mode = "plain"

\* An update is committed only while the revision is still a draft.
SavedInDraft == \A e \in Editors : editor[e].step = "saved" => phase = "draft"

\* A verdict on the row is one on its bytes, unless it was given by a scan of others,
VerdictHolds == att.state = "available" => Clean

\* and these bytes are those that pass the gate.
GateHolds == phase \in {"checked", "released"} => Clean

Bounded == tasks <= edits + 1 /\ Len(order) > 0

\* A request that has read writes "pending", or "error" if its task is not sent.
EditsPend == \A e \in Editors : editor[e] # Idle => editor[e].row.state \in {"pending", "error"}

Inv ==
  /\ TypeOK
  /\ Bounded
  /\ EditsPend
  /\ SavedInDraft
  /\ ~misjudged => VerdictHolds /\ GateHolds

-----------------------------------------------------------------------------
(* TypeOK.                                                                 *)

LEMMA InitInv == Init => Inv
<1> SUFFICES ASSUME Init PROVE Inv
  OBVIOUS
<1>1. att \in Row /\ order \in Seq(Sessions) /\ Len(order) > 0 /\ ver \in [Sessions -> Verdicts]
      /\ att.state = "pending"
  BY DEF Init, Row, Modes, States, Verdicts
<1>2. TypeOK
  <2>1. tasks \in 0 .. MaxEdits + 1 /\ edits \in 0 .. MaxEdits /\ lost \in 0 .. MaxLost
    BY BoundsAssumption DEF Init
  <2>2. /\ editor \in [Editors -> Editing \cup {Idle}]
        /\ worker \in [Workers -> Scanning \cup {Idle}]
    BY DEF Init
  <2>3. phase = "draft" /\ created = FALSE /\ outran = FALSE /\ misjudged = FALSE
    BY DEF Init
  <2> QED BY <1>1, <2>1, <2>2, <2>3 DEF TypeOK
<1>3. Bounded /\ EditsPend /\ SavedInDraft /\ VerdictHolds /\ GateHolds
  BY <1>1, BoundsAssumption
  DEF Init, Bounded, EditsPend, SavedInDraft, VerdictHolds, GateHolds, Idle
<1> QED
  BY <1>2, <1>3 DEF Inv

\* What a request or a scan in progress holds.
LEMMA Holds ==
  ASSUME TypeOK
  PROVE  /\ \A e \in Editors : editor[e].step # "idle" => editor[e] \in Editing
         /\ \A w \in Workers : worker[w].step # "idle" => worker[w] \in Scanning
         /\ \A e \in Editors : editor[e] \in Editing => editor[e] # Idle
         /\ \A w \in Workers : worker[w] \in Scanning => worker[w] # Idle
BY DEF TypeOK, Idle, Editing, Scanning

\* Requests keep the types.
LEMMA EditorTypes ==
  ASSUME Inv, NEW e \in Editors,
         \/ \E s \in Sessions, mode \in Modes : BeginUpdate(e, s, mode)
         \/ Save(e) \/ SaveUnsent(e) \/ Refuse(e) \/ Commit(e) \/ Rollback(e)
  PROVE  TypeOK' /\ Bounded'
<1> USE BoundsAssumption DEF Inv, Bounded
<1>1. CASE \E s \in Sessions, mode \in Modes : BeginUpdate(e, s, mode)
  BY <1>1 DEF BeginUpdate, TypeOK, Editing, Row, States
<1>2. CASE Save(e)
  <2>1. editor[e] \in Editing
    BY <1>2, Holds DEF Save
  <2>2. [editor[e] EXCEPT !.step = "saved"] \in Editing
    BY <2>1 DEF Editing
  <2>3. editor' \in [Editors -> Editing \cup {Idle}] /\ tasks' \in 0 .. MaxEdits + 1
        /\ edits' \in 0 .. MaxEdits /\ tasks' <= edits' + 1
    BY <1>2, <2>2 DEF Save, TypeOK
  <2>4. outran' \in BOOLEAN /\ UNCHANGED <<created, att, order, ver, phase, worker, lost, misjudged>>
    BY <1>2 DEF Save
  <2> QED BY <2>3, <2>4 DEF TypeOK
<1>3. CASE SaveUnsent(e)
  <2>1. editor[e] \in Editing
    BY <1>3, Holds DEF SaveUnsent
  <2>2. [step |-> "saved", row |-> [editor[e].row EXCEPT !.state = "error"]] \in Editing
    BY <2>1 DEF Editing, Row, States
  <2> QED BY <1>3, <2>2 DEF SaveUnsent, TypeOK
<1>4. CASE Refuse(e) \/ Rollback(e)
  BY <1>4 DEF Refuse, Rollback, TypeOK
<1>5. CASE Commit(e)
  <2>1. editor[e].row \in Row /\ editor[e].row.session \in Sessions
    BY <1>5, Holds DEF Commit, Editing, Row
  <2>2. order' \in Seq(Sessions) /\ Len(order') > 0
    BY <1>5, <2>1 DEF Commit, TypeOK
  <2>3. ver' \in [Sessions -> Verdicts]
    BY <1>5, <2>1 DEF Commit, TypeOK, Verdicts
  <2> QED BY <1>5, <2>1, <2>2, <2>3 DEF Commit, TypeOK
<1> QED BY <1>1, <1>2, <1>3, <1>4, <1>5

\* A verdict on the attachment keeps the types.
Final == {"available", "quarantined", "unscannable", "error"}

LEMMA JudgeTypes ==
  ASSUME Inv, NEW w \in Workers, NEW state \in Final, Judge(w, state)
  PROVE  TypeOK' /\ Bounded'
<1>1. worker[w] \in Scanning
  BY Holds DEF Judge, Inv
<1>2. VersionWord(state) \in Verdicts
  BY DEF VersionWord, Final, Verdicts
<1>3. [worker[w] EXCEPT !.step = "judged", !.verdict = VersionWord(state)] \in Scanning
  BY <1>1, <1>2 DEF Scanning
<1>4. [att EXCEPT !.state = state] \in Row
  BY DEF Inv, TypeOK, Row, Final, States
<1> QED BY <1>3, <1>4 DEF Judge, Current, Inv, TypeOK, Bounded

\* The creation keeps the types.
LEMMA CreationTypes ==
  ASSUME Inv, CommitCreation \/ CreateUnsent \/ Lose
  PROVE  TypeOK' /\ Bounded'
<1> USE BoundsAssumption DEF Inv, Bounded
<1>1. [att EXCEPT !.state = "error"] \in Row
  BY DEF TypeOK, Row, States
<1>2. created' \in BOOLEAN /\ UNCHANGED <<order, ver, phase, editor, worker, edits, outran, misjudged>>
  BY DEF CommitCreation, CreateUnsent, Lose, TypeOK
<1>3. att' \in Row /\ lost' \in 0 .. MaxLost /\ tasks' \in 0 .. MaxEdits + 1 /\ tasks' <= edits + 1
  <2>1. CASE CommitCreation
    BY <2>1 DEF CommitCreation, TypeOK
  <2>2. CASE CreateUnsent
    BY <1>1, <2>2 DEF CreateUnsent, TypeOK
  <2>3. CASE Lose
    BY <2>3 DEF Lose, TypeOK
  <2> QED BY <2>1, <2>2, <2>3
<1> QED BY <1>2, <1>3 DEF TypeOK

\* Every verdict is one of these, and a good one is on good bytes.
Judges(w) == Opaque(w) \/ Pass(w) \/ Object(w) \/ Fail(w)

LEMMA JudgesVerdict ==
  ASSUME NEW w \in Workers, Judges(w)
  PROVE  \E state \in Final :
           /\ Judge(w, state)
           /\ state = "available" => worker[w].session \notin Infected /\ worker[w].mode = "plain"
BY DEF Judges, Opaque, Pass, Object, Fail, Scannable, Final

\* Scans keep the types.
LEMMA WorkerTypes ==
  ASSUME Inv, NEW w \in Workers, Scan(w) \/ Die(w)
  PROVE  TypeOK' /\ Bounded'
<1> USE BoundsAssumption DEF Inv, Bounded
<1>0. CASE LoadMissing(w)
  BY <1>0 DEF LoadMissing, TypeOK
<1>1. CASE Load(w)
  BY <1>1 DEF Load, TypeOK, Scanning, Row, Verdicts
<1>2. CASE FindVersion(w)
  <2>1. worker[w] \in Scanning /\ LatestVersion \in Sessions
    BY <1>2, Holds DEF FindVersion, LatestVersion, TypeOK
  <2>2. [worker[w] EXCEPT !.step = "found", !.version = LatestVersion] \in Scanning
    BY <2>1 DEF Scanning
  <2> QED BY <1>2, <2>2 DEF FindVersion, TypeOK
<1>3. CASE Mark(w)
  <2>1. worker[w] \in Scanning
    BY <1>3, Holds DEF Mark
  <2>2. [worker[w] EXCEPT !.step = "marked"] \in Scanning /\ [att EXCEPT !.state = "scanning"] \in Row
    BY <2>1 DEF Scanning, TypeOK, Row, States
  <2> QED BY <1>3, <2>2 DEF Mark, TypeOK
<1>4. CASE Judges(w)
  BY <1>4, JudgesVerdict, JudgeTypes
<1>5. CASE Oversized(w)
  BY <1>5 DEF Oversized, TypeOK, Row, States
<1>6. CASE SaveVerdict(w)
  <2>1. worker[w].verdict \in Verdicts
    BY <1>6, Holds DEF SaveVerdict, Scanning
  <2> QED BY <1>6, <2>1 DEF SaveVerdict, TypeOK
<1>7. CASE Die(w)
  BY <1>7 DEF Die, TypeOK
<1> QED BY <1>0, <1>1, <1>2, <1>3, <1>4, <1>5, <1>6, <1>7 DEF Scan, Judges

-----------------------------------------------------------------------------
(* The rest of Inv.                                                        *)

\* Requests: an update is committed as "pending" or "error", and only in draft.
LEMMA EditorInv ==
  ASSUME Inv, NEW e \in Editors,
         \/ \E s \in Sessions, mode \in Modes : BeginUpdate(e, s, mode)
         \/ Save(e) \/ SaveUnsent(e) \/ Refuse(e) \/ Commit(e) \/ Rollback(e)
  PROVE  Inv'
<1>1. TypeOK' /\ Bounded'
  BY EditorTypes
<1>2. CASE ~Commit(e)
  <2>1. UNCHANGED <<att, phase, worker, misjudged>>
    BY <1>2 DEF BeginUpdate, Save, SaveUnsent, Refuse, Rollback
  <2>2. editor'[e].step = "saved" => phase = "draft"
    BY <1>2 DEF BeginUpdate, Save, SaveUnsent, Refuse, Rollback, Inv, TypeOK, Idle
  <2>3. editor'[e] # Idle => editor'[e].row.state \in {"pending", "error"}
    <3>1. CASE Save(e)
      <4>1. editor[e] \in Editing /\ editor[e] # Idle
        BY <3>1, Holds DEF Save, Inv
      <4>2. editor'[e].row = editor[e].row
        BY <3>1, <4>1 DEF Save, Inv, TypeOK, Editing
      <4> QED BY <4>1, <4>2 DEF Inv, EditsPend
    <3>2. CASE SaveUnsent(e)
      <4>1. editor[e].row \in Row
        BY <3>2, Holds DEF SaveUnsent, Inv, Editing
      <4> QED BY <3>2, <4>1 DEF SaveUnsent, Inv, TypeOK, Row
    <3>3. CASE ~Save(e) /\ ~SaveUnsent(e)
      BY <1>2, <3>3 DEF BeginUpdate, Refuse, Rollback, Inv, TypeOK, Idle
    <3> QED BY <3>1, <3>2, <3>3
  <2>4. \A f \in Editors : f # e => editor'[f] = editor[f]
    BY <1>2 DEF BeginUpdate, Save, SaveUnsent, Refuse, Rollback, Inv, TypeOK
  <2>5. EditsPend' /\ SavedInDraft'
    BY <2>1, <2>2, <2>3, <2>4 DEF Inv, EditsPend, SavedInDraft
  <2>6. (~misjudged => VerdictHolds /\ GateHolds)'
    BY <2>1 DEF Inv, VerdictHolds, GateHolds, Clean
  <2> QED BY <1>1, <2>5, <2>6 DEF Inv
<1>3. CASE Commit(e)
  <2>1. editor[e] # Idle /\ phase = "draft" /\ phase' = "draft"
    BY <1>3, Holds DEF Commit, Inv, SavedInDraft
  <2>2. att' = editor[e].row /\ att'.state # "available"
    BY <1>3, <2>1 DEF Commit, Inv, EditsPend
  <2>3. EditsPend' /\ SavedInDraft'
    BY <1>3, <2>1 DEF Commit, Inv, TypeOK, EditsPend, SavedInDraft, Idle
  <2>5. VerdictHolds' /\ GateHolds'
    BY <2>1, <2>2 DEF VerdictHolds, GateHolds
  <2> QED BY <1>1, <2>3, <2>5 DEF Inv
<1> QED BY <1>2, <1>3

\* The creation, and a task that is lost: no verdict is given.
LEMMA CreationInv ==
  ASSUME Inv, CommitCreation \/ CreateUnsent \/ Lose
  PROVE  Inv'
<1>1. TypeOK' /\ Bounded'
  BY CreationTypes
<1>2. /\ UNCHANGED <<phase, editor, misjudged>>
      /\ att'.session = att.session /\ att'.mode = att.mode
      /\ att'.state = "available" => att.state = "available"
  BY DEF CommitCreation, CreateUnsent, Lose, Inv, TypeOK, Row
<1> QED BY <1>1, <1>2 DEF Inv, EditsPend, SavedInDraft, VerdictHolds, GateHolds, Clean

\* Scans: they change nothing of the row but its state, and a good verdict is on the bytes of
\* the row, or on others and then told.
LEMMA WorkerInv ==
  ASSUME Inv, NEW w \in Workers, Scan(w) \/ Die(w)
  PROVE  Inv'
<1>1. TypeOK' /\ Bounded'
  BY WorkerTypes
<1>2. /\ UNCHANGED <<phase, editor>>
      /\ att'.session = att.session /\ att'.mode = att.mode
      /\ misjudged => misjudged'
  BY DEF Scan, LoadMissing, Load, FindVersion, Mark, Opaque, Pass, Object, Fail, Judge, Oversized,
         SaveVerdict, Die, Inv, TypeOK, Row
<1>3. EditsPend' /\ SavedInDraft'
  BY <1>2 DEF Inv, EditsPend, SavedInDraft
<1>4. (~misjudged => GateHolds)'
  BY <1>2 DEF Inv, GateHolds, Clean
<1>5. (~misjudged => VerdictHolds)'
  <2> SUFFICES ASSUME ~misjudged', att'.state = "available" PROVE Clean
    BY <1>2 DEF VerdictHolds, Clean
  <2>1. CASE Judges(w)
    <3>1. PICK state \in Final :
            /\ Judge(w, state)
            /\ state = "available" => worker[w].session \notin Infected /\ worker[w].mode = "plain"
      BY <2>1, JudgesVerdict
    <3>2. state = "available" /\ Current(w)
      BY <3>1 DEF Judge, Inv, TypeOK, Row
    <3> QED BY <3>1, <3>2 DEF Current, Clean
  <2>2. CASE ~Judges(w)
    <3>1. att.state = "available"
      BY <2>2 DEF Scan, Judges, LoadMissing, Load, FindVersion, Mark, Oversized, SaveVerdict, Die,
                  Inv, TypeOK, Row
    <3> QED BY <1>2, <3>1 DEF Inv, VerdictHolds
  <2> QED BY <2>1, <2>2
<1> QED BY <1>1, <1>3, <1>4, <1>5 DEF Inv

\* The revision's steps.
LEMMA RevisionInv ==
  ASSUME Inv, Submit \/ SendBack \/ CheckAttachment \/ CheckVersion
  PROVE  Inv'
<1>1. UNCHANGED <<created, att, order, ver, editor, tasks, worker, edits, lost, outran, misjudged>>
  BY DEF Submit, SendBack, CheckAttachment, CheckVersion
<1>2. TypeOK' /\ Bounded' /\ EditsPend'
      /\ (VerdictHolds <=> VerdictHolds') /\ (Clean <=> Clean')
  BY <1>1 DEF Inv, TypeOK, Bounded, EditsPend, VerdictHolds, Clean,
              Submit, SendBack, CheckAttachment, CheckVersion
<1>3. SavedInDraft'
  BY <1>1 DEF Inv, SavedInDraft, Unlocked, Submit, SendBack, CheckAttachment, CheckVersion
<1>4. (~misjudged => GateHolds)'
  BY <1>1, <1>2 DEF Inv, VerdictHolds, GateHolds, Submit, SendBack, CheckAttachment, CheckVersion
<1> QED BY <1>1, <1>2, <1>3, <1>4 DEF Inv

LEMMA NextInv == Inv /\ [Next]_vars => Inv'
<1> SUFFICES ASSUME Inv, [Next]_vars PROVE Inv'
  OBVIOUS
<1>1. CASE UNCHANGED vars
  BY <1>1 DEF vars, Inv, TypeOK, Bounded, EditsPend, SavedInDraft, VerdictHolds, GateHolds, Clean
<1>2. CASE Next
  BY <1>2, CreationInv, EditorInv, WorkerInv, RevisionInv DEF Next
<1> QED BY <1>1, <1>2

-----------------------------------------------------------------------------
(* No scan is forgotten: what ScansEnd rests on.                           *)

\* A task waits, or a worker has one and has not given its verdict.
Unjudged == {"loaded", "found", "marked"}
OnItsWay == tasks > 0 \/ \E w \in Workers : worker[w].step \in Unjudged

\* As long as nothing was lost, an attachment that waits for its verdict, or is about to, has
\* a scan on its way, or its first task outran it.
NoScanForgotten == lost = 0 /\ ~outran /\ (Waiting \/ ~Unlocked) => OnItsWay

\* Requests take no task away, and send one before they make the attachment wait.
LEMMA EditorSends ==
  ASSUME TypeOK, NoScanForgotten, NEW e \in Editors,
         \/ \E s \in Sessions, mode \in Modes : BeginUpdate(e, s, mode)
         \/ Save(e) \/ SaveUnsent(e) \/ Refuse(e) \/ Commit(e) \/ Rollback(e)
  PROVE  NoScanForgotten'
<1>1. tasks' >= tasks /\ worker' = worker /\ tasks \in Nat /\ tasks' \in Nat
  BY BoundsAssumption
  DEF BeginUpdate, Save, SaveUnsent, Refuse, Commit, Rollback, TypeOK
<1>2. (OnItsWay => OnItsWay') /\ (created => created')
  BY <1>1 DEF OnItsWay, BeginUpdate, Save, SaveUnsent, Refuse, Commit, Rollback
<1>3. CASE Save(e)
  BY <1>1, <1>3 DEF Save, NoScanForgotten, OnItsWay
<1>4. CASE SaveUnsent(e)
  BY <1>4, BoundsAssumption DEF SaveUnsent, NoScanForgotten, TypeOK
<1>5. CASE Commit(e)
  <2>1. lost' = lost /\ ~Unlocked /\ (outran => outran')
    BY <1>5 DEF Commit, Unlocked
  <2> QED BY <1>2, <2>1 DEF NoScanForgotten
<1>6. CASE \/ \E s \in Sessions, mode \in Modes : BeginUpdate(e, s, mode)
           \/ Refuse(e) \/ Rollback(e)
  <2>1. UNCHANGED <<att, lost>> /\ (outran => outran')
    BY <1>6 DEF BeginUpdate, Refuse, Rollback
  <2>2. editor'[e].step # "saved" /\ \A f \in Editors \ {e} : editor'[f] = editor[f]
    BY <1>6 DEF BeginUpdate, Refuse, Rollback, TypeOK, Idle
  <2>3. Unlocked => Unlocked'
    BY <1>2, <2>2 DEF Unlocked
  <2> QED BY <1>2, <2>1, <2>3 DEF NoScanForgotten, Waiting
<1> QED BY <1>3, <1>4, <1>5, <1>6

\* A worker is done only when its verdict is on the attachment, which it saves under a lock.
LEMMA WorkerScans ==
  ASSUME TypeOK, NoScanForgotten, NEW w \in Workers, Scan(w) \/ Die(w)
  PROVE  NoScanForgotten'
<1>0. CASE LoadMissing(w)
  BY <1>0 DEF LoadMissing, NoScanForgotten
<1>1. editor' = editor /\ (Unlocked' <=> Unlocked) /\ (outran => outran')
  BY DEF Scan, LoadMissing, Load, FindVersion, Mark, Opaque, Pass, Object, Fail, Judge, Oversized,
         SaveVerdict, Die, Unlocked
<1>2. CASE Load(w) \/ FindVersion(w) \/ Mark(w)
  <2>1. worker'[w].step \in Unjudged
    <3>1. \A r \in Scanning :
            /\ [r EXCEPT !.step = "found", !.version = LatestVersion].step = "found"
            /\ [r EXCEPT !.step = "marked"].step = "marked"
      BY DEF Scanning
    <3>2. CASE Load(w)
      BY <3>2 DEF Load, TypeOK, Unjudged
    <3>3. CASE FindVersion(w) \/ Mark(w)
      <4>1. worker[w] \in Scanning
        BY <3>3, Holds DEF FindVersion, Mark
      <4>2. worker'[w].step \in {"found", "marked"}
        BY <3>1, <3>3, <4>1 DEF FindVersion, Mark, TypeOK
      <4> QED BY <4>2 DEF Unjudged
    <3> QED BY <1>2, <3>2, <3>3
  <2> QED BY <2>1 DEF NoScanForgotten, OnItsWay
<1>3. CASE Judges(w) \/ Oversized(w)
  <2>1. Unlocked /\ att'.state \in Final
    <3>1. CASE Judges(w)
      <4>1. PICK state \in Final : Judge(w, state)
        BY <3>1, JudgesVerdict
      <4> QED BY <4>1 DEF Judge, TypeOK, Row
    <3>2. CASE Oversized(w)
      BY <3>2 DEF Oversized, TypeOK, Row, Final
    <3> QED BY <1>3, <3>1, <3>2
  <2> QED BY <1>1, <2>1 DEF NoScanForgotten, Waiting, Final
<1>4. CASE SaveVerdict(w)
  <2>1. UNCHANGED <<att, tasks, lost>>
    BY <1>4 DEF SaveVerdict
  <2>2. worker[w].step \notin Unjudged /\ \A v \in Workers \ {w} : worker'[v] = worker[v]
    BY <1>4 DEF SaveVerdict, TypeOK, Unjudged
  <2> QED BY <1>1, <2>1, <2>2 DEF NoScanForgotten, Waiting, OnItsWay
<1>5. CASE Die(w)
  BY <1>5, BoundsAssumption DEF Die, TypeOK, NoScanForgotten
<1> QED BY <1>0, <1>2, <1>3, <1>4, <1>5 DEF Scan, Judges

\* The creation does not take its task away, unless the broker has refused it.
LEMMA CreationSends ==
  ASSUME TypeOK, NoScanForgotten, CommitCreation \/ CreateUnsent \/ Lose
  PROVE  NoScanForgotten'
<1>1. CASE CommitCreation
  BY <1>1 DEF CommitCreation, NoScanForgotten, Unlocked, OnItsWay
<1>2. CASE CreateUnsent \/ Lose
  <2>1. lost' # 0
    BY <1>2, BoundsAssumption DEF CreateUnsent, Lose, TypeOK
  <2> QED BY <2>1 DEF NoScanForgotten
<1> QED BY <1>1, <1>2

LEMMA ForgottenNext == TypeOK /\ NoScanForgotten /\ [Next]_vars => NoScanForgotten'
<1> SUFFICES ASSUME TypeOK, NoScanForgotten, [Next]_vars PROVE NoScanForgotten'
  OBVIOUS
<1>1. CASE Submit \/ SendBack \/ CheckAttachment \/ CheckVersion \/ UNCHANGED vars
  BY <1>1 DEF Submit, SendBack, CheckAttachment, CheckVersion, vars, NoScanForgotten, Waiting,
              Unlocked, OnItsWay
<1> QED BY <1>1, CreationSends, EditorSends, WorkerScans DEF Next

-----------------------------------------------------------------------------

\* The rows of the attachment, its versions, its scans and its updates keep their shape.
THEOREM ScansAreTyped == Spec => []TypeOK
<1>1. Inv => TypeOK
  BY DEF Inv
<1> QED BY <1>1, InitInv, NextInv, PTL DEF Spec

\* What _release_gate lets out is bytes that the scanner passes, however scans fail, are lost or
\* run side by side, unless a scan of what the last update has replaced gave the row its verdict
\* after that update.
THEOREM GateLetsOutTheClean == Spec => []OnlyMisjudgedSlipThrough
<1>1. Inv => OnlyMisjudgedSlipThrough
  BY DEF Inv, OnlyMisjudgedSlipThrough, ReleasedIsClean, GateHolds, Clean
<1> QED BY <1>1, InitInv, NextInv, PTL DEF Spec

\* A task is sent before the commit of what it is about.  For an update this loses no scan: no
\* attachment waits for one that is neither queued nor running, unless a task or a worker was
\* lost, or the task of its creation found no row yet and no other has been sent since.
THEOREM NoScanIsForgotten == Spec => []NoScanForgotten
<1>1. Init => NoScanForgotten
  BY DEF Init, NoScanForgotten, OnItsWay
<1>2. Inv => TypeOK
  BY DEF Inv
<1> QED BY <1>1, <1>2, InitInv, NextInv, ForgottenNext, PTL DEF Spec
=============================================================================
