---------------------------- MODULE ServicesProofs ----------------------------
(***************************************************************************)
(* Three services beside the release workflow, each proved on its own:     *)
(* the audit chain, for any number of writers, rows and entries; export    *)
(* jobs, for any number of runs and requests; accounts and sessions, for   *)
(* any number of logins and changes.                                       *)
(***************************************************************************)
EXTENDS AuditChain, ExportJob, SessionSecurity, TLAPS

-----------------------------------------------------------------------------
(* AUDIT CHAIN: who appends to the same entry takes turns at it, appending *)
(* adds no deadlock but a destroy's, and the chain is never broken.        *)

Settled(n) == entry[n] # Missing /\ entry[n].by = Nobody
SettledNext(n) == entry'[n] # Missing /\ entry'[n].by = Nobody

\* Only who deletes waits after its entry; what a writer follows is committed, and locked by it
\* until the end, unless it is an event.
WriterInv(w) ==
  tx[w] # NoTransaction =>
    /\ tx[w].step \in {"row", "laterRow"} => tx[w].row \in Rows
    /\ tx[w].step = "laterRow" => Deletes(tx[w].kind)
    /\ tx[w].step = "wait" => tx[w].prev # None /\ Locks(tx[w].kind)
    /\ tx[w].prev # None => Settled(tx[w].prev)
    /\ tx[w].step \in {"insert", "after", "laterRow"} /\ Locks(tx[w].kind) /\ tx[w].prev # None =>
         lock[tx[w].prev] = w

\* Who holds an entry is past waiting for it.
HoldsEntry(w, n) ==
  lock[n] = w =>
    tx[w] # NoTransaction /\ tx[w].step \in {"insert", "after", "laterRow"} /\ Locks(tx[w].kind)

\* An entry follows a committed one; one that is not committed is its writer's only one.
EntryInv(n) ==
  entry[n] # Missing =>
    /\ entry[n].prev # None => Settled(entry[n].prev)
    /\ entry[n].by # Nobody =>
         /\ tx[entry[n].by] # NoTransaction
         /\ tx[entry[n].by].step \in {"after", "laterRow"}
         /\ tx[entry[n].by].prev = entry[n].prev
         /\ \A m \in Stamps : entry[m] # Missing /\ entry[m].by = entry[n].by => m = n

ChainInv ==
  /\ TypeOK
  /\ \A w \in Writers : WriterInv(w)
  /\ \A w \in Writers, n \in Stamps : HoldsEntry(w, n)
  /\ \A n \in Stamps : EntryInv(n)

-----------------------------------------------------------------------------

LEMMA ChainInit == Init => ChainInv
<1> SUFFICES ASSUME Init PROVE ChainInv
  OBVIOUS
<1>1. TypeOK
  BY DEF Init, TypeOK
<1>2. (\A w \in Writers : WriterInv(w)) /\ \A n \in Stamps : EntryInv(n)
  BY DEF Init, WriterInv, EntryInv
<1>3. \A w \in Writers, n \in Stamps : HoldsEntry(w, n)
  BY NobodyAssumption DEF Init, HoldsEntry
<1> QED
  BY <1>1, <1>2, <1>3 DEF ChainInv

LEMMA Started ==
  ASSUME ChainInv, NEW w \in Writers, tx[w].step \in Steps
  PROVE  tx[w] # NoTransaction /\ tx[w] \in Transaction
<1>1. tx[w] # NoTransaction
  BY DEF NoTransaction, Steps
<1> QED
  BY <1>1 DEF ChainInv, TypeOK

\* The steps of one writer that leave the entries alone.
LEMMA StepInv ==
  ASSUME ChainInv, NEW w \in Writers, NEW t \in Transaction,
         tx' = [tx EXCEPT ![w] = t], entry' = entry,
         rowLock' \in [Rows -> Writers \cup {Nobody}], lock' \in [Stamps -> Writers \cup {Nobody}],
         \A n \in Stamps : lock'[n] = lock[n] \/ (lock[n] = Nobody /\ lock'[n] = w),
         WriterInv(w)', \A n \in Stamps : HoldsEntry(w, n)',
         \A n \in Stamps : entry[n] # Missing /\ entry[n].by = w =>
           t.step \in {"after", "laterRow"} /\ t.prev = tx[w].prev
  PROVE  ChainInv'
<1>1. /\ tx' \in [Writers -> Transaction \cup {NoTransaction}]
      /\ tx'[w] = t /\ t # NoTransaction
      /\ \A v \in Writers \ {w} : tx'[v] = tx[v]
  <2>1. t # NoTransaction
    BY DEF Transaction, NoTransaction
  <2> QED BY <2>1 DEF ChainInv, TypeOK
<1>2. TypeOK'
  BY <1>1 DEF ChainInv, TypeOK
<1>3. ASSUME NEW v \in Writers \ {w} PROVE WriterInv(v)'
  <2> SUFFICES ASSUME tx[v] # NoTransaction PROVE WriterInv(v)'
    BY <1>1 DEF WriterInv
  <2>1. tx[v].prev \in Stamps \cup {None}
    BY DEF ChainInv, TypeOK, Transaction
  <2>2. tx[v].prev # None => tx[v].prev \in Stamps
    BY <2>1
  <2>3. tx[v].prev # None /\ lock[tx[v].prev] = v => lock'[tx[v].prev] = v
    BY <2>2, NobodyAssumption
  <2> QED
    BY <1>1, <2>3 DEF ChainInv, WriterInv, Settled
<1>4. \A v \in Writers, n \in Stamps : HoldsEntry(v, n)'
  BY <1>1 DEF ChainInv, HoldsEntry
<1>5. ASSUME NEW n \in Stamps PROVE EntryInv(n)'
  <2> SUFFICES ASSUME entry[n] # Missing PROVE EntryInv(n)'
    BY DEF EntryInv
  <2>1. entry[n].by \in Writers \cup {Nobody} /\ EntryInv(n)
    BY DEF ChainInv, TypeOK, Entry
  <2>2. CASE entry[n].by = w
    BY <1>1, <2>1, <2>2 DEF EntryInv, Settled
  <2>3. CASE entry[n].by # w
    BY <1>1, <2>1, <2>3 DEF EntryInv, Settled
  <2> QED BY <2>2, <2>3
<1> QED
  BY <1>2, <1>3, <1>4, <1>5 DEF ChainInv

\* Who has not appended yet has no entry that is not committed.
LEMMA NoneYet ==
  ASSUME ChainInv, NEW w \in Writers, tx[w].step \notin {"after", "laterRow"}
  PROVE  \A n \in Stamps : entry[n] # Missing => entry[n].by # w
BY NobodyAssumption DEF ChainInv, EntryInv

LEMMA BeginInv ==
  ASSUME ChainInv, NEW w \in Writers, NEW kind \in Kinds, Begin(w, kind)
  PROVE  ChainInv'
<1> DEFINE t == [kind |-> kind, step |-> "before", row |-> NoRow, prev |-> None]
<1>1. tx[w] = NoTransaction /\ tx' = [tx EXCEPT ![w] = t] /\ UNCHANGED <<entry, rowLock, lock>>
  BY DEF Begin
<1>2. t \in Transaction
  BY DEF Transaction, Steps
<1>3. tx'[w] = t
  BY <1>1 DEF ChainInv, TypeOK
<1>4. WriterInv(w)'
  BY <1>3 DEF WriterInv
<1>5. \A n \in Stamps : lock[n] # w
  BY <1>1 DEF ChainInv, HoldsEntry
<1>6. \A n \in Stamps : HoldsEntry(w, n)'
  BY <1>1, <1>5 DEF HoldsEntry
<1>7. /\ rowLock' \in [Rows -> Writers \cup {Nobody}] /\ lock' \in [Stamps -> Writers \cup {Nobody}]
      /\ entry' = entry /\ \A n \in Stamps : lock'[n] = lock[n] \/ (lock[n] = Nobody /\ lock'[n] = w)
  BY <1>1 DEF ChainInv, TypeOK
<1>8. \A n \in Stamps : entry[n] # Missing /\ entry[n].by = w =>
        t.step \in {"after", "laterRow"} /\ t.prev = tx[w].prev
  BY <1>1, NoneYet DEF NoTransaction
<1> HIDE DEF t
<1> QED
  BY <1>1, <1>2, <1>4, <1>6, <1>7, <1>8, StepInv

LEMMA WantRowInv ==
  ASSUME ChainInv, NEW w \in Writers, NEW r \in Rows, WantRow(w, r)
  PROVE  ChainInv'
<1>1. tx[w] # NoTransaction /\ tx[w] \in Transaction
  BY Started DEF WantRow, Steps
<1> DEFINE step == IF tx[w].step = "before" THEN "row" ELSE "laterRow"
           t == [tx[w] EXCEPT !.step = step, !.row = r]
<1>2. /\ tx[w].step \in {"before", "after"} /\ (step = "laterRow" => Deletes(tx[w].kind))
      /\ tx' = [tx EXCEPT ![w] = t] /\ UNCHANGED <<entry, rowLock, lock>>
  BY DEF WantRow
<1>3. /\ t \in Transaction /\ t.kind = tx[w].kind /\ t.prev = tx[w].prev
      /\ t.step = step /\ t.row = r
  BY <1>1 DEF Transaction, Steps
<1> HIDE DEF t
<1>4. tx'[w] = t /\ t # NoTransaction
  BY <1>2, <1>3 DEF ChainInv, TypeOK, Transaction, NoTransaction
<1>5. WriterInv(w)'
  BY <1>1, <1>2, <1>3, <1>4 DEF ChainInv, WriterInv, Settled
<1>6. \A n \in Stamps : HoldsEntry(w, n)'
  BY <1>2, <1>3, <1>4 DEF ChainInv, HoldsEntry
<1>7. /\ rowLock' \in [Rows -> Writers \cup {Nobody}] /\ lock' \in [Stamps -> Writers \cup {Nobody}]
      /\ entry' = entry /\ \A n \in Stamps : lock'[n] = lock[n] \/ (lock[n] = Nobody /\ lock'[n] = w)
  BY <1>2 DEF ChainInv, TypeOK
<1>8. \A n \in Stamps : entry[n] # Missing /\ entry[n].by = w =>
        t.step \in {"after", "laterRow"} /\ t.prev = tx[w].prev
  BY <1>2, <1>3, NoneYet
<1> QED
  BY <1>2, <1>3, <1>5, <1>6, <1>7, <1>8, StepInv

LEMMA TakeRowInv ==
  ASSUME ChainInv, NEW w \in Writers, TakeRow(w)
  PROVE  ChainInv'
<1>1. tx[w] # NoTransaction /\ tx[w] \in Transaction
  BY Started DEF TakeRow, Steps
<1> DEFINE step == IF tx[w].step = "row" THEN "before" ELSE "after"
           t == [tx[w] EXCEPT !.step = step, !.row = NoRow]
<1>2. /\ tx[w].step \in {"row", "laterRow"}
      /\ tx' = [tx EXCEPT ![w] = t] /\ UNCHANGED <<entry, lock>>
      /\ rowLock' = [rowLock EXCEPT ![tx[w].row] = w]
  BY DEF TakeRow
<1>3. /\ t \in Transaction /\ t.kind = tx[w].kind /\ t.prev = tx[w].prev /\ t.step = step
  BY <1>1 DEF Transaction, Steps
<1> HIDE DEF t
<1>4. tx'[w] = t /\ t # NoTransaction
  BY <1>2, <1>3 DEF ChainInv, TypeOK, Transaction, NoTransaction
<1>5. WriterInv(w)'
  BY <1>1, <1>2, <1>3, <1>4 DEF ChainInv, WriterInv, Settled
<1>6. \A n \in Stamps : HoldsEntry(w, n)'
  BY <1>2, <1>3, <1>4 DEF ChainInv, HoldsEntry
<1>7. /\ rowLock' \in [Rows -> Writers \cup {Nobody}] /\ lock' \in [Stamps -> Writers \cup {Nobody}]
      /\ entry' = entry /\ \A n \in Stamps : lock'[n] = lock[n] \/ (lock[n] = Nobody /\ lock'[n] = w)
  BY <1>2 DEF ChainInv, TypeOK
<1>8. \A n \in Stamps : entry[n] # Missing /\ entry[n].by = w =>
        t.step \in {"after", "laterRow"} /\ t.prev = tx[w].prev
  BY <1>2, <1>3, NoneYet
<1> QED
  BY <1>2, <1>3, <1>5, <1>6, <1>7, <1>8, StepInv

LEMMA LookInv ==
  ASSUME ChainInv, NEW w \in Writers, NEW p \in Stamps \cup {None}, Look(w, p)
  PROVE  ChainInv'
<1>1. tx[w] # NoTransaction /\ tx[w] \in Transaction
  BY Started DEF Look, Steps
<1> DEFINE step == IF p # None /\ Locks(tx[w].kind) THEN "wait" ELSE "insert"
           t == [tx[w] EXCEPT !.prev = p, !.step = step]
<1>2. /\ tx[w].step = "before" /\ IsNewest(p, Visible)
      /\ tx' = [tx EXCEPT ![w] = t] /\ UNCHANGED <<entry, rowLock, lock>>
  BY DEF Look
<1>3. p # None => Settled(p)
  BY <1>2 DEF IsNewest, Visible, Settled
<1>4. /\ t \in Transaction /\ t.kind = tx[w].kind /\ t.prev = p /\ t.step = step
  BY <1>1 DEF Transaction, Steps
<1> HIDE DEF t
<1>5. tx'[w] = t /\ t # NoTransaction
  BY <1>2, <1>4 DEF ChainInv, TypeOK, Transaction, NoTransaction
<1>6. WriterInv(w)'
  BY <1>2, <1>3, <1>4, <1>5 DEF WriterInv, Settled
<1>7. \A n \in Stamps : lock[n] # w
  BY <1>2 DEF ChainInv, HoldsEntry
<1>8. \A n \in Stamps : HoldsEntry(w, n)'
  BY <1>2, <1>7 DEF HoldsEntry
<1>9. /\ rowLock' \in [Rows -> Writers \cup {Nobody}] /\ lock' \in [Stamps -> Writers \cup {Nobody}]
      /\ entry' = entry /\ \A n \in Stamps : lock'[n] = lock[n] \/ (lock[n] = Nobody /\ lock'[n] = w)
  BY <1>2 DEF ChainInv, TypeOK
<1>10. \A n \in Stamps : entry[n] # Missing /\ entry[n].by = w =>
         t.step \in {"after", "laterRow"} /\ t.prev = tx[w].prev
  BY <1>2, NoneYet
<1> QED
  BY <1>2, <1>4, <1>6, <1>8, <1>9, <1>10, StepInv

LEMMA LockEntryInv ==
  ASSUME ChainInv, NEW w \in Writers, LockEntry(w)
  PROVE  ChainInv'
<1>1. tx[w] # NoTransaction /\ tx[w] \in Transaction
  BY Started DEF LockEntry, Steps
<1> DEFINE t == [tx[w] EXCEPT !.step = "insert"]
<1>2. /\ tx[w].step = "wait" /\ lock[tx[w].prev] = Nobody
      /\ tx' = [tx EXCEPT ![w] = t] /\ UNCHANGED <<entry, rowLock>>
      /\ lock' = [lock EXCEPT ![tx[w].prev] = w]
  BY DEF LockEntry, EntryFree
<1>3. /\ t \in Transaction /\ t.kind = tx[w].kind /\ t.prev = tx[w].prev /\ t.step = "insert"
  BY <1>1 DEF Transaction, Steps
<1> HIDE DEF t
<1>4. tx'[w] = t /\ t # NoTransaction
  BY <1>2, <1>3 DEF ChainInv, TypeOK, Transaction, NoTransaction
<1>5. tx[w].prev \in Stamps
  BY <1>1, <1>2 DEF ChainInv, WriterInv, Transaction
<1>6. WriterInv(w)'
  BY <1>1, <1>2, <1>3, <1>4, <1>5 DEF ChainInv, WriterInv, Settled, TypeOK
<1>7. \A n \in Stamps : HoldsEntry(w, n)'
  <2>1. Locks(tx[w].kind)
    BY <1>1, <1>2 DEF ChainInv, WriterInv
  <2> QED BY <1>3, <1>4, <2>1 DEF HoldsEntry
<1>8. /\ rowLock' \in [Rows -> Writers \cup {Nobody}]
      /\ lock' \in [Stamps -> Writers \cup {Nobody}]
      /\ \A n \in Stamps : lock'[n] = lock[n] \/ (lock[n] = Nobody /\ lock'[n] = w)
  BY <1>2, <1>5 DEF ChainInv, TypeOK
<1>9. \A n \in Stamps : entry[n] # Missing /\ entry[n].by = w =>
        t.step \in {"after", "laterRow"} /\ t.prev = tx[w].prev
  BY <1>2, NoneYet
<1> QED
  BY <1>2, <1>3, <1>6, <1>7, <1>8, <1>9, StepInv

LEMMA InsertInv ==
  ASSUME ChainInv, NEW w \in Writers, NEW n \in Stamps, Insert(w, n)
  PROVE  ChainInv'
<1>1. tx[w] # NoTransaction /\ tx[w] \in Transaction
  BY Started DEF Insert, Steps
<1> DEFINE t == [tx[w] EXCEPT !.step = "after"]
           e == [prev |-> tx[w].prev, by |-> w]
<1>2. /\ tx[w].step = "insert" /\ entry[n] = Missing
      /\ entry' = [entry EXCEPT ![n] = e]
      /\ tx' = [tx EXCEPT ![w] = t] /\ UNCHANGED <<rowLock, lock>>
  BY DEF Insert
<1>3. /\ t \in Transaction /\ t.kind = tx[w].kind /\ t.prev = tx[w].prev /\ t.step = "after"
  BY <1>1 DEF Transaction, Steps
<1>4. e \in Entry /\ e # Missing /\ e.prev = tx[w].prev /\ e.by = w
  BY <1>1 DEF Transaction, Entry, Missing
<1> HIDE DEF t, e
<1>5. /\ tx'[w] = t /\ t # NoTransaction /\ tx' \in [Writers -> Transaction \cup {NoTransaction}]
      /\ \A v \in Writers \ {w} : tx'[v] = tx[v]
  <2>1. t # NoTransaction
    BY <1>3 DEF NoTransaction, Transaction
  <2> QED BY <1>2, <1>3, <2>1 DEF ChainInv, TypeOK
<1>6. /\ entry'[n] = e /\ entry' \in [Stamps -> Entry \cup {Missing}]
      /\ \A m \in Stamps \ {n} : entry'[m] = entry[m]
  BY <1>2, <1>4 DEF ChainInv, TypeOK
<1>7. TypeOK'
  BY <1>2, <1>5, <1>6 DEF ChainInv, TypeOK
<1>8. \A m \in Stamps : Settled(m) => SettledNext(m)
  BY <1>2, <1>6 DEF Settled, SettledNext
<1>9. \A v \in Writers :
        tx[v] # NoTransaction /\ tx[v].prev # None => SettledNext(tx[v].prev) /\ tx[v].prev \in Stamps
  <2> SUFFICES ASSUME NEW v \in Writers, tx[v] # NoTransaction, tx[v].prev # None
               PROVE  SettledNext(tx[v].prev) /\ tx[v].prev \in Stamps
    OBVIOUS
  <2>1. tx[v].prev \in Stamps /\ Settled(tx[v].prev)
    BY DEF ChainInv, TypeOK, Transaction, WriterInv
  <2> QED BY <1>8, <2>1
<1>10. ASSUME NEW v \in Writers PROVE WriterInv(v)'
  <2>1. CASE v = w
    BY <1>1, <1>2, <1>3, <1>5, <1>9, <2>1 DEF ChainInv, WriterInv, Settled, SettledNext
  <2>2. CASE v # w
    BY <1>2, <1>5, <1>9, <2>2 DEF ChainInv, WriterInv, Settled, SettledNext
  <2> QED BY <2>1, <2>2
<1>11. \A v \in Writers, m \in Stamps : HoldsEntry(v, m)'
  BY <1>2, <1>3, <1>5 DEF ChainInv, HoldsEntry
<1>12. \A m \in Stamps : entry[m] # Missing => entry[m].by # w
  BY <1>2, NoneYet
<1>13. ASSUME NEW m \in Stamps PROVE EntryInv(m)'
  <2>1. CASE m = n
    BY <1>1, <1>3, <1>4, <1>5, <1>6, <1>9, <1>12, <2>1 DEF EntryInv, Settled, SettledNext
  <2>2. CASE m # n
    <3> SUFFICES ASSUME entry[m] # Missing PROVE EntryInv(m)'
      BY <1>6, <2>2 DEF EntryInv
    <3>1. entry'[m] = entry[m] /\ EntryInv(m) /\ entry[m] \in Entry
      BY <1>6, <2>2 DEF ChainInv, TypeOK
    <3>2. entry[m].prev # None => SettledNext(entry[m].prev)
      BY <1>8, <3>1 DEF EntryInv, Entry
    <3>3. entry[m].by # Nobody => entry[m].by \in Writers \ {w}
      BY <1>12, <3>1 DEF Entry
    <3> QED
      BY <1>4, <1>5, <1>6, <3>1, <3>2, <3>3 DEF EntryInv, Settled, SettledNext
  <2> QED BY <2>1, <2>2
<1> QED
  BY <1>7, <1>10, <1>11, <1>13 DEF ChainInv

\* A transaction that ends keeps or drops its own entries, and lets go of its locks.
LEMMA EndInv ==
  ASSUME ChainInv, NEW w \in Writers, Commit(w) \/ Rollback(w)
  PROVE  ChainInv'
<1>1. Release(w)
  BY DEF Commit, Rollback
<1>2. /\ tx' \in [Writers -> Transaction \cup {NoTransaction}] /\ tx'[w] = NoTransaction
      /\ \A v \in Writers \ {w} : tx'[v] = tx[v]
  BY <1>1 DEF ChainInv, TypeOK, Release
<1>3. rowLock' \in [Rows -> Writers \cup {Nobody}]
  BY <1>1 DEF ChainInv, TypeOK, Release
<1>4. /\ lock' \in [Stamps -> Writers \cup {Nobody}]
      /\ \A v \in Writers, n \in Stamps : lock'[n] = v <=> v # w /\ lock[n] = v
  BY <1>1, NobodyAssumption DEF ChainInv, TypeOK, Release
<1>5. \A n \in Stamps :
        /\ entry'[n] \in Entry \cup {Missing}
        /\ \/ entry'[n] = entry[n] /\ ~Mine(w, n)
           \/ Mine(w, n) /\ entry'[n] = Missing
           \/ Mine(w, n) /\ entry'[n] # Missing /\ entry'[n].by = Nobody /\ entry'[n].prev = entry[n].prev
  <2> SUFFICES ASSUME NEW n \in Stamps
               PROVE  /\ entry'[n] \in Entry \cup {Missing}
                      /\ \/ entry'[n] = entry[n] /\ ~Mine(w, n)
                         \/ Mine(w, n) /\ entry'[n] = Missing
                         \/ Mine(w, n) /\ entry'[n] # Missing /\ entry'[n].by = Nobody
                              /\ entry'[n].prev = entry[n].prev
    OBVIOUS
  <2>0. entry[n] \in Entry \cup {Missing}
    BY DEF ChainInv, TypeOK
  <2>1. CASE ~Mine(w, n)
    <3>1. entry'[n] = entry[n]
      BY <2>1 DEF Commit, Rollback
    <3> QED BY <2>0, <2>1, <3>1
  <2>2. CASE Mine(w, n) /\ Rollback(w)
    <3>1. entry'[n] = Missing
      BY <2>2 DEF Rollback
    <3> QED BY <2>2, <3>1
  <2>3. CASE Mine(w, n) /\ Commit(w)
    <3>1. entry[n] \in Entry
      BY <2>0, <2>3 DEF Mine
    <3>2. entry'[n] = [entry[n] EXCEPT !.by = Nobody]
      BY <2>3 DEF Commit
    <3>3. [entry[n] EXCEPT !.by = Nobody] # Missing
      BY <3>1 DEF Entry, Missing
    <3> QED BY <2>3, <3>1, <3>2, <3>3 DEF Entry
  <2> QED BY <2>1, <2>2, <2>3
<1>6. TypeOK'
  <2>1. entry' \in [Stamps -> Entry \cup {Missing}]
    BY <1>5 DEF Commit, Rollback
  <2> QED BY <1>2, <1>3, <1>4, <2>1 DEF TypeOK
<1>7. \A n \in Stamps : Settled(n) => SettledNext(n)
  BY <1>5, NobodyAssumption DEF Settled, SettledNext, Mine
<1>8. ASSUME NEW v \in Writers \ {w} PROVE WriterInv(v)'
  <2> SUFFICES ASSUME tx[v] # NoTransaction PROVE WriterInv(v)'
    BY <1>2 DEF WriterInv
  <2>1. tx[v].prev \in Stamps \cup {None} /\ WriterInv(v)
    BY DEF ChainInv, TypeOK, Transaction
  <2>2. tx[v].prev # None => SettledNext(tx[v].prev)
    BY <1>7, <2>1 DEF WriterInv
  <2>3. tx[v].prev # None /\ lock[tx[v].prev] = v => lock'[tx[v].prev] = v
    BY <1>4, <2>1
  <2> QED BY <1>2, <2>1, <2>2, <2>3 DEF WriterInv, Settled, SettledNext
<1>9. \A v \in Writers, n \in Stamps : HoldsEntry(v, n)'
  BY <1>2, <1>4 DEF ChainInv, HoldsEntry
<1>10. ASSUME NEW n \in Stamps PROVE EntryInv(n)'
  <2> SUFFICES ASSUME entry'[n] # Missing PROVE EntryInv(n)'
    BY DEF EntryInv
  <2>1. /\ entry[n] # Missing /\ entry[n] \in Entry /\ EntryInv(n) /\ entry'[n].prev = entry[n].prev
        /\ entry'[n].by = Nobody \/ (entry'[n].by = entry[n].by /\ entry[n].by # w)
    BY <1>5 DEF Mine, ChainInv, TypeOK
  <2>2. entry'[n].prev # None => SettledNext(entry'[n].prev)
    BY <1>7, <2>1 DEF EntryInv, Entry
  <2>3. CASE entry'[n].by = Nobody
    BY <2>2, <2>3 DEF EntryInv, Settled, SettledNext
  <2>4. CASE entry'[n].by = entry[n].by /\ entry[n].by # w /\ entry[n].by # Nobody
    <3>1. entry[n].by \in Writers \ {w}
      BY <2>1, <2>4 DEF Entry
    <3>2. \A m \in Stamps : entry'[m] # Missing /\ entry'[m].by = entry[n].by =>
            entry[m] # Missing /\ entry[m].by = entry[n].by
      BY <1>5, <2>4 DEF Mine
    <3> QED BY <1>2, <2>1, <2>2, <2>4, <3>1, <3>2 DEF EntryInv, Settled, SettledNext
  <2> QED BY <2>1, <2>3, <2>4
<1>11. WriterInv(w)'
  BY <1>2 DEF WriterInv
<1> QED
  BY <1>6, <1>8, <1>9, <1>10, <1>11 DEF ChainInv

LEMMA ChainNext == ChainInv /\ [Next]_vars => ChainInv'
<1> SUFFICES ASSUME ChainInv, [Next]_vars PROVE ChainInv'
  OBVIOUS
<1>1. CASE UNCHANGED vars
  BY <1>1 DEF ChainInv, TypeOK, WriterInv, Settled, HoldsEntry, EntryInv, vars
<1> QED
  BY <1>1, BeginInv, WantRowInv, TakeRowInv, LookInv, LockEntryInv, InsertInv, EndInv DEF Next

LEMMA ChainInductive == Spec => []ChainInv
BY ChainInit, ChainNext, PTL DEF Spec

\* Nothing changes or takes away a committed entry: an insertion uses a free stamp, and a
\* transaction ends with its own, uncommitted entries.
LEMMA SettledStays ==
  ASSUME ChainInv, [Next]_vars, NEW n \in Stamps, Settled(n)
  PROVE  entry'[n] = entry[n]
<1>1. entry \in [Stamps -> Entry \cup {Missing}]
  BY DEF ChainInv, TypeOK
<1>2. ASSUME NEW w \in Writers, NEW m \in Stamps, Insert(w, m) PROVE entry'[n] = entry[n]
  BY <1>1, <1>2 DEF Insert, Settled
<1>3. ASSUME NEW w \in Writers, Commit(w) \/ Rollback(w) PROVE entry'[n] = entry[n]
  <2>1. ~Mine(w, n)
    BY NobodyAssumption DEF Mine, Settled
  <2> QED
    BY <1>1, <1>3, <2>1 DEF Commit, Rollback
<1> QED
  BY <1>2, <1>3 DEF Next, vars, Begin, WantRow, TakeRow, Look, LockEntry

\* Whatever an entry follows was committed, and stays as it is for good.
Unbroken ==
  [][\A n \in Stamps :
       /\ entry[n] # Missing /\ entry[n].prev # None => Settled(entry[n].prev)
       /\ Settled(n) => entry'[n] = entry[n]]_vars

-----------------------------------------------------------------------------

\* The variables have their types.
THEOREM AuditChainTypeOK == Spec => []TypeOK
<1>1. ChainInv => TypeOK
  BY DEF ChainInv
<1> QED
  BY <1>1, ChainInductive, PTL

\* Two writers that lock and follow one entry are never both between their insertion and their
\* commit: each would hold the lock that select_for_update of record_audit takes.
THEOREM AuditChainTakesTurns == Spec => []FollowersTakeTurns
<1>1. ChainInv => FollowersTakeTurns
  <2> SUFFICES ASSUME ChainInv, NEW m \in Stamps, NEW n \in Stamps, m # n,
                      Pending(m), Pending(n), entry[m].prev = entry[n].prev, entry[m].prev # None
               PROVE  FALSE
    BY DEF FollowersTakeTurns
  <2>1. \A k \in {m, n} : entry[k].by \in Writers /\ lock[entry[k].prev] = entry[k].by
    <3> SUFFICES ASSUME NEW k \in {m, n}
                 PROVE  entry[k].by \in Writers /\ lock[entry[k].prev] = entry[k].by
      OBVIOUS
    <3>1. Pending(k) /\ entry[k] \in Entry /\ EntryInv(k) /\ entry[k].prev # None
      BY DEF ChainInv, TypeOK, Pending
    <3>2. entry[k].by \in Writers
      BY <3>1 DEF Pending, Entry
    <3>3. WriterInv(entry[k].by)
      BY <3>2 DEF ChainInv
    <3> QED BY <3>1, <3>2, <3>3 DEF Pending, EntryInv, WriterInv
  <2>2. entry[m].by = entry[n].by
    BY <2>1
  <2> QED BY <2>2 DEF ChainInv, EntryInv, Pending
<1> QED
  BY <1>1, ChainInductive, PTL

\* In a circle, who waits for an entry waits for somebody that holds it and waits too, which
\* only a perform_destroy does, when it deletes after it has appended.  Without one, those of
\* them that lock entries wait for rows before they append.
THEOREM AuditChainDeadlocksNeedDestroy == Spec => []DeadlocksNeedDestroy
<1>1. ChainInv => DeadlocksNeedDestroy
  <2> SUFFICES ASSUME ChainInv, NEW S \in SUBSET Writers,
                      \A w \in S : WaitsFor(w) \cap S # {},
                      NEW w \in S, tx[w].step # "row", Locks(tx[w].kind)
               PROVE  \E d \in S : tx[d].kind = "destroy" /\ tx[d].step = "laterRow"
    BY DEF DeadlocksNeedDestroy
  <2>1. ASSUME NEW v \in S
        PROVE  tx[v].step \in {"row", "laterRow", "wait"} /\ tx[v] # NoTransaction /\ WriterInv(v)
    <3>1. tx[v].step \in {"row", "laterRow", "wait"}
      BY DEF WaitsFor
    <3> QED BY <3>1, Started DEF Steps, ChainInv
  <2>2. CASE tx[w].step = "laterRow"
    BY <2>1, <2>2 DEF WriterInv, Deletes, Locks
  <2>3. CASE tx[w].step = "wait"
    <3>1. PICK v \in S : lock[tx[w].prev] = v
      BY <2>3 DEF WaitsFor
    <3>2. tx[w].prev \in Stamps
      BY <2>1, <2>3 DEF ChainInv, TypeOK, Transaction, WriterInv
    <3>3. tx[v].step \in {"insert", "after", "laterRow"} /\ Locks(tx[v].kind)
      BY <3>1, <3>2 DEF ChainInv, HoldsEntry
    <3> QED BY <2>1, <3>3 DEF WriterInv, Deletes, Locks
  <2> QED BY <2>1, <2>2, <2>3
<1> QED
  BY <1>1, ChainInductive, PTL

\* No rollback takes an entry away that another one follows, as nobody sees an entry before
\* it is committed; with the trigger against updates, prev_hash always finds its entry.
THEOREM AuditChainUnbroken == Spec => Unbroken
<1>1. ChainInv /\ [Next]_vars =>
        [\A n \in Stamps :
           /\ entry[n] # Missing /\ entry[n].prev # None => Settled(entry[n].prev)
           /\ Settled(n) => entry'[n] = entry[n]]_vars
  BY SettledStays DEF ChainInv, EntryInv
<1> QED
  BY <1>1, ChainInductive, PTL DEF Spec, Unbroken

-----------------------------------------------------------------------------
(* EXPORT JOBS: what is offered is stored, and only what overlapped takes  *)
(* it back.                                                                *)

At(w, j) == worker[w] # AtRest /\ worker[w].job = j

\* The row as the table has it, or as a request read it and may write it back.
Held(j, row) ==
  \/ Exists(j) /\ job[j] = row
  \/ \E c \in Clients : client[c] # AtRest /\ client[c].job = j /\ client[c].row = row

\* No run has ended: the job has been loaded once at most, and that run goes on.
Untried(j) == runs[j] = 0 \/ (runs[j] = 1 /\ \E w \in Workers : At(w, j))

\* What a row offers was stored, and is what was rendered if no other run can have
\* stored another; and nothing is offered before a run has ended.
Honest(j, row) ==
  /\ row.status = "completed" => row.object # Nothing
  /\ row.object # Nothing => bucket[j][row.object] # Nothing
  /\ row.object # Nothing /\ runs[j] <= 1 => bucket[j][row.object] = row.sha
  /\ Untried(j) => row.status # "completed" /\ row.object = Nothing

\* A run counts; what it has put is there, and is its own unless there was another run.
RunHolds(w, j) ==
  At(w, j) =>
    /\ runs[j] > 0
    /\ worker[w].step = "stored" =>
         /\ worker[w].body # Nothing
         /\ bucket[j][worker[w].row.format] # Nothing
         /\ runs[j] = 1 => bucket[j][worker[w].row.format] = worker[w].body

Alone(v, w, j) == v # w /\ At(v, j) /\ At(w, j) => runs[j] > 1

CancelsQueued ==
  \A c \in Clients : client[c] # AtRest /\ client[c].step = "cancel" => client[c].row.status = "queued"

ExportInv ==
  /\ ExportTypeOK
  /\ \A j \in Jobs, row \in Row : Held(j, row) => Honest(j, row)
  /\ \A w \in Workers, j \in Jobs : RunHolds(w, j)
  /\ \A v, w \in Workers, j \in Jobs : Alone(v, w, j)
  /\ CancelsQueued

LEMMA ExportInitInv == ExportInit => ExportInv
<1> SUFFICES ASSUME ExportInit PROVE ExportInv
  OBVIOUS
<1>1. ExportTypeOK
  BY RedeliveredAssumption DEF ExportInit, ExportTypeOK
<1>2. \A j \in Jobs, row \in Row : ~Held(j, row)
  BY DEF ExportInit, Held, Exists
<1>3. \A w \in Workers, j \in Jobs : ~At(w, j)
  BY DEF ExportInit, At
<1>4. \A w \in Workers, j \in Jobs : RunHolds(w, j)
  BY <1>3 DEF RunHolds
<1>5. \A v, w \in Workers, j \in Jobs : Alone(v, w, j)
  BY <1>3 DEF Alone
<1>6. CancelsQueued
  BY DEF ExportInit, CancelsQueued
<1> QED
  BY <1>1, <1>2, <1>4, <1>5, <1>6 DEF ExportInv

\* A row stays honest as long as no object is lost, no run begins or comes back, and, once a
\* run has ended that was the only one, no object changes.
LEMMA HonestKept ==
  ASSUME ExportInv, NEW j \in Jobs, NEW row \in Row, Honest(j, row),
         \A f \in Formats : bucket[j][f] # Nothing => bucket'[j][f] # Nothing,
         runs'[j] \in Nat, runs[j] <= runs'[j], Untried(j)' => Untried(j),
         Untried(j) \/ runs[j] > 1 \/ \A f \in Formats : bucket'[j][f] = bucket[j][f]
  PROVE  Honest(j, row)'
<1>1. row.object \in Formats \cup {Nothing} /\ runs[j] \in Nat
  BY DEF ExportInv, ExportTypeOK, Row
<1> QED
  BY <1>1 DEF Honest

\* What neither stores anything nor starts a run.
LEMMA RowStep ==
  ASSUME ExportInv, ExportTypeOK', UNCHANGED <<bucket, runs>>,
         \A w \in Workers : worker'[w] \in {AtRest, worker[w]},
         \A j \in Jobs, row \in Row : Held(j, row)' => Held(j, row) \/ Honest(j, row)',
         CancelsQueued'
  PROVE  ExportInv'
<1>1. \A w \in Workers, j \in Jobs : At(w, j)' => At(w, j) /\ worker'[w] = worker[w]
  BY DEF At
<1>2. \A j \in Jobs : Untried(j)' => Untried(j)
  BY <1>1 DEF Untried
<1>3. ASSUME NEW j \in Jobs, NEW row \in Row, Honest(j, row) PROVE Honest(j, row)'
  BY <1>2, <1>3 DEF Honest
<1>4. \A j \in Jobs, row \in Row : Held(j, row)' => Honest(j, row)'
  BY <1>3 DEF ExportInv
<1>5. \A w \in Workers, j \in Jobs : RunHolds(w, j)'
  BY <1>1 DEF ExportInv, RunHolds
<1>6. \A v, w \in Workers, j \in Jobs : Alone(v, w, j)'
  BY <1>1 DEF ExportInv, Alone
<1> QED
  BY <1>4, <1>5, <1>6 DEF ExportInv

\* A row that is in the table is a Row.
LEMMA Made ==
  ASSUME ExportInv, NEW j \in Jobs, Exists(j)
  PROVE  job[j] \in Row
BY DEF ExportInv, ExportTypeOK, Exists

LEMMA AtWork ==
  ASSUME ExportInv, NEW w \in Workers, worker[w] # AtRest
  PROVE  /\ worker[w] \in Running /\ worker[w].job \in Jobs /\ worker[w].row \in Row
         /\ worker[w].row.format \in Formats /\ At(w, worker[w].job)
BY DEF ExportInv, ExportTypeOK, Running, Row, At

\* The other runs of a job are no longer the first, once this one is at work.
LEMMA OneOfMany ==
  ASSUME ExportInv, NEW v \in Workers, NEW w \in Workers, v # w, NEW j \in Jobs, At(v, j), At(w, j)
  PROVE  runs[j] > 1
BY DEF ExportInv, Alone

LEMMA CreateInv ==
  ASSUME ExportInv, NEW j \in Jobs, NEW f \in Formats, NEW n \in {0, 1}, Create(j, f, n)
  PROVE  ExportInv'
<1> DEFINE new == [status |-> "queued", format |-> f, object |-> Nothing, sha |-> Nothing]
<1>1. job' = [job EXCEPT ![j] = new] /\ UNCHANGED <<bucket, worker, client, redelivered, runs>>
      /\ tasks' = [tasks EXCEPT ![j] = n]
  BY DEF Create
<1>2. new \in Row /\ new.status = "queued" /\ new.object = Nothing
  BY DEF Row, Statuses
<1> HIDE DEF new
<1>3. ExportTypeOK'
  BY <1>1, <1>2 DEF ExportInv, ExportTypeOK
<1>4. ASSUME NEW i \in Jobs, NEW row \in Row, Held(i, row)' PROVE Held(i, row) \/ Honest(i, row)'
  <2>1. CASE i = j /\ row = new
    BY <2>1, <1>2 DEF Honest
  <2>2. CASE ~(i = j /\ row = new)
    BY <2>2, <1>1, <1>4 DEF ExportInv, ExportTypeOK, Held, Exists
  <2> QED
    BY <2>1, <2>2
<1>5. CancelsQueued'
  BY <1>1 DEF ExportInv, CancelsQueued
<1> QED
  BY <1>1, <1>3, <1>4, <1>5, RowStep

LEMMA RedeliverInv ==
  ASSUME ExportInv, NEW j \in Jobs, Redeliver(j)
  PROVE  ExportInv'
<1>1. ExportTypeOK'
  BY RedeliveredAssumption DEF Redeliver, ExportInv, ExportTypeOK
<1>2. \A i \in Jobs, row \in Row : Held(i, row)' => Held(i, row)
  BY DEF Redeliver, Held, Exists
<1>3. CancelsQueued'
  BY DEF Redeliver, ExportInv, CancelsQueued
<1> QED
  BY <1>1, <1>2, <1>3, RowStep DEF Redeliver

LEMMA DieInv ==
  ASSUME ExportInv, NEW w \in Workers, Die(w)
  PROVE  ExportInv'
<1>1. ExportTypeOK'
  BY DEF Die, ExportInv, ExportTypeOK
<1>2. \A i \in Jobs, row \in Row : Held(i, row)' => Held(i, row)
  BY DEF Die, Held, Exists
<1>3. CancelsQueued'
  BY DEF Die, ExportInv, CancelsQueued
<1>4. \A v \in Workers : worker'[v] \in {AtRest, worker[v]}
  BY DEF Die, ExportInv, ExportTypeOK
<1> QED
  BY <1>1, <1>2, <1>3, <1>4, RowStep DEF Die

LEMMA AskInv ==
  ASSUME ExportInv, NEW c \in Clients, NEW j \in Jobs, NEW step \in {"update", "cancel"},
         Exists(j), Ask(c, j, step), step = "cancel" => job[j].status = "queued"
  PROVE  ExportInv'
<1>1. job[j] \in Row
  BY Made
<1> DEFINE new == [step |-> step, job |-> j, row |-> job[j]]
<1>2. client' = [client EXCEPT ![c] = new] /\ UNCHANGED <<job, bucket, tasks, worker, redelivered, runs>>
  BY DEF Ask
<1>3. new \in Asking /\ new.step = step /\ new.job = j /\ new.row = job[j]
  BY <1>1 DEF Asking
<1> HIDE DEF new
<1>4. ExportTypeOK'
  BY <1>2, <1>3 DEF ExportInv, ExportTypeOK
<1>5. \A d \in Clients : client'[d] = IF d = c THEN new ELSE client[d]
  BY <1>2 DEF ExportInv, ExportTypeOK
<1>6. \A i \in Jobs, row \in Row : Held(i, row)' => Held(i, row)
  BY <1>2, <1>3, <1>5 DEF Held, Exists
<1>7. CancelsQueued'
  BY <1>3, <1>5 DEF ExportInv, CancelsQueued
<1> QED
  BY <1>2, <1>4, <1>6, <1>7, RowStep

LEMMA UpdateInv ==
  ASSUME ExportInv, NEW c \in Clients, NEW f \in Formats, Update(c, f)
  PROVE  ExportInv'
<1> PICK j \in Jobs : j = client[c].job /\ client[c] # AtRest
  BY DEF Update, ExportInv, ExportTypeOK, Asking
<1> DEFINE new == [client[c].row EXCEPT !.format = f]
<1>1. /\ job' = [job EXCEPT ![j] = new]
      /\ client' = [client EXCEPT ![c] = AtRest] /\ UNCHANGED <<bucket, tasks, worker, redelivered, runs>>
  BY DEF Update
<1>2. client[c].row \in Row
  BY DEF ExportInv, ExportTypeOK, Asking
<1>3. /\ new \in Row /\ new.status = client[c].row.status
      /\ new.object = client[c].row.object /\ new.sha = client[c].row.sha
  BY <1>2 DEF Row
<1>4. Honest(j, client[c].row)
  BY <1>1, <1>2 DEF ExportInv, Held
<1> HIDE DEF new
<1>5. ExportTypeOK'
  BY <1>1, <1>2, <1>3 DEF ExportInv, ExportTypeOK
<1>6. /\ \A d \in Clients : client'[d] # AtRest => client'[d] = client[d]
      /\ \A i \in Jobs : job'[i] = IF i = j THEN new ELSE job[i]
  BY <1>1, <1>2 DEF ExportInv, ExportTypeOK
<1>7. Untried(j)' => Untried(j)
  BY <1>1 DEF Untried, At
<1>8. ASSUME NEW i \in Jobs, NEW row \in Row, Held(i, row)' PROVE Held(i, row) \/ Honest(i, row)'
  <2>1. CASE i = j /\ row = new
    BY <2>1, <1>1, <1>3, <1>4, <1>7 DEF Honest
  <2>2. CASE ~(i = j /\ row = new)
    BY <2>2, <1>6, <1>8 DEF Held, Exists
  <2> QED
    BY <2>1, <2>2
<1>9. CancelsQueued'
  BY <1>6 DEF ExportInv, CancelsQueued
<1> QED
  BY <1>1, <1>5, <1>8, <1>9, RowStep

LEMMA CancelInv ==
  ASSUME ExportInv, NEW c \in Clients, Cancel(c)
  PROVE  ExportInv'
<1> PICK j \in Jobs : j = client[c].job /\ client[c] # AtRest
  BY DEF Cancel, ExportInv, ExportTypeOK, Asking
<1> DEFINE new == [job[j] EXCEPT !.status = "cancelled"]
<1>1. /\ job' = IF Exists(j) THEN [job EXCEPT ![j] = new] ELSE job
      /\ client' = [client EXCEPT ![c] = AtRest] /\ UNCHANGED <<bucket, tasks, worker, redelivered, runs>>
  BY DEF Cancel, Saved
<1>2. ASSUME Exists(j)
      PROVE  /\ new \in Row /\ new.status = "cancelled" /\ new.object = job[j].object
             /\ new.sha = job[j].sha /\ Honest(j, job[j])
  BY <1>2, Made DEF ExportInv, Held, Row, Statuses
<1> HIDE DEF new
<1>3. /\ \A d \in Clients : client'[d] # AtRest => client'[d] = client[d]
      /\ \A i \in Jobs : job'[i] = IF i = j /\ Exists(j) THEN new ELSE job[i]
  BY <1>1 DEF ExportInv, ExportTypeOK
<1>4. ExportTypeOK'
  BY <1>1, <1>2 DEF ExportInv, ExportTypeOK
<1>5. Untried(j)' => Untried(j)
  BY <1>1 DEF Untried, At
<1>6. ASSUME NEW i \in Jobs, NEW row \in Row, Held(i, row)' PROVE Held(i, row) \/ Honest(i, row)'
  <2>1. CASE i = j /\ Exists(j) /\ row = new
    BY <2>1, <1>1, <1>2, <1>5 DEF Honest
  <2>2. CASE ~(i = j /\ Exists(j) /\ row = new)
    BY <2>2, <1>3, <1>6 DEF Held, Exists
  <2> QED
    BY <2>1, <2>2
<1>7. CancelsQueued'
  BY <1>3 DEF ExportInv, CancelsQueued
<1> QED
  BY <1>1, <1>4, <1>6, <1>7, RowStep

LEMMA DestroyInv ==
  ASSUME ExportInv, NEW j \in Jobs, Destroy(j)
  PROVE  ExportInv'
<1>1. job' = [job EXCEPT ![j] = Gone] /\ UNCHANGED <<bucket, tasks, worker, client, redelivered, runs>>
  BY DEF Destroy
<1>2. ExportTypeOK'
  BY <1>1 DEF ExportInv, ExportTypeOK
<1>3. \A i \in Jobs, row \in Row : Held(i, row)' => Held(i, row)
  BY <1>1 DEF ExportInv, ExportTypeOK, Held, Exists
<1>4. CancelsQueued'
  BY <1>1 DEF ExportInv, CancelsQueued
<1> QED
  BY <1>1, <1>2, <1>3, <1>4, RowStep

LEMMA LoadInv ==
  ASSUME ExportInv, NEW w \in Workers, NEW j \in Jobs, Load(w, j)
  PROVE  ExportInv'
<1>1. /\ worker[w] = AtRest /\ tasks[j] > 0 /\ tasks' = [tasks EXCEPT ![j] = @ - 1]
      /\ UNCHANGED <<job, bucket, client, redelivered>>
  BY DEF Load
<1>2. tasks' \in [Jobs -> Nat]
  BY <1>1 DEF ExportInv, ExportTypeOK
<1>3. CancelsQueued'
  BY <1>1 DEF ExportInv, CancelsQueued
<1>4. CASE ~Exists(j)
  <2>1. UNCHANGED <<worker, runs>>
    BY <1>4 DEF Load
  <2>2. ExportTypeOK'
    BY <1>1, <1>2, <2>1 DEF ExportInv, ExportTypeOK
  <2>3. \A i \in Jobs, row \in Row : Held(i, row)' => Held(i, row)
    BY <1>1 DEF Held, Exists
  <2> QED
    BY <1>1, <1>3, <2>1, <2>2, <2>3, RowStep
<1>5. CASE Exists(j)
  <2> DEFINE run == [step |-> "loaded", job |-> j, row |-> job[j], body |-> Nothing]
  <2>1. worker' = [worker EXCEPT ![w] = run] /\ runs' = [runs EXCEPT ![j] = @ + 1]
    BY <1>5 DEF Load
  <2>2. run \in Running /\ run.step = "loaded" /\ run.job = j /\ run # AtRest
    BY <1>5, Made DEF Running, AtRest
  <2> HIDE DEF run
  <2>3. ExportTypeOK'
    BY <1>1, <1>2, <2>1, <2>2 DEF ExportInv, ExportTypeOK
  <2>4. /\ \A v \in Workers : worker'[v] = IF v = w THEN run ELSE worker[v]
        /\ \A i \in Jobs : runs[i] \in Nat /\ runs'[i] = IF i = j THEN runs[i] + 1 ELSE runs[i]
    BY <2>1 DEF ExportInv, ExportTypeOK
  <2>5. \A v \in Workers, i \in Jobs : At(v, i)' <=> IF v = w THEN i = j ELSE At(v, i)
    BY <2>2, <2>4 DEF At
  <2>6. \A i \in Jobs : Untried(i)' => Untried(i)
    BY <2>4, <2>5 DEF Untried
  <2>7. ASSUME NEW i \in Jobs, NEW row \in Row, Held(i, row)' PROVE Honest(i, row)'
    <3>1. Honest(i, row)
      BY <1>1, <2>7 DEF ExportInv, Held, Exists
    <3> QED
      BY <1>1, <2>4, <2>6, <3>1, HonestKept
  <2>8. ASSUME NEW v \in Workers, NEW i \in Jobs PROVE RunHolds(v, i)'
    BY <1>1, <2>2, <2>4, <2>5 DEF ExportInv, RunHolds
  <2>9. ASSUME NEW u \in Workers, NEW v \in Workers, NEW i \in Jobs PROVE Alone(u, v, i)'
    <3>1. RunHolds(u, i) /\ RunHolds(v, i) /\ Alone(u, v, i)
      BY DEF ExportInv
    <3> QED
      BY <2>4, <2>5, <3>1 DEF RunHolds, Alone
  <2> QED
    BY <1>3, <2>3, <2>7, <2>8, <2>9 DEF ExportInv
<1> QED
  BY <1>4, <1>5

\* An object is put while a run goes on.
LEMMA StoredInv ==
  ASSUME ExportInv, NEW w \in Workers, NEW j \in Jobs, At(w, j), NEW body \in Contents,
         bucket' = Stored(w, body)
  PROVE  /\ bucket' \in [Jobs -> [Formats -> Contents \cup {Nothing}]]
         /\ bucket'[j][worker[w].row.format] = body
         /\ \A i \in Jobs, f \in Formats : bucket[i][f] # Nothing => bucket'[i][f] # Nothing
         /\ \A i \in Jobs \ {j} : bucket'[i] = bucket[i]
         /\ runs[j] > 1 \/ Untried(j)
<1>1. worker[w].row.format \in Formats /\ worker[w].job = j
  BY AtWork DEF At
<1>2. body # Nothing
  BY NothingAssumption
<1>3. runs[j] \in Nat /\ runs[j] > 0
  BY DEF ExportInv, ExportTypeOK, RunHolds
<1>4. bucket \in [Jobs -> [Formats -> Contents \cup {Nothing}]]
  BY DEF ExportInv, ExportTypeOK
<1> QED
  BY <1>1, <1>2, <1>3, <1>4 DEF Stored, Untried

LEMMA PutInv ==
  ASSUME ExportInv, NEW w \in Workers, NEW body \in Contents, Put(w, body)
  PROVE  ExportInv'
<1> PICK j \in Jobs : At(w, j)
  BY AtWork DEF Put
<1> DEFINE run == [worker[w] EXCEPT !.step = "stored", !.body = body]
<1>1. /\ bucket' = Stored(w, body) /\ worker' = [worker EXCEPT ![w] = run]
      /\ UNCHANGED <<job, tasks, client, redelivered, runs>>
  BY DEF Put
<1>2. /\ run \in Running /\ run # AtRest /\ run.job = j /\ run.step = "stored" /\ run.body = body
      /\ run.row = worker[w].row
  BY AtWork DEF At, Running, AtRest
<1> HIDE DEF run
<1>3. /\ bucket' \in [Jobs -> [Formats -> Contents \cup {Nothing}]]
      /\ bucket'[j][worker[w].row.format] = body
      /\ \A i \in Jobs, f \in Formats : bucket[i][f] # Nothing => bucket'[i][f] # Nothing
      /\ \A i \in Jobs \ {j} : bucket'[i] = bucket[i]
      /\ runs[j] > 1 \/ Untried(j)
  BY <1>1, StoredInv
<1>4. ExportTypeOK'
  BY <1>1, <1>2, <1>3 DEF ExportInv, ExportTypeOK
<1>5. \A v \in Workers : worker'[v] = IF v = w THEN run ELSE worker[v]
  BY <1>1 DEF ExportInv, ExportTypeOK
<1>6. \A v \in Workers, i \in Jobs : At(v, i)' <=> At(v, i)
  BY <1>2, <1>5 DEF At
<1>7. \A i \in Jobs : Untried(i)' <=> Untried(i)
  BY <1>1, <1>6 DEF Untried
<1>8. ASSUME NEW i \in Jobs, NEW row \in Row, Held(i, row)' PROVE Honest(i, row)'
  <2>1. Honest(i, row) /\ runs'[i] \in Nat /\ runs[i] <= runs'[i]
    BY <1>1, <1>8 DEF ExportInv, ExportTypeOK, Held, Exists
  <2> QED
    BY <1>3, <1>7, <2>1, HonestKept
<1>9. ASSUME NEW v \in Workers, NEW i \in Jobs, At(v, i) PROVE RunHolds(v, i)'
  <2>1. RunHolds(v, i)
    BY DEF ExportInv
  <2>2. CASE v = w
    BY <1>1, <1>2, <1>3, <1>5, <1>9, <2>1, <2>2, NothingAssumption DEF RunHolds, At
  <2>3. CASE v # w
    <3>1. worker'[v] = worker[v] /\ worker[v].row.format \in Formats
      BY <1>5, <1>9, <2>3, AtWork DEF At
    <3>2. i = j => runs[i] > 1
      BY <1>9, <2>3, OneOfMany
    <3>3. runs[i] \in Nat
      BY DEF ExportInv, ExportTypeOK
    <3> QED
      BY <1>1, <1>3, <1>9, <2>1, <3>1, <3>2, <3>3 DEF RunHolds
  <2> QED
    BY <2>2, <2>3
<1>10. \A v \in Workers, i \in Jobs : RunHolds(v, i)'
  BY <1>6, <1>9 DEF RunHolds
<1>11. \A u, v \in Workers, i \in Jobs : Alone(u, v, i)'
  BY <1>1, <1>6 DEF ExportInv, Alone
<1>12. CancelsQueued'
  BY <1>1 DEF ExportInv, CancelsQueued
<1> QED
  BY <1>4, <1>8, <1>10, <1>11, <1>12 DEF ExportInv

\* When a run has ended, the job is no longer untried.
LEMMA Tried ==
  ASSUME ExportInv, NEW w \in Workers, NEW j \in Jobs, At(w, j),
         worker' = [worker EXCEPT ![w] = AtRest], runs' = runs
  PROVE  ~Untried(j)' /\ \A i \in Jobs : Untried(i)' => Untried(i)
<1>1. \A v \in Workers : worker'[v] = IF v = w THEN AtRest ELSE worker[v]
  BY DEF ExportInv, ExportTypeOK
<1>2. \A v \in Workers, i \in Jobs : At(v, i)' => v # w /\ At(v, i)
  BY <1>1 DEF At
<1>3. runs[j] \in Nat /\ runs[j] > 0
  BY DEF ExportInv, ExportTypeOK, RunHolds
<1>4. \A v \in Workers : At(v, j)' => runs[j] > 1
  BY <1>2, OneOfMany
<1> QED
  BY <1>2, <1>3, <1>4 DEF Untried

LEMMA CompleteInv ==
  ASSUME ExportInv, NEW w \in Workers, Complete(w)
  PROVE  ExportInv'
<1> PICK j \in Jobs : At(w, j)
  BY AtWork DEF Complete
<1> DEFINE new == [job[j] EXCEPT !.status = "completed", !.object = worker[w].row.format,
                                 !.sha = worker[w].body]
<1>1. /\ job' = IF Exists(j) THEN [job EXCEPT ![j] = new] ELSE job
      /\ worker' = [worker EXCEPT ![w] = AtRest] /\ worker[w].step = "stored"
      /\ UNCHANGED <<bucket, tasks, client, redelivered, runs>>
  BY DEF Complete, Saved, Completed, At
<1>2. worker[w] \in Running /\ worker[w].row.format \in Formats
  BY AtWork DEF At
<1>3. ASSUME Exists(j)
      PROVE  new \in Row /\ new.object = worker[w].row.format /\ new.sha = worker[w].body
    BY <1>2, <1>3, Made DEF Row, Statuses, Running
<1> HIDE DEF new
<1>4. \A i \in Jobs : job'[i] = IF i = j /\ Exists(j) THEN new ELSE job[i]
  BY <1>1 DEF ExportInv, ExportTypeOK
<1>5. ExportTypeOK'
  BY <1>1, <1>3 DEF ExportInv, ExportTypeOK
<1>6. ASSUME NEW i \in Jobs, NEW row \in Row, Held(i, row)' PROVE Held(i, row) \/ Honest(i, row)'
  <2>1. CASE i = j /\ Exists(j) /\ row = new
    <3>1. RunHolds(w, j) /\ runs[j] \in Nat
      BY DEF ExportInv, ExportTypeOK
    <3>2. ~Untried(j)'
      BY <1>1, Tried
    <3>3. worker[w].row.format # Nothing
      BY <1>2, NothingAssumption
    <3> QED
      BY <1>1, <1>3, <2>1, <3>1, <3>2, <3>3 DEF Honest, RunHolds
  <2>2. CASE ~(i = j /\ Exists(j) /\ row = new)
    BY <1>1, <1>4, <1>6, <2>2 DEF Held, Exists
  <2> QED
    BY <2>1, <2>2
<1>7. CancelsQueued'
  BY <1>1 DEF ExportInv, CancelsQueued
<1>8. \A v \in Workers : worker'[v] \in {AtRest, worker[v]}
  BY <1>1 DEF ExportInv, ExportTypeOK
<1> QED
  BY <1>1, <1>5, <1>6, <1>7, <1>8, RowStep

LEMMA FailInv ==
  ASSUME ExportInv, NEW w \in Workers, NEW body \in Contents \cup {Nothing}, Fail(w, body)
  PROVE  ExportInv'
<1> PICK j \in Jobs : At(w, j)
  BY AtWork DEF Fail
<1> DEFINE new == [job[j] EXCEPT !.status = "failed"]
<1>1. /\ job' = IF Exists(j) THEN [job EXCEPT ![j] = new] ELSE job
      /\ bucket' = IF body = Nothing THEN bucket ELSE Stored(w, body)
      /\ worker' = [worker EXCEPT ![w] = AtRest]
      /\ UNCHANGED <<tasks, client, redelivered, runs>>
  BY DEF Fail, Saved, Failure, At
<1>2. ASSUME Exists(j)
      PROVE  /\ new \in Row /\ new.status = "failed" /\ new.object = job[j].object
             /\ new.sha = job[j].sha
  BY <1>2, Made DEF Row, Statuses
<1> HIDE DEF new
<1>3. \A i \in Jobs : job'[i] = IF i = j /\ Exists(j) THEN new ELSE job[i]
  BY <1>1 DEF ExportInv, ExportTypeOK
<1>4. ~Untried(j)' /\ \A i \in Jobs : Untried(i)' => Untried(i)
  BY <1>1, Tried
<1>5. /\ bucket' \in [Jobs -> [Formats -> Contents \cup {Nothing}]]
      /\ \A i \in Jobs, f \in Formats : bucket[i][f] # Nothing => bucket'[i][f] # Nothing
      /\ \A i \in Jobs : bucket'[i] = bucket[i] \/ (i = j /\ (runs[j] > 1 \/ Untried(j)))
  <2>1. CASE body = Nothing
    <3>1. bucket' = bucket
      BY <1>1, <2>1
    <3> QED
      BY <3>1 DEF ExportInv, ExportTypeOK
  <2>2. CASE body # Nothing
    BY <1>1, <2>2, StoredInv
  <2> QED
    BY <2>1, <2>2
<1>6. ExportTypeOK'
  BY <1>1, <1>2, <1>5 DEF ExportInv, ExportTypeOK
<1>7. /\ \A i \in Jobs : runs'[i] \in Nat /\ runs[i] <= runs'[i]
      /\ \A v \in Workers, i \in Jobs : At(v, i)' => v # w /\ At(v, i) /\ worker'[v] = worker[v]
  BY <1>1 DEF ExportInv, ExportTypeOK, At
<1>8. ASSUME NEW i \in Jobs, NEW row \in Row, Honest(i, row) PROVE Honest(i, row)'
  BY <1>4, <1>5, <1>7, <1>8, HonestKept
<1>9. ASSUME NEW i \in Jobs, NEW row \in Row, Held(i, row)' PROVE Honest(i, row)'
  <2>1. CASE i = j /\ Exists(j) /\ row = new
    <3>1. job[j] \in Row /\ Honest(j, job[j])
      BY <2>1, Made DEF ExportInv, Held
    <3>2. PICK old \in Row : old = job[j] /\ Honest(j, old)'
      BY <1>8, <3>1
    <3> QED
      BY <1>2, <1>4, <2>1, <3>2 DEF Honest
  <2>2. CASE ~(i = j /\ Exists(j) /\ row = new)
    <3>1. Held(i, row)
      BY <1>1, <1>3, <1>9, <2>2 DEF Held, Exists
    <3> QED
      BY <1>8, <3>1 DEF ExportInv
  <2> QED
    BY <2>1, <2>2
<1>10. ASSUME NEW v \in Workers, NEW i \in Jobs, At(v, i)' PROVE RunHolds(v, i)'
  <2>1. v # w /\ At(v, i) /\ worker'[v] = worker[v] /\ RunHolds(v, i)
    BY <1>7, <1>10 DEF ExportInv
  <2>2. worker[v].row.format \in Formats /\ (i = j => runs[i] > 1) /\ runs[i] \in Nat
    BY <2>1, AtWork, OneOfMany DEF At, ExportInv, ExportTypeOK
  <2> QED
    BY <1>1, <1>5, <2>1, <2>2 DEF RunHolds
<1>11. \A v \in Workers, i \in Jobs : RunHolds(v, i)'
  BY <1>10 DEF RunHolds
<1>12. \A u, v \in Workers, i \in Jobs : Alone(u, v, i)'
  BY <1>1, <1>7 DEF ExportInv, Alone
<1>13. CancelsQueued'
  BY <1>1 DEF ExportInv, CancelsQueued
<1> QED
  BY <1>6, <1>9, <1>11, <1>12, <1>13 DEF ExportInv

LEMMA ExportNextInv == ExportInv /\ [ExportNext]_exportVars => ExportInv'
<1> SUFFICES ASSUME ExportInv, [ExportNext]_exportVars PROVE ExportInv'
  OBVIOUS
<1>1. CASE \E j \in Jobs, f \in Formats, n \in {0, 1} : Create(j, f, n)
  BY <1>1, CreateInv
<1>2. CASE \E j \in Jobs : Redeliver(j)
  BY <1>2, RedeliverInv
<1>3. CASE \E w \in Workers, j \in Jobs : Load(w, j)
  BY <1>3, LoadInv
<1>4. CASE \E w \in Workers, body \in Contents : Put(w, body)
  BY <1>4, PutInv
<1>5. CASE \E w \in Workers : Complete(w)
  BY <1>5, CompleteInv
<1>6. CASE \E w \in Workers, body \in Contents \cup {Nothing} : Fail(w, body)
  BY <1>6, FailInv
<1>7. CASE \E w \in Workers : Die(w)
  BY <1>7, DieInv
<1>8. CASE \E c \in Clients, j \in Jobs : BeginUpdate(c, j)
  BY <1>8, AskInv DEF BeginUpdate
<1>9. CASE \E c \in Clients, f \in Formats : Update(c, f)
  BY <1>9, UpdateInv
<1>10. CASE \E c \in Clients, j \in Jobs : BeginCancel(c, j)
  BY <1>10, AskInv DEF BeginCancel, MayCancel
<1>11. CASE \E c \in Clients : Cancel(c)
  BY <1>11, CancelInv
<1>12. CASE \E j \in Jobs : Destroy(j)
  BY <1>12, DestroyInv
<1>13. CASE UNCHANGED exportVars
  <2>1. ExportTypeOK' /\ CancelsQueued'
    BY <1>13 DEF exportVars, ExportInv, ExportTypeOK, CancelsQueued
  <2>2. \A j \in Jobs, row \in Row : Held(j, row)' => Held(j, row)
    BY <1>13 DEF exportVars, Held, Exists
  <2> QED
    BY <1>13, <2>1, <2>2, RowStep DEF exportVars
<1> QED
  BY <1>1, <1>2, <1>3, <1>4, <1>5, <1>6, <1>7, <1>8, <1>9, <1>10, <1>11, <1>12, <1>13 DEF ExportNext

LEMMA ExportInductive == ExportSpec => []ExportInv
BY ExportInitInv, ExportNextInv, PTL DEF ExportSpec

-----------------------------------------------------------------------------

\* The variables have their types.
THEOREM ExportsAreTyped == ExportSpec => []ExportTypeOK
<1>1. ExportInv => ExportTypeOK
  BY DEF ExportInv
<1> QED
  BY <1>1, ExportInductive, PTL

\* A completed job's key holds an object, and the right one unless the task ran twice:
\* whatever row was written back last was honest when it was read, and still is.
THEOREM ExportsAreStored == ExportSpec => []OfferedIsStored
<1>1. ExportInv => OfferedIsStored
  <2> SUFFICES ASSUME ExportInv, NEW j \in Jobs, Exists(j), job[j].status = "completed"
               PROVE  /\ job[j].object # Nothing
                      /\ bucket[j][job[j].object] # Nothing
                      /\ runs[j] <= 1 => bucket[j][job[j].object] = job[j].sha
    BY DEF OfferedIsStored
  <2>1. job[j] \in Row /\ Held(j, job[j])
    BY Made DEF Held
  <2>2. Honest(j, job[j])
    BY <2>1 DEF ExportInv
  <2> QED
    BY <2>2 DEF Honest
<1> QED
  BY <1>1, ExportInductive, PTL

\* No run fails after the only one has completed the job; a cancel read it queued.
THEOREM ExportsStand == ExportSpec => CompletedStands
<1> DEFINE Stands1(j) ==
      Exists(j) /\ job[j].status = "completed" /\ runs[j] <= 1 /\ job'[j] # Gone =>
        \/ job'[j].status = "completed"
        \/ \E c \in Clients : /\ client[c] # AtRest /\ client[c].job = j
                              /\ client[c].row.status # "completed"
<1>1. ASSUME ExportInv, [ExportNext]_exportVars, NEW j \in Jobs PROVE Stands1(j)
  <2> SUFFICES ASSUME Exists(j), job[j].status = "completed", runs[j] <= 1, job'[j] # Gone,
                      job'[j] # job[j]
               PROVE  \/ job'[j].status = "completed"
                      \/ \E c \in Clients : /\ client[c] # AtRest /\ client[c].job = j
                                            /\ client[c].row.status # "completed"
    OBVIOUS
  <2>1. job \in [Jobs -> Row \cup {Unmade, Gone}] /\ job[j] \in Row
    BY <1>1, Made DEF ExportInv, ExportTypeOK
  <2>2. ASSUME NEW w \in Workers, At(w, j) PROVE FALSE
    <3>1. RunHolds(w, j) /\ Honest(j, job[j]) /\ runs[j] \in Nat
      BY <1>1, <2>1 DEF ExportInv, ExportTypeOK, Held
    <3> QED
      BY <2>2, <3>1 DEF RunHolds, Honest, Untried
  <2>3. CASE \E i \in Jobs, f \in Formats, n \in {0, 1} : Create(i, f, n)
    BY <2>1, <2>3 DEF Create, Exists
  <2>4. CASE \E w \in Workers : Complete(w)
    <3> PICK w \in Workers : Complete(w)
      BY <2>4
    <3>1. worker[w].job # j
      BY <2>2 DEF Complete, At
    <3> QED
      BY <2>1, <3>1 DEF Complete, Saved
  <2>5. CASE \E w \in Workers, body \in Contents \cup {Nothing} : Fail(w, body)
    <3> PICK w \in Workers, body \in Contents \cup {Nothing} : Fail(w, body)
      BY <2>5
    <3>1. worker[w].job # j
      BY <2>2 DEF Fail, At
    <3> QED
      BY <2>1, <3>1 DEF Fail, Saved
  <2>6. CASE \E c \in Clients, f \in Formats : Update(c, f)
    <3> PICK c \in Clients, f \in Formats : Update(c, f)
      BY <2>6
    <3>1. client[c] # AtRest /\ client[c].row \in Row
      BY <1>1 DEF Update, ExportInv, ExportTypeOK, Asking
    <3>2. client[c].job = j /\ job'[j] = [client[c].row EXCEPT !.format = f]
      BY <2>1 DEF Update
    <3>3. job'[j].status = client[c].row.status
      BY <3>1, <3>2 DEF Row
    <3> QED
      BY <3>1, <3>2, <3>3
  <2>7. CASE \E c \in Clients : Cancel(c)
    <3> PICK c \in Clients : Cancel(c)
      BY <2>7
    <3>1. client[c].job = j
      BY <2>1 DEF Cancel, Saved
    <3>2. client[c] # AtRest /\ client[c].row.status = "queued"
      BY <1>1 DEF Cancel, ExportInv, CancelsQueued
    <3> QED
      BY <3>1, <3>2
  <2>8. CASE \E i \in Jobs : Destroy(i)
    BY <2>1, <2>8 DEF Destroy
  <2>9. CASE job' = job
    BY <2>9
  <2> QED
    BY <1>1, <2>3, <2>4, <2>5, <2>6, <2>7, <2>8, <2>9
    DEF ExportNext, exportVars, Redeliver, Load, Put, Die, BeginUpdate, BeginCancel, Ask
<1>2. ExportInv /\ [ExportNext]_exportVars => \A j \in Jobs : Stands1(j)
  BY <1>1
<1> QED
  BY <1>2, ExportInductive, PTL DEF ExportSpec, CompletedStands

-----------------------------------------------------------------------------
(* ACCOUNTS AND SESSIONS: a revocation ends what was read before it, pages *)
(* show the account they are about, and failures count.                    *)

\* What was read of an account is not ahead of it, and still true if no change came since.
Current(d) ==
  /\ d.version <= account[d.user].version
  /\ d.version = account[d.user].version =>
       /\ d.standing = Stands(account[d.user])
       /\ d.endings = past[d.user].endings

DataCurrent ==
  /\ \A s \in Sessions : Live(s) => Current(session[s])
  /\ \A p \in Logins : login[p].step = "reset" => Current(login[p].data)

PageCurrent ==
  page # Closed =>
    /\ page.version <= account[page.user].version
    /\ page.version = account[page.user].version => page.rights = RightsOf(account[page.user])

\* Until the account was blurred, the one login at work knows its counters as they are.
Counted(u) ==
  IF u \in Guessed
  THEN ~past[u].blurred =>
         /\ account[u].failed = past[u].since
         /\ (account[u].locked = "never") = (past[u].since < MaxFailures)
         /\ \A p, q \in Logins : LogsIn(p, u) /\ LogsIn(q, u) => p = q
         /\ \A p \in Logins : LogsIn(p, u) /\ login[p].step = "started" =>
              login[p].failed = account[u].failed /\ login[p].locked = account[u].locked
  ELSE account[u].failed = 0 /\ past[u].since = 0 /\ account[u].locked = "never"

\* No counter, on the row or in a login's hands, is ahead of the wrong passwords so far.
Enough(failed, locked, wrong) ==
  /\ failed <= wrong \/ wrong >= MaxFailures
  /\ locked # "never" => wrong >= MaxFailures

Earned(u) ==
  /\ Enough(account[u].failed, account[u].locked, past[u].wrong)
  /\ \A p \in Logins : LogsIn(p, u) /\ login[p].step = "started" =>
       Enough(login[p].failed, login[p].locked, past[u].wrong)

LEMMA SecurityInitType == SecurityInit => SecurityTypeOK
BY DEF SecurityInit, SecurityTypeOK, Account, Past, Roles, NoRole

LEMMA LoginTypes ==
  ASSUME SecurityTypeOK, NEW p \in Logins
  PROVE  /\ login[p].step = "started" =>
              /\ login[p].user \in Users /\ login[p].failed \in Nat /\ login[p].row \in BOOLEAN
              /\ login[p].locked \in {"never", "past"}
         /\ login[p].step = "checked" => login[p].user \in Users
         /\ login[p].step = "reset" => login[p].data \in SessionData
         /\ login[p].step \in {"started", "checked", "reset", "idle"}
BY DEF SecurityTypeOK, Attempt, Idle

LEMMA SessionTypes ==
  ASSUME SecurityTypeOK, NEW s \in Sessions, Live(s)
  PROVE  session[s] \in SessionData /\ session[s].user \in Users
BY DEF SecurityTypeOK, Live, SessionData

LEMMA RequestTypes ==
  ASSUME SecurityTypeOK, NEW r \in Requests, request[r] # Idle
  PROVE  request[r].session \in Sessions /\ request[r].user \in Users
BY DEF SecurityTypeOK, InProgress

\* What every change of an account by an administrator does to its row.
Changes(a, b) ==
  /\ b \in Account
  /\ b.version = a.version + 1
  /\ b.failed = a.failed /\ b.locked = a.locked

LEMMA ChangedRows ==
  ASSUME NEW a \in Account
  PROVE  /\ Changes(a, Unassigned(a)) /\ Changes(a, Revoked(a))
         /\ Changes(a, Disabled(a)) /\ Changes(a, Enabled(a)) /\ Changes(a, Bumped(a))
         /\ \A role \in Grantable : Changes(a, Assigned(a, role)) /\ Changes(a, Patched(a, role))
<1>1. Changes(a, Bumped(a))
  <2>1. PICK x \in Nat, y \in Nat : x = a.version + 1 /\ y = a.nonce + 1
    BY DEF Account
  <2>2. Bumped(a) = [a EXCEPT !.row = TRUE, !.version = x, !.nonce = y]
    BY <2>1 DEF Bumped
  <2> QED
    BY <2>1, <2>2 DEF Account, Changes
<1>2. Changes(a, Unassigned(a))
  BY <1>1 DEF Unassigned, Account, Changes
<1>3. Changes(a, Revoked(a))
  BY <1>2 DEF Revoked, Account, Changes
<1>4. Changes(a, Disabled(a)) /\ Changes(a, Enabled(a))
  BY <1>1 DEF Disabled, Enabled, Account, Changes
<1>5. ASSUME NEW role \in Grantable
      PROVE  Changes(a, Assigned(a, role)) /\ Changes(a, Patched(a, role))
  <2>1. role \in Roles
    BY GrantableAssumption
  <2>2. Changes(a, Assigned(a, role))
    BY <1>1, <2>1 DEF Assigned, Account, Changes
  <2> QED
    BY <2>2 DEF Patched, Account, Changes
<1> QED
  BY <1>1, <1>2, <1>3, <1>4, <1>5

\* An administrator's step looks at one account or changes it.
LEMMA AdministerSteps ==
  ASSUME SecurityTypeOK, NEW r \in Requests, NEW u \in Changed, Administer(r, u)
  PROVE  \/ View(r, u)
         \/ \E row \in Account, ends \in BOOLEAN :
              Changes(account[u], row) /\ Change(r, u, row, ends)
<1>1. u \in Users /\ account[u] \in Account
  BY UsersAssumption DEF SecurityTypeOK
<1>2. /\ Changes(account[u], Unassigned(account[u])) /\ Changes(account[u], Revoked(account[u]))
      /\ Changes(account[u], Disabled(account[u])) /\ Changes(account[u], Enabled(account[u]))
      /\ Changes(account[u], Bumped(account[u]))
      /\ \A role \in Grantable : /\ Changes(account[u], Assigned(account[u], role))
                                 /\ Changes(account[u], Patched(account[u], role))
  BY <1>1, ChangedRows
<1> QED
  BY <1>2 DEF Administer, AssignRole, PatchRole, PatchNoRole, Revoke, Disable, Enable,
                    ActDisable, ActRestore, RevokeSessions, Changes

\* What the other steps do to a row leaves the version and the rights alone.
Spares(a, b) ==
  /\ b \in Account
  /\ b.version = a.version /\ b.active = a.active /\ b.role = a.role /\ b.revoked = a.revoked

LEMMA SparedRows ==
  ASSUME NEW a \in Account, NEW n \in Nat, NEW l \in {"never", "future", "past"}
  PROVE  /\ Spares(a, [a EXCEPT !.row = TRUE])
         /\ Spares(a, [a EXCEPT !.locked = l])
         /\ Spares(a, [a EXCEPT !.failed = n, !.locked = l])
         /\ Spares(a, Reset(a))
<1>1. /\ Spares(a, [a EXCEPT !.row = TRUE])
      /\ Spares(a, [a EXCEPT !.locked = l])
  BY DEF Account, Spares
<1>2. Spares(a, [a EXCEPT !.failed = n, !.locked = l])
  BY DEF Account, Spares
<1>3. Spares(a, Reset(a))
  BY DEF Account, Spares, Reset
<1> QED
  BY <1>1, <1>2, <1>3

LEMMA RejectedRow ==
  ASSUME SecurityTypeOK, NEW p \in Logins, login[p].step = "started"
  PROVE  LET a == account[login[p].user] IN
           /\ Spares(a, Failed(a, p))
           /\ Failed(a, p).failed = login[p].failed + 1
           /\ Failed(a, p).locked =
                IF login[p].failed + 1 >= MaxFailures THEN "future" ELSE login[p].locked
<1>1. PICK a \in Account : a = account[login[p].user]
  BY LoginTypes DEF SecurityTypeOK
<1> DEFINE n == login[p].failed + 1
           l == IF login[p].failed + 1 >= MaxFailures THEN "future" ELSE login[p].locked
<1>2. n \in Nat
  BY LoginTypes
<1>3. l \in {"never", "future", "past"}
  BY LoginTypes
<1>4. Failed(a, p) = [a EXCEPT !.failed = n, !.locked = l]
  BY Zenon DEF Failed
<1>5. n = login[p].failed + 1
  OBVIOUS
<1>6. l = IF login[p].failed + 1 >= MaxFailures THEN "future" ELSE login[p].locked
  OBVIOUS
<1> HIDE DEF n, l
<1>7. Spares(a, Failed(a, p))
  <2>1. Spares(a, [a EXCEPT !.failed = n, !.locked = l])
    BY <1>2, <1>3, SparedRows, Zenon
  <2> QED
    BY <1>4, <2>1, Zenon
<1>8. Failed(a, p).failed = n /\ Failed(a, p).locked = l
  BY <1>4 DEF Account
<1> QED
  BY <1>1, <1>7, <1>8, <1>5, <1>6

-----------------------------------------------------------------------------
(* Types.                                                                  *)

LEMMA RoleTypes ==
  ASSUME SecurityTypeOK, NEW u \in Users
  PROVE  RoleOf(u) \in Roles \cup {NoRole}
BY DEF SecurityTypeOK, Account, RoleOf, Roles

\* What the history of an account may become.
LEMMA PastTypes ==
  ASSUME NEW h \in Past
  PROVE  /\ \A blurred \in BOOLEAN : [h EXCEPT !.since = 0, !.blurred = blurred] \in Past
         /\ \A row \in BOOLEAN : Counts(h, row) \in Past
         /\ \A p, u : Overlaps(p, u) \in BOOLEAN
<1>1. \A blurred \in BOOLEAN : [h EXCEPT !.since = 0, !.blurred = blurred] \in Past
  BY DEF Past
<1>2. \A row \in BOOLEAN : Counts(h, row) \in Past
  <2> SUFFICES ASSUME NEW row \in BOOLEAN PROVE Counts(h, row) \in Past
    OBVIOUS
  <2> DEFINE w == IF h.wrong < MaxFailures THEN h.wrong + 1 ELSE h.wrong
             b == h.blurred \/ ~row
             s == IF b THEN 0 ELSE h.since + 1
  <2>1. w \in Nat /\ b \in BOOLEAN /\ s \in Nat
    BY DEF Past
  <2>2. Counts(h, row) = [h EXCEPT !.wrong = w, !.since = s, !.blurred = b]
    BY Zenon DEF Counts
  <2> HIDE DEF w, b, s
  <2> QED
    BY <2>1, <2>2 DEF Past
<1>3. \A p, u : Overlaps(p, u) \in BOOLEAN
  BY Zenon DEF Overlaps
<1> QED
  BY <1>1, <1>2, <1>3

\* What the steps of a login do to the history of its account.
LEMMA PastSteps ==
  ASSUME NEW h \in Past
  PROVE  /\ \A blurred \in BOOLEAN :
              LET g == [h EXCEPT !.since = 0, !.blurred = blurred] IN
                g.since = 0 /\ g.blurred = blurred /\ g.wrong = h.wrong /\ g.endings = h.endings
         /\ \A row \in BOOLEAN :
              /\ Counts(h, row).wrong = IF h.wrong < MaxFailures THEN h.wrong + 1 ELSE h.wrong
              /\ Counts(h, row).endings = h.endings
              /\ ~Counts(h, row).blurred =>
                   row /\ ~h.blurred /\ Counts(h, row).since = h.since + 1
BY DEF Past, Counts

LEMMA LoginStepTypes ==
  ASSUME SecurityTypeOK, NEW p \in Logins,
         \/ \E u \in Users : BeginLogin(p, u)
         \/ Reject(p) \/ Accept(p) \/ ResetCounters(p)
         \/ \E s \in Sessions : Establish(p, s)
  PROVE  SecurityTypeOK'
<1>1. CASE \E u \in Users : BeginLogin(p, u)
  <2> PICK u \in Users : BeginLogin(p, u)
    BY <1>1
  <2> DEFINE new == [step |-> "started", user |-> u, failed |-> account[u].failed,
                     locked |-> account[u].locked, row |-> account[u].row]
  <2>1. /\ login' = [login EXCEPT ![p] = new]
        /\ UNCHANGED <<account, session, request, page>>
    BY DEF BeginLogin
  <2>2. new \in Attempt
    BY DEF BeginLogin, MayTry, SecurityTypeOK, Account, Attempt
  <2>3. past' \in [Users -> Past]
    BY PastTypes DEF BeginLogin, SecurityTypeOK
  <2> HIDE DEF new
  <2> QED
    BY <2>1, <2>2, <2>3 DEF SecurityTypeOK
<1>2. CASE Reject(p)
  <2>1. login[p].user \in Users
    BY <1>2, LoginTypes DEF Reject
  <2>2. Failed(account[login[p].user], p) \in Account
    BY <1>2, RejectedRow DEF Reject, Spares
  <2>3. account' \in [Users -> Account]
    BY <1>2, <2>1, <2>2 DEF Reject, SecurityTypeOK
  <2>4. past' \in [Users -> Past]
    BY <1>2, <2>1, PastTypes, LoginTypes DEF Reject, SecurityTypeOK
  <2> QED
    BY <1>2, <2>3, <2>4 DEF Reject, SecurityTypeOK
<1>3. CASE Accept(p)
  <2>1. [step |-> "checked", user |-> login[p].user] \in Attempt
    BY <1>3, LoginTypes DEF Accept, Attempt
  <2> QED
    BY <1>3, <2>1 DEF Accept, SecurityTypeOK
<1>4. CASE ResetCounters(p)
  <2> PICK u \in Users : u = login[p].user
    BY <1>4, LoginTypes DEF ResetCounters
  <2> DEFINE data == [user |-> u, version |-> account[u].version, nonce |-> account[u].nonce,
                      standing |-> Stands(account[u]), endings |-> past[u].endings]
  <2>1. /\ account' = [account EXCEPT ![u] = Reset(account[u])]
        /\ past' = [past EXCEPT ![u] =
                        [past[u] EXCEPT !.since = 0, !.blurred = Overlaps(p, u)]]
        /\ login' = [login EXCEPT ![p] = [step |-> "reset", data |-> data]]
        /\ UNCHANGED <<session, request, page>>
    BY <1>4 DEF ResetCounters
  <2>2. data \in SessionData
    BY DEF SecurityTypeOK, Account, Past, SessionData, Stands
  <2> HIDE DEF data
  <2>3. [step |-> "reset", data |-> data] \in Attempt
    BY <2>2 DEF Attempt
  <2>4. Reset(account[u]) \in Account
    BY SparedRows DEF SecurityTypeOK, Spares
  <2>5. past' \in [Users -> Past]
    BY <2>1, PastTypes DEF SecurityTypeOK
  <2> QED
    BY <2>1, <2>3, <2>4, <2>5 DEF SecurityTypeOK
<1>5. CASE \E s \in Sessions : Establish(p, s)
  <2> PICK s \in Sessions : Establish(p, s)
    BY <1>5
  <2>1. login[p].data \in SessionData
    BY LoginTypes DEF Establish
  <2> QED
    BY <2>1 DEF Establish, SecurityTypeOK
<1> QED
  BY <1>1, <1>2, <1>3, <1>4, <1>5

LEMMA RequestStepTypes ==
  ASSUME SecurityTypeOK,
         \/ \E u \in Users : Unlock(u)
         \/ \E r \in Requests, s \in Sessions : LetIn(r, s)
         \/ \E s \in Sessions : Refuse(s)
         \/ \E r \in Requests : Finish(r) \/ Logout(r)
  PROVE  SecurityTypeOK'
<1>1. CASE \E u \in Users : Unlock(u)
  <2> PICK u \in Users : Unlock(u)
    BY <1>1
  <2>1. [account[u] EXCEPT !.locked = "past"] \in Account
    BY SparedRows DEF SecurityTypeOK, Spares
  <2> QED
    BY <2>1 DEF Unlock, SecurityTypeOK
<1>2. CASE \E r \in Requests, s \in Sessions : LetIn(r, s)
  <2> PICK r \in Requests, s \in Sessions : LetIn(r, s)
    BY <1>2
  <2>1. session[s].user \in Users
    BY SessionTypes DEF LetIn
  <2>2. [account[session[s].user] EXCEPT !.row = TRUE] \in Account
    BY <2>1, SparedRows DEF SecurityTypeOK, Spares
  <2>3. [session |-> s, user |-> session[s].user, role |-> RoleOf(session[s].user)] \in InProgress
    BY <2>1, RoleTypes DEF InProgress
  <2> QED
    BY <2>1, <2>2, <2>3 DEF LetIn, SecurityTypeOK
<1>3. CASE \E s \in Sessions : Refuse(s)
  BY <1>3 DEF Refuse, SecurityTypeOK
<1>4. CASE \E r \in Requests : Finish(r) \/ Logout(r)
  BY <1>4 DEF Finish, Logout, EndRequest, SecurityTypeOK
<1> QED
  BY <1>1, <1>2, <1>3, <1>4

LEMMA ViewTypes ==
  ASSUME SecurityTypeOK, NEW r \in Requests, NEW u \in Users, View(r, u)
  PROVE  SecurityTypeOK'
<1>1. [account[u] EXCEPT !.row = TRUE] \in Account
  BY SparedRows DEF SecurityTypeOK, Spares
<1>2. [user |-> u, version |-> account[u].version, rights |-> RightsOf(account[u])]
        \in [user : Users, version : Nat, rights : Rights]
  BY DEF SecurityTypeOK, Account, Rights, RightsOf
<1> QED
  BY <1>1, <1>2 DEF View, EndRequest, SecurityTypeOK

LEMMA ChangeTypes ==
  ASSUME SecurityTypeOK, NEW r \in Requests, NEW u \in Users, NEW row \in Account,
         NEW ends \in BOOLEAN, Change(r, u, row, ends)
  PROVE  SecurityTypeOK'
<1>1. past' \in [Users -> Past]
  BY DEF Change, SecurityTypeOK, Past
<1>2. page' \in {page, Closed}
  BY DEF Change
<1> QED
  BY <1>1, <1>2 DEF Change, EndRequest, SecurityTypeOK

LEMMA SecurityNextType == SecurityTypeOK /\ [SecurityNext]_securityVars => SecurityTypeOK'
<1> SUFFICES ASSUME SecurityTypeOK, [SecurityNext]_securityVars PROVE SecurityTypeOK'
  OBVIOUS
<1>1. CASE \E r \in Requests, u \in Changed : Administer(r, u)
  <2> PICK r \in Requests, u \in Changed : Administer(r, u)
    BY <1>1
  <2>1. u \in Users
    BY UsersAssumption
  <2> QED
    BY <2>1, AdministerSteps, ViewTypes, ChangeTypes
<1>2. CASE UNCHANGED securityVars
  BY <1>2 DEF SecurityTypeOK, securityVars
<1> QED
  BY <1>1, <1>2, LoginStepTypes, RequestStepTypes DEF SecurityNext

\* The variables have their types.
THEOREM SecurityIsTyped == SecuritySpec => []SecurityTypeOK
BY SecurityInitType, SecurityNextType, PTL DEF SecuritySpec

-----------------------------------------------------------------------------
(* What a step does to an account, to what was read of it and to the page. *)

\* The account is as it was, but for its counters, or a change has overtaken its readers.
Kept(u) ==
  /\ account'[u].version = account[u].version
  /\ RightsOf(account'[u]) = RightsOf(account[u])
  /\ Stands(account'[u]) = Stands(account[u])
  /\ past'[u].endings = past[u].endings
Overtaken(u) == account'[u].version = account[u].version + 1

LEMMA SparedAccounts ==
  ASSUME SecurityTypeOK, NEW u \in Users, NEW row, Spares(account[u], row),
         account' = [account EXCEPT ![u] = row],
         \A v \in Users : past'[v].endings = past[v].endings
  PROVE  \A v \in Users : Kept(v)
BY DEF SecurityTypeOK, Spares, Kept, RightsOf, Stands

LEMMA ViewKeeps ==
  ASSUME SecurityTypeOK, NEW r \in Requests, NEW u \in Users, View(r, u)
  PROVE  \A v \in Users : Kept(v)
<1>1. Spares(account[u], [account[u] EXCEPT !.row = TRUE])
  BY SparedRows DEF SecurityTypeOK
<1> QED
  BY <1>1, SparedAccounts DEF View

LEMMA ChangeOvertakes ==
  ASSUME SecurityTypeOK, NEW r \in Requests, NEW u \in Users, NEW row \in Account,
         NEW ends \in BOOLEAN, Changes(account[u], row), Change(r, u, row, ends)
  PROVE  \A v \in Users : Kept(v) \/ Overtaken(v)
<1>1. account' = [account EXCEPT ![u] = row]
  BY DEF Change
<1>2. \A v \in Users \ {u} : past'[v] = past[v]
  BY DEF Change, SecurityTypeOK
<1> QED
  BY <1>1, <1>2 DEF Changes, SecurityTypeOK, Kept, Overtaken

\* A login alters no more than counters.
LEMMA LoginKeeps ==
  ASSUME SecurityTypeOK, NEW p \in Logins,
         \/ \E u \in Users : BeginLogin(p, u)
         \/ Reject(p) \/ Accept(p) \/ ResetCounters(p)
         \/ \E s \in Sessions : Establish(p, s)
  PROVE  \A v \in Users : Kept(v)
<1>1. CASE \E u \in Users : BeginLogin(p, u)
  <2> PICK u \in Users : BeginLogin(p, u)
    BY <1>1
  <2>1. past[u] \in Past /\ past' = [past EXCEPT ![u] =
          IF Overlaps(p, u) THEN [past[u] EXCEPT !.since = 0, !.blurred = TRUE] ELSE past[u]]
    BY DEF BeginLogin, SecurityTypeOK
  <2>2. [past[u] EXCEPT !.since = 0, !.blurred = TRUE].endings = past[u].endings
    BY <2>1, PastSteps
  <2>3. \A v \in Users : past'[v].endings = past[v].endings
    BY <2>1, <2>2 DEF SecurityTypeOK
  <2> QED
    BY <2>3 DEF BeginLogin, Kept
<1>2. CASE Reject(p)
  <2>1. login[p].user \in Users
    BY <1>2, LoginTypes DEF Reject
  <2>2. \A v \in Users : past'[v].endings = past[v].endings
    <3>1. PICK u \in Users : u = login[p].user
      BY <2>1
    <3>2. past[u] \in Past /\ past' = [past EXCEPT ![u] = Counts(past[u], login[p].row)]
      BY <1>2, <3>1 DEF Reject, SecurityTypeOK
    <3>3. Counts(past[u], login[p].row).endings = past[u].endings
      BY <1>2, <3>2, LoginTypes, PastSteps DEF Reject
    <3> QED
      BY <3>2, <3>3 DEF SecurityTypeOK
  <2>3. CASE login[p].row
    <3>1. Spares(account[login[p].user], Failed(account[login[p].user], p))
      BY <1>2, RejectedRow DEF Reject
    <3> QED
      BY <1>2, <2>1, <2>2, <2>3, <3>1, SparedAccounts DEF Reject
  <2>4. CASE ~login[p].row
    BY <1>2, <2>2, <2>4 DEF Reject, Kept
  <2> QED
    BY <2>3, <2>4
<1>3. CASE Accept(p) \/ \E s \in Sessions : Establish(p, s)
  BY <1>3 DEF Accept, Establish, Kept
<1>4. CASE ResetCounters(p)
  <2>1. PICK u \in Users : u = login[p].user
    BY <1>4, LoginTypes DEF ResetCounters
  <2>2. account' = [account EXCEPT ![u] = Reset(account[u])]
    BY <1>4, <2>1 DEF ResetCounters
  <2>3. \A v \in Users : past'[v].endings = past[v].endings
    BY <1>4, <2>1 DEF ResetCounters, SecurityTypeOK
  <2>4. Spares(account[u], Reset(account[u]))
    BY SparedRows DEF SecurityTypeOK
  <2> QED
    BY <2>2, <2>3, <2>4, SparedAccounts
<1> QED
  BY <1>1, <1>2, <1>3, <1>4

LEMMA RequestKeeps ==
  ASSUME SecurityTypeOK,
         \/ \E u \in Users : Unlock(u)
         \/ \E r \in Requests, s \in Sessions : LetIn(r, s)
         \/ \E s \in Sessions : Refuse(s)
         \/ \E r \in Requests : Finish(r) \/ Logout(r)
  PROVE  \A v \in Users : Kept(v)
<1>1. CASE \E u \in Users : Unlock(u)
  <2> PICK u \in Users : Unlock(u)
    BY <1>1
  <2>1. Spares(account[u], [account[u] EXCEPT !.locked = "past"])
    BY SparedRows DEF SecurityTypeOK
  <2> QED
    BY <2>1, SparedAccounts DEF Unlock
<1>2. CASE \E r \in Requests, s \in Sessions : LetIn(r, s)
  <2> PICK r \in Requests, s \in Sessions : LetIn(r, s)
    BY <1>2
  <2>1. session[s].user \in Users
    BY SessionTypes DEF LetIn
  <2>2. Spares(account[session[s].user], [account[session[s].user] EXCEPT !.row = TRUE])
    BY <2>1, SparedRows DEF SecurityTypeOK
  <2> QED
    BY <2>1, <2>2, SparedAccounts DEF LetIn
<1>3. CASE \/ \E s \in Sessions : Refuse(s)
           \/ \E r \in Requests : Finish(r) \/ Logout(r)
  BY <1>3 DEF Refuse, Finish, Logout, Kept
<1> QED
  BY <1>1, <1>2, <1>3

LEMMA AccountSteps ==
  ASSUME SecurityTypeOK, [SecurityNext]_securityVars
  PROVE  \A v \in Users : Kept(v) \/ Overtaken(v)
<1>1. CASE \E r \in Requests, u \in Changed : Administer(r, u)
  <2> PICK r \in Requests, u \in Changed : Administer(r, u)
    BY <1>1
  <2>1. u \in Users
    BY UsersAssumption
  <2> QED
    BY <2>1, AdministerSteps, ViewKeeps, ChangeOvertakes
<1>2. CASE UNCHANGED securityVars
  BY <1>2 DEF securityVars, Kept
<1> QED
  BY <1>1, <1>2, LoginKeeps, RequestKeeps DEF SecurityNext

\* What was read and is not ahead stays so.
LEMMA CurrentStays ==
  ASSUME SecurityTypeOK, [SecurityNext]_securityVars, NEW d \in SessionData, Current(d)
  PROVE  Current(d)'
<1>1. d.user \in Users /\ d.version \in Nat
  BY DEF SessionData
<1>2. account[d.user].version \in Nat
  BY <1>1 DEF SecurityTypeOK, Account
<1>3. Kept(d.user) \/ Overtaken(d.user)
  BY <1>1, AccountSteps
<1> QED
  BY <1>1, <1>2, <1>3 DEF Kept, Overtaken, Current

\* A login reads an account as it is.
LEMMA DataSteps ==
  ASSUME SecurityTypeOK, [SecurityNext]_securityVars,
         NEW p \in Logins, login'[p].step = "reset", login'[p] # login[p]
  PROVE  /\ login'[p].data.user \in Users
         /\ login'[p].data.version = account[login'[p].data.user].version
         /\ login'[p].data.standing = Stands(account[login'[p].data.user])
         /\ login'[p].data.endings = past[login'[p].data.user].endings
         /\ Kept(login'[p].data.user)
<1>1. ResetCounters(p)
  <2>1. login' # login
    OBVIOUS
  <2>2. \A q \in Logins : \A u \in Users : BeginLogin(q, u) => login'[p] = login[p] \/ login'[p].step = "started"
    BY DEF BeginLogin, SecurityTypeOK
  <2>3. \A q \in Logins : Accept(q) => login'[p] = login[p] \/ login'[p].step = "checked"
    BY DEF Accept, SecurityTypeOK
  <2>4. \A q \in Logins : Reject(q) \/ (\E s \in Sessions : Establish(q, s))
          => login'[p] = login[p] \/ login'[p].step = "idle"
    BY DEF Reject, Establish, SecurityTypeOK, Idle
  <2>5. \A q \in Logins : ResetCounters(q) => login'[p] = login[p] \/ p = q
    BY DEF ResetCounters, SecurityTypeOK
  <2>6. ~ \/ \E u \in Users : Unlock(u)
          \/ \E r \in Requests, s \in Sessions : LetIn(r, s)
          \/ \E s \in Sessions : Refuse(s)
          \/ \E r \in Requests : Finish(r) \/ Logout(r)
          \/ UNCHANGED securityVars
    BY <2>1 DEF Unlock, LetIn, Refuse, Finish, Logout, securityVars
  <2>7. ~ \E r \in Requests, u \in Changed : Administer(r, u)
    BY <2>1, UsersAssumption, AdministerSteps DEF View, Change
  <2> QED
    BY <2>2, <2>3, <2>4, <2>5, <2>6, <2>7 DEF SecurityNext
<1>2. PICK u \in Users : u = login[p].user
  BY <1>1, LoginTypes DEF ResetCounters
<1>3. login'[p] = [step |-> "reset", data |->
        [user |-> u, version |-> account[u].version, nonce |-> account[u].nonce,
         standing |-> Stands(account[u]), endings |-> past[u].endings]]
  BY <1>1, <1>2 DEF ResetCounters, SecurityTypeOK
<1>4. Kept(u)
  BY <1>1, LoginKeeps
<1> QED
  BY <1>3, <1>4

\* A session holds what it held, or what a login had read.
LEMMA SessionSteps ==
  ASSUME SecurityTypeOK, [SecurityNext]_securityVars, NEW s \in Sessions, Live(s)'
  PROVE  \/ Live(s) /\ session'[s] = session[s]
         \/ \E p \in Logins : login[p].step = "reset" /\ session'[s] = login[p].data
<1>1. CASE session' = session
  BY <1>1 DEF Live
<1>2. CASE \E p \in Logins, t \in Sessions : Establish(p, t)
  BY <1>2 DEF Establish, SecurityTypeOK, Live
<1>3. CASE (\E t \in Sessions : Refuse(t)) \/ \E r \in Requests : Logout(r)
  BY <1>3, RequestTypes DEF Refuse, Logout, SecurityTypeOK, Live
<1>4. ASSUME NEW r \in Requests, NEW u \in Changed, Administer(r, u) PROVE session' = session
  BY <1>4, UsersAssumption, AdministerSteps DEF View, Change
<1> QED
  BY <1>1, <1>2, <1>3, <1>4
  DEF SecurityNext, securityVars, BeginLogin, Reject, Accept, ResetCounters, Unlock, LetIn, Finish

LEMMA DataCurrentNext ==
  ASSUME SecurityTypeOK, DataCurrent, [SecurityNext]_securityVars
  PROVE  DataCurrent'
<1>1. ASSUME NEW s \in Sessions, Live(s)' PROVE Current(session[s])'
  <2>1. PICK d \in SessionData : d = session'[s] /\ Current(d)
    BY <1>1, SessionSteps, SessionTypes, LoginTypes DEF DataCurrent
  <2> QED
    BY <2>1, CurrentStays DEF Current
<1>2. ASSUME NEW p \in Logins, login'[p].step = "reset" PROVE Current(login[p].data)'
  <2>1. CASE login'[p] = login[p]
    <3>1. PICK d \in SessionData : d = login'[p].data /\ Current(d)
      BY <1>2, <2>1, LoginTypes DEF DataCurrent
    <3> QED
      BY <3>1, CurrentStays DEF Current
  <2>2. CASE login'[p] # login[p]
    <3>1. PICK d : d = login'[p].data
      OBVIOUS
    <3>2. /\ d.user \in Users
          /\ d.version = account[d.user].version
          /\ d.standing = Stands(account[d.user])
          /\ d.endings = past[d.user].endings
          /\ Kept(d.user)
      BY <1>2, <2>2, <3>1, DataSteps
    <3>3. account[d.user].version \in Nat
      BY <3>2 DEF SecurityTypeOK, Account
    <3> QED
      BY <3>1, <3>2, <3>3 DEF Kept, Current
  <2> QED
    BY <2>1, <2>2
<1> QED
  BY <1>1, <1>2 DEF DataCurrent

\* A page stays as it is, is closed or is made anew.
LEMMA PageSteps ==
  ASSUME SecurityTypeOK, [SecurityNext]_securityVars
  PROVE  \/ page' \in {page, Closed}
         \/ \E u \in Users : /\ page' = [user |-> u, version |-> account[u].version,
                                          rights |-> RightsOf(account[u])]
                              /\ Kept(u)
<1>1. CASE \E r \in Requests, u \in Changed : Administer(r, u)
  <2> PICK r \in Requests, u \in Changed : Administer(r, u)
    BY <1>1
  <2>1. u \in Users
    BY UsersAssumption
  <2>2. CASE View(r, u)
    <3>1. Kept(u)
      BY <2>1, <2>2, ViewKeeps
    <3> QED
      BY <2>1, <2>2, <3>1 DEF View
  <2>3. CASE \E row \in Account, ends \in BOOLEAN : Change(r, u, row, ends)
    BY <2>3 DEF Change
  <2> QED
    BY <2>2, <2>3, AdministerSteps
<1> QED
  BY <1>1 DEF SecurityNext, securityVars, BeginLogin, Reject, Accept, ResetCounters, Establish,
              Unlock, LetIn, Refuse, Finish, Logout

LEMMA PageCurrentNext ==
  ASSUME SecurityTypeOK, PageCurrent, [SecurityNext]_securityVars
  PROVE  PageCurrent'
<1> SUFFICES ASSUME page' # Closed
             PROVE  /\ page'.version <= account'[page'.user].version
                    /\ page'.version = account'[page'.user].version
                         => page'.rights = RightsOf(account'[page'.user])
  BY DEF PageCurrent, RightsOf
<1>1. CASE page' = page
  <2>1. page.user \in Users /\ page.version \in Nat
    BY <1>1 DEF SecurityTypeOK
  <2>2. account[page.user].version \in Nat
    BY <2>1 DEF SecurityTypeOK, Account
  <2>3. Kept(page.user) \/ Overtaken(page.user)
    BY <2>1, AccountSteps
  <2> QED
    BY <1>1, <2>1, <2>2, <2>3 DEF PageCurrent, Kept, Overtaken
<1>2. ASSUME NEW u \in Users, Kept(u),
             page' = [user |-> u, version |-> account[u].version, rights |-> RightsOf(account[u])]
      PROVE  /\ page'.version <= account'[page'.user].version
             /\ page'.version = account'[page'.user].version
                  => page'.rights = RightsOf(account'[page'.user])
  <2>1. account[u].version \in Nat
    BY DEF SecurityTypeOK, Account
  <2> QED
    BY <1>2, <2>1 DEF Kept
<1> QED
  BY <1>1, <1>2, PageSteps

LEMMA CurrentInvariant == SecuritySpec => [](SecurityTypeOK /\ DataCurrent /\ PageCurrent)
<1>1. SecurityInit => DataCurrent /\ PageCurrent
  BY DEF SecurityInit, DataCurrent, PageCurrent, Live, Unused, Idle, Closed
<1>2. SecurityTypeOK /\ DataCurrent /\ PageCurrent /\ [SecurityNext]_securityVars
        => SecurityTypeOK' /\ DataCurrent' /\ PageCurrent'
  BY SecurityNextType, DataCurrentNext, PageCurrentNext
<1> QED
  BY <1>1, <1>2, SecurityInitType, PTL DEF SecuritySpec

\* A session lets nobody in that was read from an account while it was disabled or revoked,
\* or before it last was: SessionSecurityMiddleware's test of version and nonce.
THEOREM SecurityEndsSessions == SecuritySpec => []EndedLoginsStayOut
<1>1. SecurityTypeOK /\ DataCurrent => EndedLoginsStayOut
  <2> SUFFICES ASSUME SecurityTypeOK, DataCurrent, NEW s \in Sessions, Live(s), Valid(s)
               PROVE  session[s].standing /\ session[s].endings = past[session[s].user].endings
    BY DEF EndedLoginsStayOut
  <2> QED
    BY DEF DataCurrent, Current, Valid, Stands
<1> QED
  BY <1>1, CurrentInvariant, PTL

\* An administrator's page whose If-Match still matches shows what the account may do.
THEOREM SecurityPagesMatch == SecuritySpec => []PageShowsAccount
<1>1. SecurityTypeOK /\ PageCurrent => PageShowsAccount
  BY UsersAssumption DEF PageCurrent, PageShowsAccount, Matches, Closed
<1> QED
  BY <1>1, CurrentInvariant, PTL

-----------------------------------------------------------------------------
(* Failures.                                                               *)

\* A step leaves the counters of u and the logins to it alone, but for one that gets on or ends.
Uncounted(u) ==
  /\ account'[u].failed = account[u].failed /\ account'[u].locked = account[u].locked
  /\ past'[u].wrong = past[u].wrong /\ past'[u].since = past[u].since
  /\ past'[u].blurred = past[u].blurred
  /\ \A p \in Logins : LogsIn(p, u)' =>
       LogsIn(p, u) /\ (login'[p].step = "started" => login'[p] = login[p])

LEMMA CountedStays ==
  ASSUME NEW u \in Users, Counted(u), Uncounted(u)
  PROVE  Counted(u)'
BY DEF Counted, Uncounted, LogsIn

LEMMA EarnedStays ==
  ASSUME NEW u \in Users, Earned(u), Uncounted(u)
  PROVE  Earned(u)'
BY DEF Earned, Enough, Uncounted, LogsIn

LEMMA BeginLoginCounts ==
  ASSUME SecurityTypeOK, NEW u \in Users, Counted(u), Earned(u), NEW p \in Logins,
         NEW v \in Users, BeginLogin(p, v)
  PROVE  Counted(u)' /\ Earned(u)'
<1>1. /\ account' = account
      /\ login' = [login EXCEPT ![p] =
           [step |-> "started", user |-> v, failed |-> account[v].failed,
            locked |-> account[v].locked, row |-> account[v].row]]
      /\ login[p].step = "idle"
  BY DEF BeginLogin, Idle
<1>2. past[u] \in Past /\ Overlaps(p, u) \in BOOLEAN
  BY PastTypes DEF SecurityTypeOK
<1>3. CASE u # v
  <2>1. past'[u] = past[u]
    BY <1>3 DEF BeginLogin, SecurityTypeOK
  <2>2. \A q \in Logins : LogsIn(q, u)' => login'[q] = login[q] /\ LogsIn(q, u)
    BY <1>1, <1>3 DEF LogsIn, SecurityTypeOK
  <2> QED
    BY <1>1, <2>1, <2>2, CountedStays, EarnedStays DEF Uncounted
<1>4. CASE u = v
  <2>1. past'[u] = IF Overlaps(p, u) THEN [past[u] EXCEPT !.since = 0, !.blurred = TRUE]
                   ELSE past[u]
    BY <1>4 DEF BeginLogin, SecurityTypeOK
  <2>2. login'[p].failed = account[u].failed /\ login'[p].locked = account[u].locked
    BY <1>1, <1>4 DEF SecurityTypeOK
  <2>3. \A q \in Logins \ {p} : login'[q] = login[q]
    BY <1>1 DEF SecurityTypeOK
  <2>4. past'[u].wrong = past[u].wrong
    BY <1>2, <2>1, PastSteps
  <2>5. Earned(u)'
    BY <1>1, <2>2, <2>3, <2>4 DEF Earned, Enough, LogsIn
  <2>6. CASE u \in Guessed
    <3>1. CASE Overlaps(p, u)
      <4>1. past'[u].blurred
        BY <1>2, <2>1, <3>1, PastSteps
      <4> QED
        BY <2>5, <2>6, <4>1 DEF Counted
    <3>2. CASE ~Overlaps(p, u)
      <4>1. past'[u] = past[u]
        BY <2>1, <3>2
      <4>2. \A q \in Logins : LogsIn(q, u)' => q = p
        BY <2>3, <2>6, <3>2 DEF Overlaps, LogsIn
      <4> QED
        BY <1>1, <2>2, <2>5, <2>6, <4>1, <4>2 DEF Counted, LogsIn
    <3> QED
      BY <3>1, <3>2
  <2>7. CASE u \notin Guessed
    <3>1. past'[u] = past[u]
      BY <2>1, <2>7 DEF Overlaps
    <3> QED
      BY <1>1, <2>5, <2>7, <3>1 DEF Counted
  <2> QED
    BY <2>5, <2>6, <2>7
<1> QED
  BY <1>3, <1>4

LEMMA RejectCounts ==
  ASSUME SecurityTypeOK, NEW u \in Users, Counted(u), Earned(u), NEW p \in Logins, Reject(p)
  PROVE  Counted(u)' /\ Earned(u)'
<1>1. PICK v \in Users : v = login[p].user /\ v \in Guessed
  BY LoginTypes DEF Reject
<1>2. /\ login[p].step = "started" /\ LogsIn(p, v)
      /\ login' = [login EXCEPT ![p] = Idle]
      /\ login[p].row \in BOOLEAN /\ login[p].failed \in Nat
  BY <1>1, LoginTypes DEF Reject, LogsIn
<1>3. \A q \in Logins : LogsIn(q, u)' => q # p /\ login'[q] = login[q] /\ LogsIn(q, u)
  BY <1>2 DEF LogsIn, SecurityTypeOK, Idle
<1>4. CASE u # v
  <2>1. account'[u] = account[u] /\ past'[u] = past[u]
    BY <1>1, <1>4 DEF Reject, SecurityTypeOK
  <2> QED
    BY <1>3, <2>1, CountedStays, EarnedStays DEF Uncounted
<1>5. CASE u = v
  <2>1. past[u] \in Past /\ past'[u] = Counts(past[u], login[p].row)
    BY <1>1, <1>5 DEF Reject, SecurityTypeOK
  <2>2. past'[u].wrong = IF past[u].wrong < MaxFailures THEN past[u].wrong + 1 ELSE past[u].wrong
    BY <1>2, <2>1, PastSteps
  <2>3. ~past'[u].blurred =>
          login[p].row /\ ~past[u].blurred /\ past'[u].since = past[u].since + 1
    BY <1>2, <2>1, PastSteps
  <2>4. /\ past[u].wrong \in Nat /\ past[u].since \in Nat /\ MaxFailures \in Nat
        /\ account[u].failed \in Nat
    BY <2>1, FailuresAssumption DEF Past, SecurityTypeOK, Account
  <2>5. Enough(login[p].failed, login[p].locked, past[u].wrong)
    BY <1>2, <1>5 DEF Earned
  <2>6. ASSUME login[p].row
        PROVE  /\ account'[u].failed = login[p].failed + 1
               /\ account'[u].locked =
                    IF login[p].failed + 1 >= MaxFailures THEN "future" ELSE login[p].locked
    <3>1. account'[u] = Failed(account[u], p)
      BY <1>1, <1>5, <2>6 DEF Reject, SecurityTypeOK
    <3> QED
      BY <1>1, <1>2, <1>5, <3>1, RejectedRow
  <2>7. ASSUME ~login[p].row PROVE account'[u] = account[u]
    BY <2>7 DEF Reject
  <2>8. \A q \in Logins : LogsIn(q, u) /\ login[q].step = "started" => login[q].failed \in Nat
    BY LoginTypes
  <2>9. Enough(account'[u].failed, account'[u].locked, past'[u].wrong)
    <3>1. CASE login[p].row
      BY <1>2, <2>2, <2>4, <2>5, <2>6, <3>1 DEF Enough
    <3>2. CASE ~login[p].row
      BY <2>2, <2>4, <2>7, <3>2 DEF Earned, Enough
    <3> QED
      BY <1>2, <3>1, <3>2
  <2>10. Earned(u)'
    BY <1>3, <2>2, <2>4, <2>8, <2>9 DEF Earned, Enough, LogsIn
  <2>11. ASSUME ~past'[u].blurred
         PROVE  /\ account[u].failed = past[u].since
                /\ (account[u].locked = "never") = (past[u].since < MaxFailures)
                /\ \A q \in Logins : ~LogsIn(q, u)'
                /\ login[p].failed = account[u].failed /\ login[p].locked = account[u].locked
    BY <1>1, <1>2, <1>3, <1>5, <2>3, <2>11 DEF Counted
  <2>12. ASSUME ~past'[u].blurred
         PROVE  /\ account'[u].failed = past'[u].since
                /\ (account'[u].locked = "never") = (past'[u].since < MaxFailures)
    BY <2>3, <2>4, <2>6, <2>11, <2>12
  <2> QED
    BY <1>1, <1>5, <2>10, <2>11, <2>12 DEF Counted
<1> QED
  BY <1>4, <1>5

LEMMA ResetCounts ==
  ASSUME SecurityTypeOK, NEW u \in Users, Counted(u), Earned(u), NEW p \in Logins,
         ResetCounters(p)
  PROVE  Counted(u)' /\ Earned(u)'
<1>1. PICK v \in Users : v = login[p].user
  BY LoginTypes DEF ResetCounters
<1>2. /\ login[p].step = "checked" /\ LogsIn(p, v)
      /\ login'[p].step = "reset" /\ \A q \in Logins \ {p} : login'[q] = login[q]
      /\ account' = [account EXCEPT ![v] = Reset(account[v])]
      /\ past' = [past EXCEPT ![v] =
                    [past[v] EXCEPT !.since = 0, !.blurred = Overlaps(p, v)]]
  BY <1>1 DEF ResetCounters, LogsIn, SecurityTypeOK
<1>3. \A q \in Logins : LogsIn(q, u)' => q # p /\ login'[q] = login[q] /\ LogsIn(q, u)
  BY <1>2 DEF LogsIn
<1>4. CASE u # v
  BY <1>2, <1>3, <1>4, CountedStays, EarnedStays DEF Uncounted, SecurityTypeOK
<1>5. CASE u = v
  <2>1. account'[u] = Reset(account[u])
    BY <1>2, <1>5 DEF SecurityTypeOK
  <2>2. account'[u].failed = 0 /\ account'[u].locked = "never"
    BY <2>1 DEF Reset, SecurityTypeOK, Account
  <2>3. past[u] \in Past /\ Overlaps(p, u) \in BOOLEAN
    BY PastTypes DEF SecurityTypeOK
  <2>4. past'[u] = [past[u] EXCEPT !.since = 0, !.blurred = Overlaps(p, u)]
    BY <1>2, <1>5 DEF SecurityTypeOK
  <2>5. /\ past'[u].since = 0 /\ past'[u].wrong = past[u].wrong
        /\ past'[u].blurred = Overlaps(p, u)
    BY <2>3, <2>4, PastSteps
  <2>6. ASSUME u \in Guessed, ~past'[u].blurred PROVE \A q \in Logins : ~LogsIn(q, u)'
    BY <1>3, <2>5, <2>6 DEF Overlaps
  <2>7. Counted(u)'
    BY <2>2, <2>5, <2>6, FailuresAssumption DEF Counted
  <2>8. past[u].wrong \in Nat
    BY <2>3 DEF Past
  <2>9. Earned(u)'
    BY <1>3, <2>2, <2>5, <2>8 DEF Earned, Enough, LogsIn
  <2> QED
    BY <2>7, <2>9
<1> QED
  BY <1>4, <1>5

LEMMA UnlockCounts ==
  ASSUME SecurityTypeOK, NEW u \in Users, Counted(u), Earned(u), NEW v \in Users, Unlock(v)
  PROVE  Counted(u)' /\ Earned(u)'
<1>1. /\ account[v].locked = "future" /\ account' = [account EXCEPT ![v].locked = "past"]
      /\ login' = login /\ past' = past
  BY DEF Unlock
<1>2. CASE u # v
  BY <1>1, <1>2, CountedStays, EarnedStays DEF Uncounted, SecurityTypeOK, LogsIn
<1>3. CASE u = v
  <2>1. account'[u].failed = account[u].failed /\ account'[u].locked = "past"
    BY <1>1, <1>3 DEF SecurityTypeOK, Account
  <2>2. \A p \in Logins : LogsIn(p, u) /\ login[p].step = "started" => login[p].locked # "future"
    BY LoginTypes
  <2>3. Counted(u)'
    BY <1>1, <1>3, <2>1, <2>2 DEF Counted, LogsIn
  <2>4. Earned(u)'
    BY <1>1, <1>3, <2>1 DEF Earned, Enough, LogsIn
  <2> QED
    BY <2>3, <2>4
<1> QED
  BY <1>2, <1>3

\* No other step counts anything.
LEMMA OthersCountNothing ==
  ASSUME SecurityTypeOK, NEW u \in Users,
         \/ \E p \in Logins : Accept(p) \/ \E s \in Sessions : Establish(p, s)
         \/ \E r \in Requests, s \in Sessions : LetIn(r, s)
         \/ \E s \in Sessions : Refuse(s)
         \/ \E r \in Requests : Finish(r) \/ Logout(r)
         \/ \E r \in Requests, v \in Changed : Administer(r, v)
         \/ UNCHANGED securityVars
  PROVE  Uncounted(u)
<1>1. CASE \E p \in Logins : Accept(p)
  BY <1>1 DEF Accept, Uncounted, LogsIn, SecurityTypeOK
<1>2. CASE \E p \in Logins, s \in Sessions : Establish(p, s)
  BY <1>2 DEF Establish, Uncounted, LogsIn, SecurityTypeOK, Idle
<1>3. CASE \E r \in Requests, s \in Sessions : LetIn(r, s)
  <2> PICK r \in Requests, s \in Sessions : LetIn(r, s)
    BY <1>3
  <2>1. \A a \in Account : LET b == [a EXCEPT !.row = TRUE] IN
          b.failed = a.failed /\ b.locked = a.locked
    BY DEF Account
  <2>2. account'[u].failed = account[u].failed /\ account'[u].locked = account[u].locked
    BY <2>1, SessionTypes DEF LetIn, SecurityTypeOK
  <2> QED
    BY <2>2 DEF LetIn, Uncounted, LogsIn
<1>4. CASE \/ \E s \in Sessions : Refuse(s)
           \/ \E r \in Requests : Finish(r) \/ Logout(r)
           \/ UNCHANGED securityVars
  BY <1>4 DEF Refuse, Finish, Logout, securityVars, Uncounted, LogsIn
<1>5. ASSUME NEW r \in Requests, NEW v \in Changed, Administer(r, v) PROVE Uncounted(u)
  <2>1. v \in Users
    BY UsersAssumption
  <2>2. CASE View(r, v)
    BY <2>1, <2>2 DEF View, Uncounted, LogsIn, SecurityTypeOK, Account
  <2>3. ASSUME NEW row \in Account, NEW ends \in BOOLEAN,
               Changes(account[v], row), Change(r, v, row, ends)
        PROVE  Uncounted(u)
    <3>1. account' = [account EXCEPT ![v] = row] /\ login' = login
      BY <2>3 DEF Change
    <3>2. /\ past'[u].wrong = past[u].wrong /\ past'[u].since = past[u].since
          /\ past'[u].blurred = past[u].blurred
      BY <2>3 DEF Change, SecurityTypeOK, Past
    <3> QED
      BY <2>1, <2>3, <3>1, <3>2 DEF Changes, Uncounted, LogsIn, SecurityTypeOK
  <2> QED
    BY <1>5, <2>2, <2>3, AdministerSteps
<1> QED
  BY <1>1, <1>2, <1>3, <1>4, <1>5

LEMMA CountedNext ==
  ASSUME SecurityTypeOK, [SecurityNext]_securityVars, NEW u \in Users, Counted(u), Earned(u)
  PROVE  Counted(u)' /\ Earned(u)'
BY BeginLoginCounts, RejectCounts, ResetCounts, UnlockCounts, OthersCountNothing, CountedStays,
   EarnedStays
DEF SecurityNext

\* Nobody is locked out by fewer than MaxFailures wrong passwords; and of an account with its
\* row, wrong passwords are counted and lock it from the last of MaxFailures on, as long as no
\* two logins to it overlap: login_view's counter on UserSecurity.
THEOREM SecurityCountsFailures == SecuritySpec => []FailuresCount
<1> DEFINE Inv == SecurityTypeOK /\ \A u \in Users : Counted(u) /\ Earned(u)
<1>1. SecurityInit => Inv
  <2> SUFFICES ASSUME SecurityInit PROVE Inv
    OBVIOUS
  <2>1. \A u \in Users : Counted(u)
    BY FailuresAssumption DEF SecurityInit, Counted, LogsIn, Idle
  <2>2. \A u \in Users : Earned(u)
    BY DEF SecurityInit, Earned, Enough, LogsIn, Idle
  <2> QED
    BY <2>1, <2>2, SecurityInitType
<1>2. Inv /\ [SecurityNext]_securityVars => Inv'
  BY SecurityNextType, CountedNext
<1>3. Inv => FailuresCount
  <2> SUFFICES ASSUME Inv, NEW u \in Users
        PROVE  /\ account[u].locked # "never" => past[u].wrong >= MaxFailures
               /\ ~past[u].blurred =>
                    /\ account[u].failed = past[u].since
                    /\ (account[u].locked = "never") = (past[u].since < MaxFailures)
    BY DEF FailuresCount
  <2> QED
    BY FailuresAssumption DEF Counted, Earned, Enough
<1> QED
  BY <1>1, <1>2, <1>3, PTL DEF SecuritySpec

=============================================================================
