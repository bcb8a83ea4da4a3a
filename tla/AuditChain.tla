------------------------------ MODULE AuditChain ------------------------------
(***************************************************************************)
(* The audit chain: record_audit and AuditWriteMixin of plm/views.py, and  *)
(* AuditEvent.save of plm/models.py, for any writers in transactions of    *)
(* PostgreSQL (READ COMMITTED).                                            *)
(*                                                                         *)
(* An entry names the newest one its writer saw.  record_audit locks that  *)
(* entry, and who waits for the lock still gets the entry that was newest  *)
(* before; AuditEvent.objects.create locks nothing.  "Newest" is by        *)
(* created_at, the clock of the worker that wrote the entry, and then by a *)
(* random id: a stamp stands for the two, and a new entry may have any     *)
(* stamp that is free, one older than what it follows included.            *)
(*                                                                         *)
(* A transaction locks rows of other tables too, any number in any order:  *)
(* an update, a workflow step, a gate or an import before it appends, a    *)
(* deletion also after.  An entry is never updated or deleted: a trigger   *)
(* forbids it.                                                             *)
(***************************************************************************)
EXTENDS Naturals

CONSTANTS
  Writers,  \* requests and workers that append
  Rows,     \* rows of other tables
  Nobody,   \* the owner of a free lock
  NoRow,    \* no row is waited for
  MaxStamps \* bound: entries at any time

ASSUME NobodyAssumption == Nobody \notin Writers /\ NoRow \notin Rows
ASSUME BoundAssumption == MaxStamps \in Nat

VARIABLES
  entry,   \* entry[n]: the entry with the stamp n, or Missing
  tx,      \* tx[w]: w's transaction, or NoTransaction
  rowLock, \* rowLock[r]: who has written or locked row r
  lock     \* lock[n]: who has locked entry n

vars == <<entry, tx, rowLock, lock>>

Kinds == {"update", "destroy", "event"}
Steps == {"before", "row", "wait", "insert", "after", "laterRow"}
Stamps == 1 .. MaxStamps
None == 0 \* prev_hash of a first entry

\* "by": whose transaction it is part of, Nobody's once it is committed.
Entry == [prev : Stamps \cup {None}, by : Writers \cup {Nobody}]
Transaction == [kind : Kinds, step : Steps, row : Rows \cup {NoRow}, prev : Stamps \cup {None}]
Missing == [state |-> "missing"]
NoTransaction == [step |-> "idle"]

TypeOK ==
  /\ entry \in [Stamps -> Entry \cup {Missing}]
  /\ tx \in [Writers -> Transaction \cup {NoTransaction}]
  /\ rowLock \in [Rows -> Writers \cup {Nobody}]
  /\ lock \in [Stamps -> Writers \cup {Nobody}]

Init ==
  /\ entry = [n \in Stamps |-> Missing]
  /\ tx = [w \in Writers |-> NoTransaction]
  /\ rowLock = [r \in Rows |-> Nobody]
  /\ lock = [n \in Stamps |-> Nobody]

-----------------------------------------------------------------------------

Begin(w, kind) ==
  /\ tx[w] = NoTransaction
  /\ tx' = [tx EXCEPT ![w] = [kind |-> kind, step |-> "before", row |-> NoRow, prev |-> None]]
  /\ UNCHANGED <<entry, rowLock, lock>>

\* Mutant: an update, too, is audited before all its rows are written.
Deletes_Any(kind) == TRUE

\* perform_destroy appends its entry and then deletes; so does the request that deletes
\* a row of a BOM, whose entry is an event.
Deletes(kind) == kind \in {"destroy", "event"}

\* A statement writes, deletes or locks a row, and waits for it first.
WantRow(w, r) ==
  /\ rowLock[r] # w
  /\ \/ /\ tx[w].step = "before"
        /\ tx' = [tx EXCEPT ![w].step = "row", ![w].row = r]
     \/ /\ tx[w].step = "after" /\ Deletes(tx[w].kind)
        /\ tx' = [tx EXCEPT ![w].step = "laterRow", ![w].row = r]
  /\ UNCHANGED <<entry, rowLock, lock>>

TakeRow(w) ==
  /\ tx[w].step \in {"row", "laterRow"}
  /\ rowLock[tx[w].row] = Nobody
  /\ rowLock' = [rowLock EXCEPT ![tx[w].row] = w]
  /\ tx' = [tx EXCEPT ![w].step = IF @ = "row" THEN "before" ELSE "after", ![w].row = NoRow]
  /\ UNCHANGED <<entry, lock>>

\* Entries that were committed; a transaction looks before it inserts its own.
Visible == {n \in Stamps : entry[n] # Missing /\ entry[n].by = Nobody}

\* order_by('-created_at', '-id'): p is the newest in S, or there is none.
IsNewest(p, S) == IF S = {} THEN p = None ELSE p \in S /\ \A n \in S : n <= p

\* AuditEvent.objects.create locks nothing.
Locks(kind) == kind # "event"

\* The statement sees what is committed now, and chooses the entry it will lock, if any.
Look(w, p) ==
  /\ tx[w].step = "before"
  /\ IsNewest(p, Visible)
  /\ tx' = [tx EXCEPT ![w].prev = p,
                      ![w].step = IF p # None /\ Locks(tx[w].kind) THEN "wait" ELSE "insert"]
  /\ UNCHANGED <<entry, rowLock, lock>>

\* Mutant: the query for the newest entry has no select_for_update.
EntryFree_Always(n) == TRUE

EntryFree(n) == lock[n] = Nobody

LockEntry(w) ==
  /\ tx[w].step = "wait"
  /\ EntryFree(tx[w].prev)
  /\ lock' = [lock EXCEPT ![tx[w].prev] = w]
  /\ tx' = [tx EXCEPT ![w].step = "insert"]
  /\ UNCHANGED <<entry, rowLock>>

Insert(w, n) ==
  /\ tx[w].step = "insert"
  /\ entry[n] = Missing
  /\ entry' = [entry EXCEPT ![n] = [prev |-> tx[w].prev, by |-> w]]
  /\ tx' = [tx EXCEPT ![w].step = "after"]
  /\ UNCHANGED <<rowLock, lock>>

Mine(w, n) == entry[n] # Missing /\ entry[n].by = w

\* The transaction ends and lets go of its locks.
Release(w) ==
  /\ tx' = [tx EXCEPT ![w] = NoTransaction]
  /\ rowLock' = [r \in Rows |-> IF rowLock[r] = w THEN Nobody ELSE rowLock[r]]
  /\ lock' = [n \in Stamps |-> IF lock[n] = w THEN Nobody ELSE lock[n]]

Commit(w) ==
  /\ tx[w].step = "after"
  /\ entry' = [n \in Stamps |-> IF Mine(w, n) THEN [entry[n] EXCEPT !.by = Nobody] ELSE entry[n]]
  /\ Release(w)

\* An error, a lost connection, or a deadlock that PostgreSQL ends.
Rollback(w) ==
  /\ tx[w] # NoTransaction
  /\ entry' = [n \in Stamps |-> IF Mine(w, n) THEN Missing ELSE entry[n]]
  /\ Release(w)

Next ==
  \/ \E w \in Writers, kind \in Kinds : Begin(w, kind)
  \/ \E w \in Writers, r \in Rows : WantRow(w, r)
  \/ \E w \in Writers : TakeRow(w)
  \/ \E w \in Writers, p \in Stamps \cup {None} : Look(w, p)
  \/ \E w \in Writers : LockEntry(w)
  \/ \E w \in Writers, n \in Stamps : Insert(w, n)
  \/ \E w \in Writers : Commit(w)
  \/ \E w \in Writers : Rollback(w)

Spec == Init /\ [][Next]_vars

-----------------------------------------------------------------------------
(* Correctness.                                                            *)

\* What is left of "select_for_update serializes writers" (record_audit): forks are
\* possible, but of all the writers that lock one and the same entry and append to it, no
\* two are between their insertion and their commit at the same time.
Pending(n) == entry[n] # Missing /\ entry[n].by # Nobody /\ Locks(tx[entry[n].by].kind)

FollowersTakeTurns ==
  \A m, n \in Stamps :
    m # n /\ Pending(m) /\ Pending(n) /\ entry[m].prev = entry[n].prev => entry[m].prev = None

\* Whom w waits for.
WaitsFor(w) ==
  {v \in Writers \ {w} : \/ tx[w].step \in {"row", "laterRow"} /\ rowLock[tx[w].row] = v
                         \/ tx[w].step = "wait" /\ lock[tx[w].prev] = v}

\* Appending adds no deadlock, but for one.  Among writers of whom each waits for another,
\* either none has come to an entry that it is to lock, and it is the rows that they lock in
\* different orders; or one is a destroy that has appended, and waits for a row to delete.
DeadlocksNeedDestroy ==
  \A S \in SUBSET Writers :
    S # {} /\ (\A w \in S : WaitsFor(w) \cap S # {}) =>
      \/ \A w \in S : tx[w].step = "row" \/ ~Locks(tx[w].kind)
      \/ \E w \in S : tx[w].kind = "destroy" /\ tx[w].step = "laterRow"
=============================================================================
