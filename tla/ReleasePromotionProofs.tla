------------------------ MODULE ReleasePromotionProofs ------------------------
(***************************************************************************)
(* Proofs about ReleasePromotion for any number of attachments, uploads,   *)
(* objects and faults: what a reader can see is what ReleaseBarrier        *)
(* promises.                                                               *)
(***************************************************************************)
EXTENDS ReleasePromotion, TLAPS

(***************************************************************************)
(* A transaction works on a revision that is release_pending and not yet   *)
(* out.  It keeps every placement it found, adds only placements of        *)
(* objects that are stored, and ends in one of two ways.                   *)
(***************************************************************************)
Pending(d) ==
  /\ d.state = "release_pending"
  /\ d.activation # "active"
  /\ d.publication # "published"
  /\ d.visible = {}

Working(t) ==
  /\ t.db.state = "released"
  /\ t.db.activation # "active"
  /\ t.db.publication # "published"
  /\ t.db.visible = {}

Succeeded(t) ==
  /\ t.db.state = "released"
  /\ t.db.activation = "active"
  /\ t.db.publication = "published"
  /\ t.db.visible = t.versions
  /\ t.placements = t.versions

GaveUp(t) ==
  /\ t.db.state = "release_failed"
  /\ t.db.activation = "failed"
  /\ t.db.publication = "failed"
  /\ t.db.visible = {}

\* Every placement among these rows names a stored object that holds the attachment's file.
Kept(object, b) == \A v \in Versions : object[v] # NoObject => b[v][object[v]] = current[v[1]]

TxnInv ==
  txn # NoTxn =>
    /\ Pending(db)
    /\ txn.step \in {"gated", "copying"} => Working(txn)
    /\ txn.step = "ended" => Succeeded(txn) \/ GaveUp(txn)
    /\ Kept(txn.db.object, bucket)
    /\ \A v \in txn.placements : txn.db.object[v] # NoObject
    /\ txn.placements \subseteq txn.versions

Inv == TypeOK /\ RecordsAgree /\ PlacementsExist /\ TxnInv

-----------------------------------------------------------------------------
(* Facts about the operators.                                              *)

\* The rows a failed attempt leaves are well typed and show nothing.
LEMMA FailingFacts ==
  ASSUME NEW t \in Txn
  PROVE  /\ Failing(t) \in Txn
         /\ Failing(t).step = "ended"
         /\ t.db.visible = {} => GaveUp(Failing(t))
         /\ Failing(t).db.object = t.db.object
         /\ Failing(t).placements = t.placements
         /\ Failing(t).versions = t.versions
  BY DEF Failing, Txn, Rows, RevisionStates, GaveUp

\* A placement that is accepted records the object and leaves the rest alone.
LEMMA PlacingFacts ==
  ASSUME NEW t \in Txn, NEW v \in Versions, NEW o \in Objects,
         t.db.object[v] = NoObject
  PROVE  /\ Placing(t, v, o) \in Txn
         /\ Placing(t, v, o).step = "copying"
         /\ Placing(t, v, o).placements = t.placements \cup {v}
         /\ Placing(t, v, o).versions = t.versions
         /\ Placing(t, v, o).db.object = [t.db.object EXCEPT ![v] = o]
         /\ Placing(t, v, o).db.state = t.db.state
         /\ Placing(t, v, o).db.activation = t.db.activation
         /\ Placing(t, v, o).db.publication = t.db.publication
         /\ Placing(t, v, o).db.visible = t.db.visible
  <1> DEFINE d == [t.db EXCEPT !.object = [@ EXCEPT ![v] = o]]
  <1>1. t.db \in Rows
    BY DEF Txn
  <1>2. /\ d \in Rows
        /\ d.object = [t.db.object EXCEPT ![v] = o]
        /\ d.state = t.db.state /\ d.activation = t.db.activation
        /\ d.publication = t.db.publication /\ d.visible = t.db.visible
    BY <1>1 DEF Rows
  <1>3. Placing(t, v, o) = [step |-> "copying", versions |-> t.versions,
                            placements |-> t.placements \cup {v}, db |-> d]
    BY DEF Placing
  <1> HIDE DEF d
  <1>4. Placing(t, v, o) \in Txn
    BY <1>2, <1>3 DEF Txn
  <1>5. QED
    BY <1>2, <1>3, <1>4

\* Opening a finished attempt shows exactly the versions it was about.
LEMMA OpenedFacts ==
  ASSUME NEW t \in Txn, t.db.visible = {}, t.placements = t.versions
  PROVE  /\ Opened(t) \in Txn
         /\ Opened(t).step = "ended"
         /\ Succeeded(Opened(t))
         /\ Opened(t).db.object = t.db.object
         /\ Opened(t).placements = t.placements
         /\ Opened(t).versions = t.versions
  BY DEF Opened, Txn, Rows, RevisionStates, Succeeded

\* Storing a new object keeps every object that rows of the database name.
LEMMA StoredFacts ==
  ASSUME TypeOK, NEW v \in Versions, NEW o \in Objects, Stored(v, o)
  PROVE  /\ bucket' \in [Versions -> [Objects -> Uploads \cup {0}]]
         /\ bucket'[v][o] = current[v[1]]
         /\ \A w \in Versions, p \in Objects :
              <<w, p>> # <<v, o>> => bucket'[w][p] = bucket[w][p]
  <1>1. v[1] \in Attachments
    BY DEF Versions
  <1>2. current[v[1]] \in Uploads /\ current[v[1]] # 0
    BY <1>1 DEF TypeOK, Uploads
  <1>3. bucket[v] \in [Objects -> Uploads \cup {0}]
    BY DEF TypeOK
  <1>4. bucket' = [bucket EXCEPT ![v] = [bucket[v] EXCEPT ![o] = current[v[1]]]]
    BY DEF Stored
  <1> DEFINE shelf == [bucket[v] EXCEPT ![o] = current[v[1]]]
  <1>5. /\ shelf \in [Objects -> Uploads \cup {0}]
        /\ shelf[o] = current[v[1]]
        /\ \A p \in Objects : p # o => shelf[p] = bucket[v][p]
    BY <1>2, <1>3
  <1>6. bucket' = [bucket EXCEPT ![v] = shelf]
    BY <1>4
  <1> HIDE DEF shelf
  <1>7. bucket'[v] = shelf /\ \A w \in Versions : w # v => bucket'[w] = bucket[w]
    BY <1>6 DEF TypeOK
  <1>8. bucket' \in [Versions -> [Objects -> Uploads \cup {0}]]
    BY <1>5, <1>6 DEF TypeOK
  <1>9. QED
    BY <1>5, <1>7, <1>8

-----------------------------------------------------------------------------
(* The inductive invariant, one lemma for each kind of step.               *)

LEMMA InvInit == Init => Inv
  <1> SUFFICES ASSUME Init PROVE Inv
    OBVIOUS
  <1>1. TypeOK
    BY FaultsAssumption DEF Init, TypeOK, Rows, RevisionStates, Versions
  <1>2. RecordsAgree /\ PlacementsExist
    BY DEF Init, RecordsAgree, PlacementsExist
  <1>3. TxnInv
    BY DEF Init, TxnInv
  <1>4. QED
    BY <1>1, <1>2, <1>3 DEF Inv

\* A stored object keeps all placements intact, since it takes no identity in use.
LEMMA StoredKeeps ==
  ASSUME TypeOK, NEW v \in Versions, NEW o \in Objects, Stored(v, o),
         NEW object \in [Versions -> Objects \cup {NoObject}],
         Kept(object, bucket), o # object[v]
  PROVE  Kept(object, bucket')
  <1> SUFFICES ASSUME NEW w \in Versions, object[w] # NoObject
               PROVE  bucket'[w][object[w]] = current[w[1]]
    BY DEF Kept
  <1>1. object[w] \in Objects
    OBVIOUS
  <1>2. <<w, object[w]>> # <<v, o>>
    OBVIOUS
  <1>3. bucket'[w][object[w]] = bucket[w][object[w]]
    BY <1>1, <1>2, StoredFacts
  <1>4. QED
    BY <1>3 DEF Kept

\* Requests before and after a release, and scans.
LEMMA OutsideSteps ==
  ASSUME Inv,
         \/ \E target \in RevisionStates : Transition(target)
         \/ \E a \in Attachments, ok \in BOOLEAN : Judge(a, ok)
  PROVE  Inv'
  <1>1. ASSUME NEW target \in RevisionStates, Transition(target)
        PROVE  Inv'
    <2>1. txn = NoTxn /\ txn' = NoTxn
      BY <1>1 DEF Transition
    <2>2. /\ db' \in Rows
          /\ db'.state = target
          /\ db'.activation = db.activation /\ db'.publication = db.publication
          /\ db'.object = db.object /\ db'.visible = db.visible
      BY <1>1 DEF Transition, Inv, TypeOK, Rows
    <2>3. target \in {"released", "obsolete"} <=> db.state \in {"released", "obsolete"}
      <3>1. target \in AllowedTargets[db.state] /\ db.state \in RevisionStates
        BY <1>1 DEF Transition, Inv, TypeOK, Rows
      <3>2. QED
        BY <3>1 DEF AllowedTargets, RevisionStates
    <2>4. TypeOK'
      BY <1>1, <2>1, <2>2 DEF Transition, Inv, TypeOK
    <2>5. RecordsAgree' /\ PlacementsExist'
      BY <1>1, <2>2, <2>3 DEF Transition, Inv, RecordsAgree, PlacementsExist
    <2>6. TxnInv'
      BY <2>1 DEF TxnInv
    <2>7. QED
      BY <2>4, <2>5, <2>6 DEF Inv
  <1>2. ASSUME NEW a \in Attachments, NEW ok \in BOOLEAN, Judge(a, ok)
        PROVE  Inv'
    <2>1. Latest(a) \in Versions
      BY DEF Latest, Versions, Inv, TypeOK
    <2>2. TypeOK'
      BY <1>2, <2>1 DEF Judge, Inv, TypeOK
    <2>3. RecordsAgree' /\ PlacementsExist' /\ TxnInv'
      BY <1>2 DEF Judge, Inv, RecordsAgree, PlacementsExist, TxnInv, Kept
    <2>4. QED
      BY <2>2, <2>3 DEF Inv
  <1>3. QED
    BY <1>1, <1>2

\* A step that ends the attempt in failure, having placed nothing more.
LEMMA FailingKeeps ==
  ASSUME Inv, TypeOK', txn.step = "copying", txn' = Failing(txn),
         UNCHANGED <<db, current>>, Kept(db.object, bucket'), Kept(txn.db.object, bucket')
  PROVE  Inv'
  <1>1. txn \in Txn
    BY DEF Inv, TypeOK, NoTxn
  <1>2. Pending(db) /\ Working(txn)
    BY <1>1 DEF Inv, TxnInv, Txn, NoTxn
  <1>3. RecordsAgree'
    BY DEF Inv, RecordsAgree
  <1>4. PlacementsExist'
    BY DEF Inv, PlacementsExist, Kept
  <1>5. /\ txn'.step = "ended" /\ GaveUp(txn')
        /\ txn'.db.object = txn.db.object
        /\ txn'.placements = txn.placements /\ txn'.versions = txn.versions
    BY <1>1, <1>2, FailingFacts DEF Working
  <1>6. /\ \A v \in txn.placements : txn.db.object[v] # NoObject
        /\ txn.placements \subseteq txn.versions
    BY <1>1 DEF Inv, TxnInv, Txn, NoTxn
  <1>7. TxnInv'
    BY <1>2, <1>5, <1>6 DEF TxnInv, Pending, GaveUp, Kept
  <1>8. QED
    BY <1>3, <1>4, <1>7 DEF Inv

\* The transaction from its first step to its commit or loss.
LEMMA ReleaseSteps ==
  ASSUME Inv,
         \/ Begin \/ Select \/ Finish \/ Commit \/ Crash
         \/ \E v \in Versions, o \in Objects : Copy(v, o)
         \/ \E v \in Versions : CopyRefused(v)
         \/ \E v \in Versions, o \in Objects : CopyUnanswered(v, o)
  PROVE  Inv'
  <1> USE DEF Inv
  <1>1. ASSUME Begin PROVE Inv'
    <2>1. txn' \in Txn /\ txn'.db.state = "released"
      BY <1>1 DEF Begin, TypeOK, Rows, Txn, RevisionStates, OrPending
    <2>2. TypeOK'
      BY <1>1, <2>1 DEF Begin, TypeOK
    <2>3. RecordsAgree' /\ PlacementsExist'
      BY <1>1 DEF Begin, RecordsAgree, PlacementsExist
    <2>4. Pending(db)
      BY <1>1 DEF Begin, RecordsAgree, Pending
    <2>5. Working(txn') /\ txn'.step = "gated" /\ txn'.placements = {}
      BY <1>1, <2>4 DEF Begin, Pending, Working, OrPending
    <2>6. Kept(txn'.db.object, bucket')
      BY <1>1 DEF Begin, PlacementsExist, Kept
    <2>7. TxnInv'
      BY <1>1, <2>1, <2>4, <2>5, <2>6 DEF Begin, TxnInv, Pending, Working, Txn, Kept
    <2>8. QED
      BY <2>2, <2>3, <2>7
  <1>2. ASSUME Select PROVE Inv'
    <2>1. txn \in Txn
      BY <1>2 DEF Select, TypeOK, NoTxn
    <2> DEFINE d == [txn.db EXCEPT !.activation = "promoting"]
    <2>2. d \in Rows /\ d.object = txn.db.object
      BY <2>1 DEF Txn, Rows
    <2>3. Working(txn) /\ Pending(db) /\ Kept(txn.db.object, bucket)
      BY <1>2, <2>1 DEF Select, TxnInv, Txn, NoTxn
    <2>4. d.state = "released" /\ d.activation = "promoting"
          /\ d.publication # "published" /\ d.visible = {}
      BY <2>1, <2>3 DEF Txn, Rows, Working
    <2>5. txn' = [step |-> "copying", versions |-> clean, placements |-> {}, db |-> d]
      BY <1>2 DEF Select
    <2> HIDE DEF d
    <2>6. TypeOK'
      BY <1>2, <2>2, <2>5 DEF Select, TypeOK, Txn
    <2>7. RecordsAgree' /\ PlacementsExist'
      BY <1>2 DEF Select, RecordsAgree, PlacementsExist
    <2>8. TxnInv'
      BY <1>2, <2>2, <2>3, <2>4, <2>5 DEF Select, TxnInv, Pending, Working, Kept
    <2>9. QED
      BY <2>6, <2>7, <2>8
  <1>3. ASSUME NEW v \in Versions, NEW o \in Objects, Copy(v, o) PROVE Inv'
    <2>1. txn \in Txn /\ txn.step = "copying" /\ v \in txn.versions
      BY <1>3 DEF Copy, IsNext, TypeOK, NoTxn
    <2>2. /\ Working(txn) /\ Pending(db) /\ Kept(txn.db.object, bucket)
          /\ \A w \in txn.placements : txn.db.object[w] # NoObject
          /\ txn.placements \subseteq txn.versions
      BY <2>1 DEF TxnInv, Txn, NoTxn
    <2>3. Stored(v, o) /\ o # db.object[v] /\ o # txn.db.object[v]
      BY <1>3 DEF Copy, Unreferenced
    <2>4. Kept(db.object, bucket)
      BY DEF PlacementsExist, Kept
    <2>5. /\ db.object \in [Versions -> Objects \cup {NoObject}]
          /\ txn.db.object \in [Versions -> Objects \cup {NoObject}]
      BY <2>1 DEF TypeOK, Rows, Txn
    <2>6. Kept(db.object, bucket') /\ Kept(txn.db.object, bucket')
      BY <2>2, <2>3, <2>4, <2>5, StoredKeeps
    <2>7. bucket' \in [Versions -> [Objects -> Uploads \cup {0}]] /\ bucket'[v][o] = current[v[1]]
      BY <2>3, StoredFacts
    <2>8. CASE txn.db.object[v] = NoObject
      <3>1. /\ Placing(txn, v, o) \in Txn
            /\ Placing(txn, v, o).step = "copying"
            /\ Placing(txn, v, o).placements = txn.placements \cup {v}
            /\ Placing(txn, v, o).versions = txn.versions
            /\ Placing(txn, v, o).db.object = [txn.db.object EXCEPT ![v] = o]
            /\ Working(Placing(txn, v, o))
        BY <2>1, <2>2, <2>8, PlacingFacts DEF Working
      <3>2. txn' = Placing(txn, v, o)
        BY <1>3 DEF Copy
      <3>3. TypeOK'
        BY <1>3, <2>7, <3>1, <3>2 DEF Copy, TypeOK
      <3>4. RecordsAgree' /\ PlacementsExist'
        BY <1>3, <2>6 DEF Copy, RecordsAgree, PlacementsExist, Kept
      <3>5. Kept(txn'.db.object, bucket')
        BY <2>5, <2>6, <2>7, <3>1, <3>2 DEF Kept
      <3>6. \A w \in txn'.placements : txn'.db.object[w] # NoObject
        BY <2>1, <2>2, <2>5, <3>1, <3>2, ObjectsAssumption DEF Txn
      <3>7. TxnInv'
        BY <1>3, <2>1, <2>2, <3>1, <3>2, <3>5, <3>6 DEF Copy, TxnInv, Pending, Working, Kept
      <3>8. QED
        BY <3>3, <3>4, <3>7
    <2>9. CASE txn.db.object[v] # NoObject
      <3>1. txn' = Failing(txn)
        BY <1>3, <2>3, <2>9 DEF Copy, Placing
      <3>2. TypeOK'
        BY <1>3, <2>1, <2>7, <3>1, FailingFacts DEF Copy, TypeOK
      <3>3. UNCHANGED <<db, current>>
        BY <1>3 DEF Copy
      <3>4. QED
        BY <2>1, <2>6, <3>1, <3>2, <3>3, FailingKeeps
    <2>10. QED
      BY <2>8, <2>9
  <1>4. ASSUME NEW v \in Versions, CopyRefused(v) PROVE Inv'
    <2>1. txn \in Txn /\ txn.step = "copying" /\ txn' = Failing(txn)
      BY <1>4 DEF CopyRefused, IsNext, TypeOK, NoTxn
    <2>2. TypeOK'
      BY <1>4, <2>1, FailingFacts, FaultsAssumption DEF CopyRefused, TypeOK
    <2>3. Kept(db.object, bucket') /\ Kept(txn.db.object, bucket') /\ UNCHANGED <<db, current>>
      BY <1>4, <2>1 DEF CopyRefused, PlacementsExist, TxnInv, Kept, NoTxn
    <2>4. QED
      BY <2>1, <2>2, <2>3, FailingKeeps
  <1>5. ASSUME NEW v \in Versions, NEW o \in Objects, CopyUnanswered(v, o) PROVE Inv'
    <2>1. txn \in Txn /\ txn.step = "copying" /\ txn' = Failing(txn)
      BY <1>5 DEF CopyUnanswered, Unanswered, IsNext, TypeOK, NoTxn
    <2>2. Stored(v, o) /\ o # db.object[v] /\ o # txn.db.object[v]
      BY <1>5 DEF CopyUnanswered, Unreferenced
    <2>3. Kept(db.object, bucket) /\ Kept(txn.db.object, bucket)
      BY <2>1 DEF PlacementsExist, TxnInv, Kept, NoTxn
    <2>4. /\ db.object \in [Versions -> Objects \cup {NoObject}]
          /\ txn.db.object \in [Versions -> Objects \cup {NoObject}]
      BY <2>1 DEF TypeOK, Rows, Txn
    <2>5. Kept(db.object, bucket') /\ Kept(txn.db.object, bucket')
      BY <2>2, <2>3, <2>4, StoredKeeps
    <2>6. bucket' \in [Versions -> [Objects -> Uploads \cup {0}]]
      BY <2>2, StoredFacts
    <2>7. TypeOK'
      BY <1>5, <2>1, <2>6, FailingFacts, FaultsAssumption DEF CopyUnanswered, TypeOK
    <2>8. UNCHANGED <<db, current>>
      BY <1>5 DEF CopyUnanswered
    <2>9. QED
      BY <2>1, <2>5, <2>7, <2>8, FailingKeeps
  <1>6. ASSUME Finish PROVE Inv'
    <2>1. txn \in Txn /\ txn.placements = txn.versions /\ txn' = Opened(txn)
      BY <1>6 DEF Finish, AllCopied, TypeOK, NoTxn
    <2>2. /\ Working(txn) /\ Pending(db) /\ Kept(txn.db.object, bucket)
          /\ \A w \in txn.placements : txn.db.object[w] # NoObject
      BY <1>6, <2>1 DEF Finish, TxnInv, Txn, NoTxn
    <2>3. /\ txn' \in Txn /\ txn'.step = "ended" /\ Succeeded(txn')
          /\ txn'.db.object = txn.db.object
          /\ txn'.placements = txn.placements /\ txn'.versions = txn.versions
      BY <2>1, <2>2, OpenedFacts DEF Working
    <2>4. TypeOK'
      BY <1>6, <2>3 DEF Finish, TypeOK
    <2>5. RecordsAgree' /\ PlacementsExist'
      BY <1>6 DEF Finish, RecordsAgree, PlacementsExist
    <2>6. TxnInv'
      BY <1>6, <2>1, <2>2, <2>3 DEF Finish, TxnInv, Pending, Succeeded, Kept
    <2>7. QED
      BY <2>4, <2>5, <2>6
  <1>7. ASSUME Commit PROVE Inv'
    <2>1. txn \in Txn /\ db' = txn.db /\ txn' = NoTxn
      BY <1>7 DEF Commit, TypeOK, NoTxn
    <2>2. /\ Succeeded(txn) \/ GaveUp(txn)
          /\ Kept(txn.db.object, bucket)
          /\ \A w \in txn.placements : txn.db.object[w] # NoObject
      BY <1>7, <2>1 DEF Commit, TxnInv, Txn, NoTxn
    <2>3. TypeOK'
      BY <1>7, <2>1 DEF Commit, TypeOK, Txn
    <2>4. RecordsAgree'
      BY <2>1, <2>2 DEF RecordsAgree, Succeeded, GaveUp
    <2>5. PlacementsExist'
      BY <1>7, <2>1, <2>2 DEF Commit, PlacementsExist, Kept, Succeeded, GaveUp
    <2>6. QED
      BY <2>1, <2>3, <2>4, <2>5 DEF TxnInv
  <1>8. ASSUME Crash PROVE Inv'
    <2>1. TypeOK'
      BY <1>8, FaultsAssumption DEF Crash, TypeOK
    <2>2. RecordsAgree' /\ PlacementsExist' /\ TxnInv'
      BY <1>8 DEF Crash, RecordsAgree, PlacementsExist, TxnInv, Kept
    <2>3. QED
      BY <2>1, <2>2
  <1>9. QED
    BY <1>1, <1>2, <1>3, <1>4, <1>5, <1>6, <1>7, <1>8

LEMMA InvStep == Inv /\ [Next]_vars => Inv'
  <1> SUFFICES ASSUME Inv, [Next]_vars PROVE Inv'
    OBVIOUS
  <1>1. CASE Next
    BY <1>1, OutsideSteps, ReleaseSteps DEF Next
  <1>2. CASE UNCHANGED vars
    BY <1>2 DEF vars, Inv, TypeOK, RecordsAgree, PlacementsExist, TxnInv, Kept
  <1>3. QED
    BY <1>1, <1>2

LEMMA InvAlways == Spec => []Inv
  BY InvInit, InvStep, PTL DEF Spec

-----------------------------------------------------------------------------
(* The release implements the barrier.                                     *)

LEMMA BarrierInit == Init => Barrier!Init
  BY DEF Init, Barrier!Init, Promoting, Phase, Offer, Readable, NoTxn

\* While the rows say the revision is not out, nobody can read anything.
LEMMA NothingReadable ==
  ASSUME db.activation # "active"
  PROVE  Readable = {}
  BY DEF Readable

\* A step that changes neither the rows nor the attempt changes nothing a reader sees.
LEMMA QuietStep ==
  ASSUME UNCHANGED db, Phase' = Phase, Offer' = Offer
  PROVE  UNCHANGED Barrier!vars
  <1>1. Readable' = Readable
    BY DEF Readable
  <1>2. QED
    BY <1>1 DEF Barrier!vars

LEMMA BarrierStep ==
  ASSUME Inv, Inv', [Next]_vars
  PROVE  [Barrier!Next]_(Barrier!vars)
  <1>1. CASE UNCHANGED vars
    BY <1>1 DEF vars, Barrier!vars, Promoting, Phase, Offer, Readable
  <1>2. ASSUME NEW target \in RevisionStates, Transition(target)
        PROVE  [Barrier!Next]_(Barrier!vars)
    <2>1. /\ txn = NoTxn /\ txn' = NoTxn
          /\ db'.state = target /\ target \in AllowedTargets[db.state]
          /\ db'.activation = db.activation /\ db'.publication = db.publication
          /\ db'.object = db.object /\ db'.visible = db.visible
          /\ db.state \in RevisionStates
      BY <1>2 DEF Transition, Inv, TypeOK, Rows
    <2>2. Readable' = Readable
      BY <2>1 DEF Readable
    <2>3. Offer' = {} /\ Offer = {}
      BY <2>1 DEF Promoting, Offer, NoTxn
    <2>4. CASE target = "obsolete"
      <3>1. db.state = "released"
        BY <2>1, <2>4 DEF AllowedTargets, RevisionStates
      <3>2. Phase = "open" /\ Phase' = "retired"
        BY <2>1, <2>4, <3>1 DEF Promoting, Phase, NoTxn
      <3>3. QED
        BY <2>2, <2>3, <3>2 DEF Barrier!Next, Barrier!Retire
    <2>5. CASE target # "obsolete"
      <3>1. db.state \notin {"released", "obsolete"} /\ target # "released"
        BY <2>1, <2>5 DEF AllowedTargets, RevisionStates
      <3>2. Phase = "closed" /\ Phase' = "closed"
        BY <2>1, <2>5, <3>1 DEF Promoting, Phase, NoTxn
      <3>3. QED
        BY <2>2, <2>3, <3>2 DEF Barrier!vars
    <2>6. QED
      BY <2>4, <2>5
  <1>3. ASSUME NEW a \in Attachments, NEW ok \in BOOLEAN, Judge(a, ok)
        PROVE  [Barrier!Next]_(Barrier!vars)
    <2>1. UNCHANGED <<db, txn>>
      BY <1>3 DEF Judge
    <2>2. QED
      BY <2>1, QuietStep DEF Promoting, Phase, Offer
  <1>4. ASSUME Begin PROVE [Barrier!Next]_(Barrier!vars)
    <2>1. Phase' = Phase /\ Offer' = Offer /\ UNCHANGED db
      BY <1>4 DEF Begin, Promoting, Phase, Offer, NoTxn
    <2>2. QED
      BY <2>1, QuietStep
  <1>5. ASSUME Select PROVE [Barrier!Next]_(Barrier!vars)
    <2>1. db.state = "release_pending" /\ txn.step = "gated"
      BY <1>5 DEF Select, Inv, TxnInv, Pending, NoTxn
    <2>2. /\ txn'.step = "copying" /\ txn'.versions = clean
          /\ UNCHANGED db /\ clean \in SUBSET Versions
      BY <1>5 DEF Select, Inv, TypeOK
    <2>3. Phase = "closed" /\ Phase' = "preparing"
      BY <2>1, <2>2 DEF Promoting, Phase
    <2>4. Offer' \in SUBSET Versions
      BY <2>2 DEF Promoting, Offer
    <2>5. Readable' = Readable
      BY <2>2 DEF Readable
    <2>6. QED
      BY <2>3, <2>4, <2>5 DEF Barrier!Next, Barrier!Prepare
  <1>6. ASSUME NEW v \in Versions, NEW o \in Objects,
               Copy(v, o) \/ CopyUnanswered(v, o)
        PROVE  [Barrier!Next]_(Barrier!vars)
    <2>1. UNCHANGED db /\ txn.step = "copying"
      BY <1>6 DEF Copy, CopyUnanswered, IsNext
    <2>2. txn'.step \in {"copying", "ended"} /\ txn'.versions = txn.versions
      BY <1>6 DEF Copy, CopyUnanswered, Unanswered, Placing, Failing
    <2>3. Phase' = Phase /\ Offer' = Offer
      BY <2>1, <2>2 DEF Promoting, Phase, Offer
    <2>4. QED
      BY <2>1, <2>3, QuietStep
  <1>7. ASSUME NEW v \in Versions, CopyRefused(v)
        PROVE  [Barrier!Next]_(Barrier!vars)
    <2>1. UNCHANGED db /\ txn.step = "copying"
      BY <1>7 DEF CopyRefused, IsNext
    <2>2. txn'.step = "ended" /\ txn'.versions = txn.versions
      BY <1>7 DEF CopyRefused, Failing
    <2>3. Phase' = Phase /\ Offer' = Offer
      BY <2>1, <2>2 DEF Promoting, Phase, Offer
    <2>4. QED
      BY <2>1, <2>3, QuietStep
  <1>8. ASSUME Finish PROVE [Barrier!Next]_(Barrier!vars)
    <2>1. /\ UNCHANGED db /\ txn.step = "copying"
          /\ txn'.step = "ended" /\ txn'.versions = txn.versions
      BY <1>8 DEF Finish, Opened
    <2>2. Phase' = Phase /\ Offer' = Offer
      BY <2>1 DEF Promoting, Phase, Offer
    <2>3. QED
      BY <2>1, <2>2, QuietStep
  <1>9. ASSUME Commit PROVE [Barrier!Next]_(Barrier!vars)
    <2>1. txn \in Txn /\ txn.step = "ended" /\ db' = txn.db /\ txn' = NoTxn
      BY <1>9 DEF Commit, Inv, TypeOK, NoTxn
    <2>2. Pending(db) /\ (Succeeded(txn) \/ GaveUp(txn))
      BY <2>1 DEF Inv, TxnInv, NoTxn
    <2>3. Phase = "preparing" /\ Offer = txn.versions /\ Readable = {}
      BY <2>1, <2>2 DEF Promoting, Phase, Offer, Readable, Pending
    <2>4. Offer' = {}
      BY <2>1 DEF Promoting, Offer, NoTxn
    <2>5. CASE GaveUp(txn)
      <3>1. Phase' = "closed" /\ Readable' = {}
        BY <2>1, <2>5 DEF Promoting, Phase, Readable, GaveUp, NoTxn
      <3>2. QED
        BY <2>3, <2>4, <3>1 DEF Barrier!Next, Barrier!Cancel
    <2>6. CASE Succeeded(txn)
      <3>1. Phase' = "open"
        BY <2>1, <2>6 DEF Promoting, Phase, Succeeded, NoTxn
      <3>2. /\ Readable' = {<<v, txn.db.object[v]>> : v \in txn.versions}
            /\ txn.versions \subseteq Versions
        BY <2>1, <2>6 DEF Readable, Succeeded, Txn
      <3>3. \A v \in txn.versions : txn.db.object[v] \in Objects
        <4>1. \A v \in txn.versions : txn.db.object[v] # NoObject
          BY <2>1, <2>6 DEF Inv, TxnInv, Succeeded, NoTxn
        <4>2. txn.db.object \in [Versions -> Objects \cup {NoObject}]
          BY <2>1 DEF Txn, Rows
        <4>3. QED
          BY <3>2, <4>1, <4>2
      <3>4. Barrier!Pins(Readable', Offer)
        BY <2>3, <3>2, <3>3 DEF Barrier!Pins
      <3>5. QED
        BY <2>3, <2>4, <3>1, <3>4 DEF Barrier!Next, Barrier!Open
    <2>7. QED
      BY <2>2, <2>5, <2>6
  <1>10. ASSUME Crash PROVE [Barrier!Next]_(Barrier!vars)
    <2>1. /\ Pending(db) /\ UNCHANGED db /\ txn' = NoTxn /\ txn \in Txn
      BY <1>10 DEF Crash, Inv, TypeOK, TxnInv
    <2>2. Phase' = "closed" /\ Offer' = {} /\ Readable' = Readable
      BY <2>1 DEF Promoting, Phase, Offer, Readable, Pending, NoTxn
    <2>3. CASE txn.step = "gated"
      <3>1. Phase = "closed" /\ Offer = {}
        BY <2>1, <2>3 DEF Promoting, Phase, Offer, Pending
      <3>2. QED
        BY <2>2, <3>1 DEF Barrier!vars
    <2>4. CASE txn.step \in {"copying", "ended"}
      <3>1. Phase = "preparing"
        BY <2>4 DEF Promoting, Phase
      <3>2. QED
        BY <2>2, <3>1 DEF Barrier!Next, Barrier!Cancel
    <2>5. QED
      BY <2>1, <2>3, <2>4 DEF Txn
  <1>11. QED
    BY <1>1, <1>2, <1>3, <1>4, <1>5, <1>6, <1>7, <1>8, <1>9, <1>10 DEF Next

-----------------------------------------------------------------------------
(* Why a retry fails for good: what an earlier attempt placed.             *)

\* An attempt places what had no placement, and leaves the other placements alone.
Fresh ==
  txn # NoTxn =>
    /\ \A v \in Versions \ txn.placements : txn.db.object[v] = db.object[v]
    /\ \A v \in txn.placements : db.object[v] = NoObject
    /\ txn.step = "gated" => txn.placements = {}

\* A version that an earlier attempt placed is not placed again: the copy fails the attempt.
LEMMA CopyFresh ==
  ASSUME Inv, Fresh, NEW v \in Versions, NEW o \in Objects, Copy(v, o)
  PROVE  \/ txn' = Failing(txn) /\ db.object[v] # NoObject
         \/ /\ txn'.placements = txn.placements \cup {v}
            /\ txn'.db.object = [txn.db.object EXCEPT ![v] = o]
            /\ txn'.step = "copying" /\ db.object[v] = NoObject
  <1>1. /\ txn \in Txn /\ txn # NoTxn /\ v \notin txn.placements
        /\ o # txn.db.object[v] /\ txn' = Placing(txn, v, o)
    BY DEF Copy, IsNext, Unreferenced, Inv, TypeOK, NoTxn
  <1>2. txn.db.object[v] = db.object[v]
    BY <1>1 DEF Fresh
  <1>3. CASE db.object[v] = NoObject
    BY <1>1, <1>2, <1>3, PlacingFacts
  <1>4. CASE db.object[v] # NoObject
    BY <1>1, <1>2, <1>4 DEF Placing
  <1>5. QED
    BY <1>3, <1>4

LEMMA FreshStep ==
  ASSUME Inv, Fresh, [Next]_vars
  PROVE  Fresh'
  <1>1. CASE UNCHANGED <<db, txn>>
    BY <1>1 DEF Fresh
  <1>2. CASE txn' = NoTxn
    BY <1>2 DEF Fresh
  <1>3. CASE Begin
    BY <1>3 DEF Begin, Fresh
  <1>4. CASE Select
    <2>1. txn \in Txn /\ txn # NoTxn
      BY <1>4 DEF Select, Inv, TypeOK, NoTxn
    <2>2. txn'.db.object = txn.db.object /\ txn'.placements = {} /\ txn'.step = "copying"
      BY <1>4, <2>1 DEF Select, Txn, Rows
    <2>3. QED
      BY <1>4, <2>1, <2>2 DEF Select, Fresh
  <1>5. ASSUME NEW v \in Versions, NEW o \in Objects, Copy(v, o) PROVE Fresh'
    <2>1. txn \in Txn /\ txn # NoTxn /\ db' = db
      BY <1>5 DEF Copy, IsNext, Inv, TypeOK, NoTxn
    <2>2. txn.db.object \in [Versions -> Objects \cup {NoObject}]
      BY <2>1 DEF Txn, Rows
    <2>3. CASE txn' = Failing(txn)
      BY <2>1, <2>3, FailingFacts DEF Fresh
    <2>4. CASE txn' # Failing(txn)
      BY <1>5, <2>1, <2>2, <2>4, CopyFresh DEF Fresh
    <2>5. QED
      BY <2>3, <2>4
  <1>6. ASSUME txn.step = "copying", txn' = Failing(txn), db' = db PROVE Fresh'
    <2>1. txn \in Txn /\ txn # NoTxn
      BY <1>6 DEF Inv, TypeOK, NoTxn
    <2>2. QED
      BY <1>6, <2>1, FailingFacts DEF Fresh
  <1>7. CASE Finish
    <2>1. /\ txn # NoTxn /\ txn'.step = "ended"
          /\ txn'.db.object = txn.db.object /\ txn'.placements = txn.placements
      BY <1>7 DEF Finish, Opened, NoTxn
    <2>2. QED
      BY <1>7, <2>1 DEF Finish, Fresh
  <1>8. QED
    BY <1>1, <1>2, <1>3, <1>4, <1>5, <1>6, <1>7
    DEF Next, vars, Transition, Judge, CopyRefused, CopyUnanswered, Unanswered, IsNext, Commit, Crash

LEMMA FreshAlways == Spec => [](Inv /\ Fresh)
  <1>1. Init => Fresh
    BY DEF Init, Fresh
  <1>2. QED
    BY <1>1, FreshStep, InvInit, InvStep, PTL DEF Spec

\* A release that succeeds had no leftovers: none of the versions it opens was placed by
\* an attempt before.
LeftoversBlock ==
  [][db.state # "released" /\ db'.state = "released" =>
       \A v \in txn.versions : db.object[v] = NoObject]_vars

\* An attempt past its gate fails by a fault of the store, or by such a leftover.
OnlyThoseFail ==
  [][txn.step = "copying" /\ txn'.step = "ended" /\ txn'.db.state # "released" =>
       faults' > faults \/ \E v \in txn.versions : db.object[v] # NoObject]_vars

-----------------------------------------------------------------------------
(* Results.                                                                *)

\* The rows, the transaction in progress and the bucket always have their types.
THEOREM ReleasesAreTyped == Spec => []TypeOK
  <1>1. Inv => TypeOK
    BY DEF Inv
  <1>2. QED
    BY <1>1, InvAlways, PTL

\* Revision, activation and publication agree in every reachable state.
THEOREM RecordsAlwaysAgree == Spec => []RecordsAgree
  <1>1. Inv => RecordsAgree
    BY DEF Inv
  <1>2. QED
    BY <1>1, InvAlways, PTL

\* Every committed placement names an object that is in the release bucket and holds the
\* attachment's file.
THEOREM PlacementsAlwaysExist == Spec => []PlacementsExist
  <1>1. Inv => PlacementsExist
    BY DEF Inv
  <1>2. QED
    BY <1>1, InvAlways, PTL

\* The release handler, with its copies, failures and crashes, implements the
\* all-or-nothing barrier.
THEOREM ReleaseIsBarrier == Spec => IsBarrier
  <1>1. Init => Barrier!Init
    BY BarrierInit
  <1>2. Inv /\ Inv' /\ [Next]_vars => [Barrier!Next]_(Barrier!vars)
    BY BarrierStep
  <1>3. QED
    BY <1>1, <1>2, InvAlways, PTL DEF Spec, IsBarrier, Barrier!Spec

\* retry_publish never succeeds on a revision that a failed attempt has left a placement of
\* a version to be promoted: get_or_create finds it, and its VersionId is not the copy's.
THEOREM RetriesNeedACleanStart == Spec => LeftoversBlock
  <1> DEFINE Step ==
        db.state # "released" /\ db'.state = "released" =>
          \A v \in txn.versions : db.object[v] = NoObject
  <1>1. Inv /\ Fresh /\ [Next]_vars => [Step]_vars
    <2> SUFFICES ASSUME Inv, Fresh, Next, db.state # "released", db'.state = "released"
                 PROVE  \A v \in txn.versions : db.object[v] = NoObject
      BY DEF vars
    <2>1. ASSUME NEW target \in RevisionStates, Transition(target) PROVE target # "released"
      <3>1. target \in AllowedTargets[db.state] /\ db.state \in RevisionStates
        BY <2>1 DEF Transition, Inv, TypeOK, Rows
      <3>2. QED
        BY <3>1 DEF AllowedTargets, RevisionStates
    <2>2. ASSUME NEW target \in RevisionStates, Transition(target) PROVE db'.state = target
      BY <2>2 DEF Transition, Inv, TypeOK, Rows
    <2>3. Commit
      BY <2>1, <2>2 DEF Next, Judge, Begin, Select, Copy, CopyRefused, CopyUnanswered, Finish, Crash
    <2>4. /\ txn # NoTxn /\ txn.db.state = "released"
          /\ Succeeded(txn) \/ GaveUp(txn)
      BY <2>3 DEF Commit, Inv, TxnInv, NoTxn
    <2>5. txn.placements = txn.versions
      BY <2>4 DEF Succeeded, GaveUp
    <2>6. QED
      BY <2>4, <2>5 DEF Fresh
  <1>2. QED
    BY <1>1, FreshAlways, PTL DEF Spec, LeftoversBlock

\* And nothing else is in the way of a retry, apart from the store: with no placement left
\* behind, the except clause is reached only if a copy is refused or unanswered.
THEOREM CleanRetriesFailByFaults == Spec => OnlyThoseFail
  <1> DEFINE Step ==
        txn.step = "copying" /\ txn'.step = "ended" /\ txn'.db.state # "released" =>
          faults' > faults \/ \E v \in txn.versions : db.object[v] # NoObject
  <1>1. Inv /\ Fresh /\ [Next]_vars => [Step]_vars
    <2> SUFFICES ASSUME Inv, Fresh, Next, txn.step = "copying", txn'.step = "ended",
                        txn'.db.state # "released"
                 PROVE  faults' > faults \/ \E v \in txn.versions : db.object[v] # NoObject
      BY DEF vars
    <2>1. faults \in Nat
      BY FaultsAssumption DEF Inv, TypeOK
    <2>2. txn # NoTxn /\ txn \in Txn
      BY DEF Inv, TypeOK, NoTxn
    <2>3. CASE \/ \E v \in Versions : CopyRefused(v)
               \/ \E v \in Versions, o \in Objects : CopyUnanswered(v, o)
      BY <2>1, <2>3 DEF CopyRefused, CopyUnanswered
    <2>4. ASSUME NEW v \in Versions, NEW o \in Objects, Copy(v, o)
          PROVE  \E w \in txn.versions : db.object[w] # NoObject
      <3>1. v \in txn.versions /\ (db.object[v] = NoObject => txn'.step = "copying")
        <4>1. db.object[v] = NoObject => txn.db.object[v] = NoObject
          BY <2>2, <2>4 DEF Copy, IsNext, Fresh
        <4>2. txn.db.object[v] = NoObject => Placing(txn, v, o).step = "copying"
          BY <2>2, PlacingFacts
        <4>3. QED
          BY <2>4, <4>1, <4>2 DEF Copy, IsNext
      <3>2. QED
        BY <3>1
    <2>5. ~Finish
      BY DEF Finish, Opened
    <2>6. QED
      BY <2>2, <2>3, <2>4, <2>5
      DEF Next, Transition, Judge, Begin, Select, Commit, Crash, NoTxn
  <1>2. QED
    BY <1>1, FreshAlways, PTL DEF Spec, OnlyThoseFail
=============================================================================
