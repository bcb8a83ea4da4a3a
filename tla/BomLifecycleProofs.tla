------------------------- MODULE BomLifecycleProofs -------------------------
(***************************************************************************)
(* For any BOMs, parts, users and requests: a gate sees the whole tree     *)
(* released at the moment it commits, what a BOM contains stays as it is   *)
(* outside draft unless it is imported, no BOM contains itself, and duties *)
(* stay separated.                                                         *)
(***************************************************************************)
EXTENDS BomLifecycle, TLAPS

\* What transaction t has locked of the tree: the nodes it has visited, and
\* those it will.
Held(t) == t.seen \cup {n.rev : n \in t.todo}
Found(t) == {n.rev : n \in t.pending}
Walking(q) == req[q] # Idle /\ req[q].step \in {"walk", "passed"}

\* An import that has written nothing yet has not begun to walk.
Fresh(q) ==
  req[q] # Idle /\ req[q].step \in {"import", "checked"} =>
    /\ req[q].todo = {[rev |-> req[q].rev, path |-> {req[q].rev}]}
    /\ req[q].pending = {} /\ req[q].seen = {} /\ req[q].parts = {req[q].root}
    /\ req[q].target = "import" /\ req[q].items \subseteq Parts

\* The nodes are locked, and those below the first are released.
Holds(q) ==
  Walking(q) =>
    /\ req[q].rev \in Held(req[q])
    /\ req[q].root \in req[q].parts
    /\ \A s \in Held(req[q]) :
         /\ owner[s] = q
         /\ s # req[q].rev => rev[s].state = "released" /\ rev[s].root \in req[q].parts

\* What a visited node contains was found.  A node above the first would have
\* been refused unless the first is released.
Visited(q) ==
  Walking(q) =>
    \A s \in req[q].seen :
      /\ View(q)[s] \cap Revisions \subseteq Held(req[q]) \cup Found(req[q])
      /\ View(q)[s] \cap Parts \subseteq req[q].parts
      /\ req[q].rev \in View(q)[s] => rev[req[q].rev].state = "released"

\* The locked row is as it was when its transaction checked it.
Checked(q) ==
  Walking(q) =>
    /\ req[q].target # "import" =>
         /\ req[q].items = rev[req[q].rev].items
         /\ req[q].root = rev[req[q].rev].root
         /\ req[q].user \in Users
         /\ req[q].target \in Allowed[rev[req[q].rev].state]
         /\ SeparateDuties(req[q].user, req[q].rev, req[q].target)
    /\ req[q].target = "import" =>
         req[q].items \cap Revisions = rev[req[q].rev].items \cap Revisions

\* At the end of the gate the parts are locked too, and released.
Passed(q) ==
  req[q] # Idle /\ req[q].step = "passed" =>
    /\ req[q].todo = {} /\ req[q].pending = {}
    /\ \A p \in req[q].parts : owner[p] = q /\ p \in live

Sound(q) == Fresh(q) /\ Holds(q) /\ Visited(q) /\ Checked(q) /\ Passed(q)

Inv == TypeOK /\ \A q \in Requests : Sound(q)

\* A row refers only to what is, or was, published.
Published == {r \in Revisions : rev[r].state \in {"released", "obsolete"}}
RefersToPublished == \A r \in Revisions : rev[r].items \cap Revisions \subseteq Published

Duties ==
  \A r \in Revisions :
    IF r \in DOMAIN Library
    THEN rev[r].state \in {"released", "obsolete"}
    ELSE /\ rev[r].state \in States \ {"draft", "rejected", "obsolete"} =>
              rev[r].submitter \in Users
         /\ rev[r].state \in {"approved", "release_pending", "release_failed", "released"} =>
              rev[r].reviewer \in Users /\ rev[r].reviewer # rev[r].submitter
         /\ rev[r].state \in {"release_pending", "release_failed", "released"} =>
              /\ rev[r].publisher \in Users
              /\ rev[r].publisher \notin {rev[r].submitter, rev[r].reviewer}

-----------------------------------------------------------------------------
(* TypeOK.                                                                 *)

\* A request that is at work has a transaction.
LEMMA AtWork ==
  ASSUME TypeOK, NEW q \in Requests
  PROVE  /\ req[q] # Idle => req[q] \in Transaction
         /\ req[q].step # "idle" => req[q] # Idle
         /\ Idle.step = "idle"
BY DEF TypeOK, Idle, Transaction

LEMMA LockTypes ==
  ASSUME TypeOK, NEW q \in Requests
  PROVE  /\ Release(q) => owner' \in [Lockable -> Requests \cup {Nobody}]
         /\ \A S : Take(q, S) => owner' \in [Lockable -> Requests \cup {Nobody}]
BY DEF TypeOK, Release, Take

LEMMA EditTypes ==
  ASSUME TypeOK, Edit
  PROVE  TypeOK'
<1>1. PICK r \in Revisions :
        \/ \E p \in Offered[r] \cap Parts : CreateRevision(r, p) \/ EditRoot(r, p)
        \/ \E x \in rev[r].items : DeleteItem(r, x)
        \/ \E x \in Offered[r], old \in {{}} \cup {{i} : i \in rev[r].items} : WriteItem(r, old, x)
  BY DEF Edit
<1>2. rev[r] \in Row /\ Offered[r] \subseteq Things
  BY OfferedAssumption DEF TypeOK, Things
<1>3. ASSUME NEW p \in Offered[r] \cap Parts, CreateRevision(r, p) \/ EditRoot(r, p)
      PROVE  TypeOK'
  <2>1. [rev[r] EXCEPT !.state = "draft", !.root = p] \in Row
    BY <1>2 DEF Row, States
  <2>2. [rev[r] EXCEPT !.root = p] \in Row
    BY <1>2 DEF Row
  <2> QED BY <1>3, <2>1, <2>2 DEF CreateRevision, EditRoot, TypeOK
<1>4. ASSUME NEW x \in rev[r].items, DeleteItem(r, x)
      PROVE  TypeOK'
  <2>1. [rev[r] EXCEPT !.items = @ \ {x}] \in Row
    BY <1>2 DEF Row
  <2> QED BY <1>4, <2>1 DEF DeleteItem, TypeOK
<1>5. ASSUME NEW x \in Offered[r], NEW old \in {{}} \cup {{i} : i \in rev[r].items},
             WriteItem(r, old, x)
      PROVE  TypeOK'
  <2>1. [rev[r] EXCEPT !.items = (rev[r].items \ old) \cup {x}] \in Row
    BY <1>2 DEF Row
  <2> QED BY <1>5, <2>1 DEF WriteItem, TypeOK
<1> QED BY <1>1, <1>3, <1>4, <1>5

LEMMA MovedType ==
  ASSUME TypeOK, NEW u \in Actors, NEW r \in Revisions, NEW target \in States
  PROVE  Moved(u, r, target) \in Row
<1>1. rev[r] \in Row
  BY DEF TypeOK
<1> QED BY <1>1 DEF Moved, Row, Actors

LEMMA GateTypes ==
  ASSUME TypeOK, NEW q \in Requests, Gate(q)
  PROVE  TypeOK'
<1>1. ASSUME NEW u \in Users, NEW r \in Revisions, NEW target \in Gated, BeginGate(q, u, r, target)
      PROVE  TypeOK'
  <2>1. Walk(u, r, target, rev[r].root, rev[r].items) \in Transaction
    BY DEF Walk, Transaction, TypeOK, Row, Actors, Nodes
  <2>2. req' \in [Requests -> Transaction \cup {Idle}]
    BY <1>1, <2>1 DEF BeginGate, TypeOK
  <2> QED BY <1>1, <2>2, LockTypes DEF BeginGate, TypeOK
<1>2. CASE Visit(q)
  <2>1. req[q] \in Transaction
    BY <1>2, AtWork DEF Visit
  <2>2. PICK n \in req[q].todo :
          req' = [req EXCEPT
                    ![q].todo = @ \ {n},
                    ![q].pending = {[rev |-> c, path |-> n.path \cup {c}] :
                                      c \in View(q)[n.rev] \cap Revisions},
                    ![q].seen = @ \cup {n.rev},
                    ![q].parts = @ \cup (View(q)[n.rev] \cap Parts)]
    BY <1>2 DEF Visit
  <2>3. n \in Nodes
    BY <2>1 DEF Transaction
  <2>4. {[rev |-> c, path |-> n.path \cup {c}] : c \in View(q)[n.rev] \cap Revisions} \subseteq Nodes
    BY <2>3 DEF Nodes
  <2>5. req'[q] \in Transaction
    BY <2>1, <2>2, <2>3, <2>4 DEF Transaction, Nodes, TypeOK
  <2>6. req' \in [Requests -> Transaction \cup {Idle}]
    BY <2>2, <2>5 DEF TypeOK
  <2> QED BY <1>2, <2>6 DEF Visit, TypeOK
<1>3. CASE LockChild(q)
  <2>1. req[q] \in Transaction
    BY <1>3, AtWork DEF LockChild
  <2>2. PICK n \in req[q].pending :
          /\ Take(q, ChildLocks(n.rev))
          /\ req' = [req EXCEPT
                       ![q].pending = @ \ {n},
                       ![q].todo = @ \cup {n},
                       ![q].parts = @ \cup {rev[n.rev].root}]
    BY <1>3 DEF LockChild
  <2>3. n \in Nodes /\ rev[n.rev].root \in Parts
    BY <2>1 DEF Transaction, Nodes, TypeOK, Row
  <2>4. req'[q] \in Transaction
    BY <2>1, <2>2, <2>3 DEF Transaction, TypeOK
  <2>5. req' \in [Requests -> Transaction \cup {Idle}]
    BY <2>2, <2>4 DEF TypeOK
  <2> QED BY <1>3, <2>2, <2>5, LockTypes DEF LockChild, TypeOK
<1>4. CASE LockParts(q)
  <2>1. req[q] \in Transaction
    BY <1>4, AtWork DEF LockParts
  <2>2. req'[q] \in Transaction
    BY <1>4, <2>1 DEF LockParts, Transaction, TypeOK
  <2>3. req' \in [Requests -> Transaction \cup {Idle}]
    BY <1>4, <2>2 DEF LockParts, TypeOK
  <2> QED BY <1>4, <2>3, LockTypes DEF LockParts, TypeOK
<1>5. CASE Abort(q)
  BY <1>5, LockTypes DEF Abort, TypeOK
<1>6. CASE CommitGate(q)
  <2>1. req[q] \in Transaction /\ req[q].target \in States
    BY <1>6, AtWork DEF CommitGate, Transaction, Gated, States
  <2>2. Moved(req[q].user, req[q].rev, req[q].target) \in Row
    BY <2>1, MovedType DEF Transaction
  <2>3. rev' \in [Revisions -> Row]
    BY <1>6, <2>1, <2>2 DEF CommitGate, TypeOK
  <2> QED BY <1>6, <2>3, LockTypes DEF CommitGate, TypeOK
<1> QED BY <1>1, <1>2, <1>3, <1>4, <1>5, <1>6 DEF Gate

LEMMA ImportTypes ==
  ASSUME TypeOK, NEW q \in Requests, Import(q)
  PROVE  TypeOK'
<1>1. ASSUME NEW r \in Revisions, NEW root \in Offered[r] \cap Parts,
             NEW batch \in SUBSET (Offered[r] \cap Parts), ImportBegin(q, r, root, batch)
      PROVE  TypeOK'
  <2>1. [Walk(Nobody, r, "import", root, batch) EXCEPT !.step = "import"] \in Transaction
    BY DEF Walk, Transaction, Actors, Nodes, Things
  <2>2. req' \in [Requests -> Transaction \cup {Idle}]
    BY <1>1, <2>1 DEF ImportBegin, TypeOK
  <2> QED BY <1>1, <2>2 DEF ImportBegin, TypeOK
<1>2. CASE ImportCheck(q)
  <2>1. req[q] \in Transaction
    BY <1>2, AtWork DEF ImportCheck
  <2>2. req'[q] \in Transaction
    BY <1>2, <2>1 DEF ImportCheck, Transaction, TypeOK
  <2>3. req' \in [Requests -> Transaction \cup {Idle}]
    BY <1>2, <2>2 DEF ImportCheck, TypeOK
  <2> QED BY <1>2, <2>3, LockTypes DEF ImportCheck, TypeOK
<1>3. CASE ImportWrite(q)
  <2>1. req[q] \in Transaction
    BY <1>3, AtWork DEF ImportWrite
  <2>2. PICK kept \in SUBSET rev[req[q].rev].items :
          req' = [req EXCEPT ![q].items = @ \cup kept, ![q].step = "walk"]
    BY <1>3 DEF ImportWrite
  <2>3. kept \subseteq Things
    BY <2>1 DEF Transaction, TypeOK, Row
  <2>4. req'[q] \in Transaction
    BY <2>1, <2>2, <2>3 DEF Transaction, TypeOK
  <2>5. req' \in [Requests -> Transaction \cup {Idle}]
    BY <2>2, <2>4 DEF TypeOK
  <2> QED BY <1>3, <2>5, LockTypes DEF ImportWrite, TypeOK
<1>4. CASE CommitImport(q)
  <2>1. req[q] \in Transaction
    BY <1>4, AtWork DEF CommitImport
  <2> DEFINE r == req[q].rev
  <2>2. rev[r] \in Row /\ r \in Revisions
    BY <2>1 DEF Transaction, TypeOK
  <2>3. [rev[r] EXCEPT !.state = IF @ = "absent" THEN "draft" ELSE @,
                       !.root = req[q].root, !.items = req[q].items] \in Row
    BY <2>1, <2>2 DEF Row, Transaction, States
  <2>4. rev' \in [Revisions -> Row]
    BY <1>4, <2>2, <2>3 DEF CommitImport, TypeOK
  <2> QED BY <1>4, <2>4, LockTypes DEF CommitImport, TypeOK
<1> QED BY <1>1, <1>2, <1>3, <1>4 DEF Import

LEMMA TypesKept ==
  ASSUME TypeOK, [Next]_vars
  PROVE  TypeOK'
<1>1. ASSUME NEW u \in Users, NEW r \in Revisions, NEW target \in States, Transit(u, r, target)
      PROVE  TypeOK'
  <2>1. Moved(u, r, target) \in Row
    BY MovedType DEF Actors
  <2> QED BY <1>1, <2>1 DEF Transit, TypeOK
<1>2. ASSUME NEW p \in Parts, PartStep(p)
      PROVE  TypeOK'
  BY <1>2 DEF PartStep, TypeOK
<1>3. CASE UNCHANGED vars
  BY <1>3 DEF vars, TypeOK
<1> QED BY <1>1, <1>2, <1>3, EditTypes, GateTypes, ImportTypes DEF Next

LEMMA InitTypes ==
  ASSUME Init
  PROVE  TypeOK
<1>1. rev \in [Revisions -> Row]
  <2>1. (CHOOSE p \in Parts : TRUE) \in Parts
    BY PartsAssumption
  <2>2. \A r \in DOMAIN Library : Library[r].root \in Parts /\ Library[r].items \subseteq Things
    BY LibraryAssumption DEF Things
  <2> QED BY <2>1, <2>2 DEF Init, Row, States, Actors
<1> QED BY <1>1 DEF Init, TypeOK

-----------------------------------------------------------------------------
(* Inv: each transaction is sound.                                         *)

\* A transaction stays sound while nobody touches what it has locked.
LEMMA Undisturbed ==
  ASSUME Inv, TypeOK', NEW q \in Requests, req'[q] = req[q],
         \A x \in Lockable : owner[x] = q => owner'[x] = q,
         \A r \in Revisions : owner[r] = q => rev'[r] = rev[r],
         \A p \in Parts : owner[p] = q /\ p \in live => p \in live'
  PROVE  Sound(q)'
<1>1. CASE req[q] = Idle
  BY <1>1, AtWork DEF Sound, Fresh, Holds, Visited, Checked, Passed, Walking
<1>2. CASE req[q] # Idle
  <2> DEFINE t == req[q]
  <2>1. t \in Transaction
    BY <1>2, AtWork DEF Inv
  <2>2. Sound(q)
    BY DEF Inv
  <2>3. t.rev \in Revisions /\ t.seen \subseteq Held(t) /\ Held(t) \subseteq Revisions
        /\ Revisions \subseteq Lockable /\ Parts \subseteq Lockable /\ t.parts \subseteq Parts
    BY <2>1 DEF Transaction, Held, Nodes, Lockable, Things
  <2>4. Walking(q)' <=> Walking(q)
    BY DEF Walking
  <2>5. Walking(q) => \A s \in Held(t) \cup {t.rev} : owner[s] = q /\ rev'[s] = rev[s]
    BY <2>2, <2>3 DEF Sound, Holds
  <2>6. Walking(q) => \A s \in t.seen : View(q)'[s] = View(q)[s]
    BY <2>3, <2>5 DEF View, Committed
  <2>7. Fresh(q)'
    BY <2>2 DEF Sound, Fresh
  <2>8. Holds(q)'
    BY <2>2, <2>3, <2>4, <2>5 DEF Sound, Holds, Held
  <2>9. Visited(q)'
    BY <2>2, <2>4, <2>5, <2>6 DEF Sound, Visited, Held, Found
  <2>10. Checked(q)'
    BY <2>2, <2>4, <2>5 DEF Sound, Checked, SeparateDuties, Abandoning
  <2>11. Passed(q)'
    BY <2>2, <2>3 DEF Sound, Passed
  <2> QED BY <2>7, <2>8, <2>9, <2>10, <2>11 DEF Sound
<1> QED BY <1>1, <1>2

\* Steps of one transaction that only write rows nobody has locked.
LEMMA UnlockedSteps ==
  ASSUME Inv, TypeOK',
         \/ Edit
         \/ \E u \in Users, r \in Revisions, target \in States : Transit(u, r, target)
         \/ \E p \in Parts : PartStep(p)
         \/ UNCHANGED vars
  PROVE  \A q \in Requests : Sound(q)'
<1> SUFFICES ASSUME NEW q \in Requests PROVE Sound(q)'
  OBVIOUS
<1>1. req' = req /\ owner' = owner
  BY DEF Edit, CreateRevision, EditRoot, WriteItem, DeleteItem, Transit, PartStep, vars
<1>2. \A r \in Revisions : owner[r] = q => rev'[r] = rev[r]
  BY NobodyAssumption
     DEF Edit, CreateRevision, EditRoot, WriteItem, DeleteItem, Editable, Transit, May, PartStep,
         vars, Inv, TypeOK
<1>3. \A p \in Parts : owner[p] = q /\ p \in live => p \in live'
  BY NobodyAssumption
     DEF Edit, CreateRevision, EditRoot, WriteItem, DeleteItem, Transit, PartStep, vars
<1> QED BY <1>1, <1>2, <1>3, Undisturbed

\* A transaction that writes only what it has locked, and takes only what is
\* free, leaves the others sound.
LEMMA OthersSound ==
  ASSUME Inv, TypeOK', NEW q \in Requests, Gate(q) \/ Import(q),
         NEW z \in Requests, z # q
  PROVE  Sound(z)'
<1>1. req'[z] = req[z]
  BY DEF Gate, BeginGate, Visit, LockChild, LockParts, CommitGate, Abort,
         Import, ImportBegin, ImportCheck, ImportWrite, CommitImport, Inv, TypeOK
<1>2. \A x \in Lockable : owner[x] = z => owner'[x] = z
  <2> SUFFICES ASSUME NEW x \in Lockable, owner[x] = z PROVE owner'[x] = z
    OBVIOUS
  <2>1. z # Nobody
    BY NobodyAssumption
  <2>2. \A S : Free(q, S) /\ Take(q, S) => owner'[x] = z
    BY <2>1 DEF Free, Take
  <2>3. Release(q) => owner'[x] = z
    BY DEF Release
  <2>4. \A y : owner[y] = Nobody /\ Take(q, {y}) => owner'[x] = z
    BY <2>1 DEF Take
  <2> QED
    BY <2>2, <2>3, <2>4
       DEF Gate, BeginGate, May, Visit, LockChild, LockParts, CommitGate, Abort,
           Import, ImportBegin, ImportCheck, ImportWrite, CommitImport
<1>3. \A r \in Revisions : owner[r] = z => rev'[r] = rev[r]
  <2>1. CASE CommitGate(q) \/ CommitImport(q)
    <3>1. Walking(q) /\ Sound(q) /\ req[q] \in Transaction
      BY <2>1, AtWork DEF CommitGate, CommitImport, Walking, Inv
    <3>2. owner[req[q].rev] = q
      BY <3>1 DEF Sound, Holds
    <3>3. \A r \in Revisions : r # req[q].rev => rev'[r] = rev[r]
      BY <2>1 DEF CommitGate, CommitImport, Inv, TypeOK
    <3> QED BY <3>2, <3>3
  <2>2. CASE ~(CommitGate(q) \/ CommitImport(q))
    BY <2>2 DEF Gate, BeginGate, Visit, LockChild, LockParts, Abort,
                Import, ImportBegin, ImportCheck, ImportWrite
  <2> QED BY <2>1, <2>2
<1>4. live' = live
  BY DEF Gate, BeginGate, Visit, LockChild, LockParts, CommitGate, Abort,
         Import, ImportBegin, ImportCheck, ImportWrite, CommitImport
<1> QED BY <1>1, <1>2, <1>3, <1>4, Undisturbed

\* The tree is entered at the node of the revision itself.
LEMMA HeldFirst ==
  ASSUME NEW t, NEW r, t.seen = {}, t.todo = {[rev |-> r, path |-> {r}]}
  PROVE  Held(t) = {r}
BY DEF Held

\* A transaction that begins.
LEMMA BeginSound ==
  ASSUME Inv, TypeOK', NEW q \in Requests,
         \/ \E u \in Users, r \in Revisions, target \in Gated : BeginGate(q, u, r, target)
         \/ \E r \in Revisions : \E root \in Offered[r] \cap Parts :
              \E batch \in SUBSET (Offered[r] \cap Parts) \ {{}} : ImportBegin(q, r, root, batch)
  PROVE  Sound(q)'
<1>1. ASSUME NEW u \in Users, NEW r \in Revisions, NEW target \in Gated, BeginGate(q, u, r, target)
      PROVE  Sound(q)'
  <2>1. /\ req'[q] = Walk(u, r, target, rev[r].root, rev[r].items)
        /\ rev' = rev /\ owner'[r] = q /\ May(u, r, target)
    BY <1>1 DEF BeginGate, Take, Inv, TypeOK, Lockable, Things
  <2>2. target # "import"
    BY DEF Gated
  <2>3. /\ req'[q].rev = r /\ req'[q].root = rev[r].root /\ req'[q].parts = {rev[r].root}
        /\ req'[q].seen = {} /\ req'[q].todo = {[rev |-> r, path |-> {r}]}
        /\ req'[q].step = "walk"
    BY <2>1 DEF Walk
  <2>4. Held(req'[q]) = {r}
    BY <2>3, HeldFirst
  <2>5. Holds(q)'
    BY <2>1, <2>3, <2>4 DEF Holds
  <2>6. Checked(q)'
    BY <2>1, <2>2 DEF Checked, Walk, May, SeparateDuties, Abandoning
  <2> QED BY <2>3, <2>5, <2>6 DEF Sound, Fresh, Visited, Passed
<1>2. ASSUME NEW r \in Revisions, NEW root \in Offered[r] \cap Parts,
             NEW batch \in SUBSET (Offered[r] \cap Parts), ImportBegin(q, r, root, batch)
      PROVE  Sound(q)'
  <2>1. req'[q] = [Walk(Nobody, r, "import", root, batch) EXCEPT !.step = "import"]
    BY <1>2 DEF ImportBegin, Inv, TypeOK
  <2> QED BY <2>1 DEF Sound, Fresh, Holds, Visited, Checked, Passed, Walking, Walk
<1> QED BY <1>1, <1>2

\* A transaction that ends leaves nothing to be sound.
LEMMA EndSound ==
  ASSUME Inv, NEW q \in Requests, CommitGate(q) \/ CommitImport(q) \/ Abort(q)
  PROVE  Sound(q)'
<1>1. req'[q] = Idle
  BY DEF CommitGate, CommitImport, Abort, Inv, TypeOK
<1> QED BY <1>1 DEF Sound, Fresh, Holds, Visited, Checked, Passed, Walking

LEMMA ImportSound ==
  ASSUME Inv, TypeOK', NEW q \in Requests, ImportCheck(q) \/ ImportWrite(q)
  PROVE  Sound(q)'
<1> DEFINE t == req[q]
<1>1. /\ t \in Transaction /\ req[q] # Idle /\ Fresh(q)
      /\ t.step \in {"import", "checked"}
  BY AtWork DEF ImportCheck, ImportWrite, Inv, Sound
<1>2. CASE ImportCheck(q)
  <2>1. req'[q] = [t EXCEPT !.step = "checked"]
    BY <1>2 DEF ImportCheck, Inv, TypeOK
  <2>2. /\ req'[q].step = "checked" /\ req'[q].rev = t.rev /\ req'[q].todo = t.todo
        /\ req'[q].pending = t.pending /\ req'[q].seen = t.seen /\ req'[q].parts = t.parts
        /\ req'[q].root = t.root /\ req'[q].target = t.target /\ req'[q].items = t.items
    BY <1>1, <2>1 DEF Transaction
  <2> QED BY <1>1, <2>2 DEF Sound, Fresh, Holds, Visited, Checked, Passed, Walking
<1>3. CASE ImportWrite(q)
  <2>1. PICK kept \in SUBSET rev[t.rev].items :
          /\ rev[t.rev].items \cap Revisions \subseteq kept
          /\ req' = [req EXCEPT ![q].items = @ \cup kept, ![q].step = "walk"]
    BY <1>3 DEF ImportWrite
  <2>2. /\ req'[q].step = "walk" /\ req'[q].rev = t.rev /\ req'[q].todo = t.todo
        /\ req'[q].pending = t.pending /\ req'[q].seen = t.seen /\ req'[q].parts = t.parts
        /\ req'[q].root = t.root /\ req'[q].target = t.target
        /\ req'[q].items = t.items \cup kept
    BY <1>1, <2>1 DEF Transaction, Inv, TypeOK
  <2>3. t.rev \in Lockable /\ owner'[t.rev] = q /\ rev' = rev
    BY <1>1, <1>3 DEF ImportWrite, Take, Transaction, Lockable, Things
  <2>4. req'[q].items \cap Revisions = rev[t.rev].items \cap Revisions
    BY <1>1, <2>1, <2>2, ThingsAssumption DEF Fresh
  <2>5. Held(req'[q]) = {t.rev}
    <3>1. req'[q].seen = {} /\ req'[q].todo = {[rev |-> t.rev, path |-> {t.rev}]}
      BY <1>1, <2>2 DEF Fresh
    <3> QED BY <3>1, HeldFirst
  <2>6. Holds(q)'
    BY <1>1, <2>2, <2>3, <2>5 DEF Holds, Fresh
  <2>7. Checked(q)'
    BY <1>1, <2>2, <2>3, <2>4 DEF Checked, Fresh
  <2> QED BY <1>1, <2>2, <2>6, <2>7 DEF Sound, Fresh, Visited, Passed
<1> QED BY <1>2, <1>3

LEMMA VisitSound ==
  ASSUME Inv, TypeOK', NEW q \in Requests, Visit(q)
  PROVE  Sound(q)'
<1> DEFINE t == req[q]
<1>1. t \in Transaction /\ t # Idle /\ t.step = "walk" /\ Walking(q) /\ Sound(q)
  BY AtWork DEF Visit, Walking, Inv
<1>2. PICK n \in t.todo :
        /\ \A x \in View(q)[n.rev] : IsReleased(x)
        /\ req' = [req EXCEPT
                     ![q].todo = @ \ {n},
                     ![q].pending = {[rev |-> c, path |-> n.path \cup {c}] :
                                       c \in View(q)[n.rev] \cap Revisions},
                     ![q].seen = @ \cup {n.rev},
                     ![q].parts = @ \cup (View(q)[n.rev] \cap Parts)]
  BY DEF Visit
<1>3. /\ req'[q].step = "walk" /\ req'[q].rev = t.rev /\ req'[q].todo = t.todo \ {n}
      /\ req'[q].pending = {[rev |-> c, path |-> n.path \cup {c}] : c \in View(q)[n.rev] \cap Revisions}
      /\ req'[q].seen = t.seen \cup {n.rev} /\ req'[q].parts = t.parts \cup (View(q)[n.rev] \cap Parts)
      /\ req'[q].root = t.root /\ req'[q].target = t.target /\ req'[q].items = t.items
      /\ req'[q].user = t.user
  BY <1>1, <1>2 DEF Transaction, Inv, TypeOK
<1>4. rev' = rev /\ owner' = owner /\ live' = live
  BY DEF Visit
<1>5. Held(req'[q]) = Held(t)
  BY <1>3 DEF Held
<1>6. Found(req'[q]) = View(q)[n.rev] \cap Revisions
  <2>1. \A m \in req'[q].pending : m.rev \in View(q)[n.rev] \cap Revisions
    BY <1>3
  <2>2. ASSUME NEW c \in View(q)[n.rev] \cap Revisions
        PROVE  \E m \in req'[q].pending : m.rev = c
    <3>1. [rev |-> c, path |-> n.path \cup {c}] \in req'[q].pending
      BY <1>3
    <3> QED BY <3>1
  <2> QED BY <2>1, <2>2 DEF Found
<1>7. View(q)' = View(q)
  BY <1>3, <1>4 DEF View, Committed
<1>8. t.pending = {}
  BY DEF Visit
<1>9. Found(t) = {} /\ Held(t) \subseteq Revisions
  BY <1>1, <1>8 DEF Found, Held, Transaction, Nodes
<1>10. Holds(q)'
  BY <1>1, <1>3, <1>4, <1>5 DEF Sound, Holds
<1>11. Visited(q)'
  <2> SUFFICES ASSUME NEW s \in req'[q].seen
      PROVE  /\ View(q)[s] \cap Revisions \subseteq Held(t) \cup Found(req'[q])
             /\ View(q)[s] \cap Parts \subseteq req'[q].parts
             /\ t.rev \in View(q)[s] => rev[t.rev].state = "released"
    BY <1>3, <1>4, <1>5, <1>7 DEF Visited
  <2>1. CASE s = n.rev
    <3>1. t.rev \in View(q)[s] => rev[t.rev].state = "released"
      BY <1>1, <1>2, <2>1, ThingsAssumption DEF IsReleased, Transaction
    <3> QED BY <1>3, <1>6, <2>1, <3>1
  <2>2. CASE s \in t.seen
    BY <1>1, <1>3, <1>9, <2>2 DEF Sound, Visited
  <2> QED BY <1>3, <2>1, <2>2
<1>12. Checked(q)'
  BY <1>1, <1>3, <1>4 DEF Sound, Checked, SeparateDuties, Abandoning
<1> QED BY <1>3, <1>10, <1>11, <1>12 DEF Sound, Fresh, Passed

LEMMA LockChildSound ==
  ASSUME Inv, TypeOK', NEW q \in Requests, LockChild(q)
  PROVE  Sound(q)'
<1> DEFINE t == req[q]
<1>1. t \in Transaction /\ t # Idle /\ t.step = "walk" /\ Walking(q) /\ Sound(q)
  BY AtWork DEF LockChild, Walking, Inv
<1>2. PICK n \in t.pending :
        /\ Take(q, ChildLocks(n.rev))
        /\ IsReleased(n.rev)
        /\ req' = [req EXCEPT
                     ![q].pending = @ \ {n},
                     ![q].todo = @ \cup {n},
                     ![q].parts = @ \cup {rev[n.rev].root}]
  BY DEF LockChild
<1>3. /\ req'[q].step = "walk" /\ req'[q].rev = t.rev /\ req'[q].todo = t.todo \cup {n}
      /\ req'[q].pending = t.pending \ {n}
      /\ req'[q].seen = t.seen /\ req'[q].parts = t.parts \cup {rev[n.rev].root}
      /\ req'[q].root = t.root /\ req'[q].target = t.target /\ req'[q].items = t.items
      /\ req'[q].user = t.user
  BY <1>1, <1>2 DEF Transaction, Inv, TypeOK
<1>4. rev' = rev /\ live' = live
  BY DEF LockChild
<1>5. Held(req'[q]) = Held(t) \cup {n.rev}
  BY <1>3 DEF Held
<1>6. Found(t) \subseteq Found(req'[q]) \cup {n.rev}
  BY <1>3 DEF Found
<1>7. View(q)' = View(q)
  BY <1>3, <1>4 DEF View, Committed
<1>8. n.rev \in Revisions /\ Held(t) \subseteq Revisions /\ Revisions \subseteq Lockable
  BY <1>1 DEF Held, Transaction, Nodes, Lockable, Things
<1>9. rev[n.rev].state = "released"
  BY <1>2, <1>8, ThingsAssumption DEF IsReleased
<1>10. \A s \in Held(t) \cup {n.rev} : owner'[s] = q
  BY <1>1, <1>2, <1>8 DEF Take, ChildLocks, Sound, Holds
<1>11. Holds(q)'
  BY <1>1, <1>3, <1>4, <1>5, <1>9, <1>10 DEF Sound, Holds
<1>12. Visited(q)'
  BY <1>1, <1>3, <1>4, <1>5, <1>6, <1>7 DEF Sound, Visited
<1>13. Checked(q)'
  BY <1>1, <1>3, <1>4 DEF Sound, Checked, SeparateDuties, Abandoning
<1> QED BY <1>3, <1>11, <1>12, <1>13 DEF Sound, Fresh, Passed

LEMMA LockPartsSound ==
  ASSUME Inv, TypeOK', NEW q \in Requests, LockParts(q)
  PROVE  Sound(q)'
<1> DEFINE t == req[q]
<1>1. t \in Transaction /\ t # Idle /\ t.step = "walk" /\ Walking(q) /\ Sound(q)
  BY AtWork DEF LockParts, Walking, Inv
<1>2. /\ req'[q].step = "passed" /\ req'[q].rev = t.rev /\ req'[q].todo = t.todo
      /\ req'[q].pending = t.pending
      /\ req'[q].seen = t.seen /\ req'[q].parts = t.parts
      /\ req'[q].root = t.root /\ req'[q].target = t.target /\ req'[q].items = t.items
      /\ req'[q].user = t.user
  BY <1>1 DEF LockParts, Transaction, Inv, TypeOK
<1>3. rev' = rev /\ live' = live
  BY DEF LockParts
<1>4. View(q)' = View(q) /\ Held(req'[q]) = Held(t) /\ Found(req'[q]) = Found(t)
  BY <1>2, <1>3 DEF View, Committed, Held, Found
<1>5. t.parts \subseteq Lockable /\ Held(t) \subseteq Lockable /\ t.parts \subseteq Parts
  BY <1>1 DEF Held, Transaction, Nodes, Lockable, Things
<1>6. \A p \in t.parts : owner'[p] = q /\ p \in live
  BY <1>5 DEF LockParts, Take, IsReleased
<1>7. \A s \in Held(t) : owner'[s] = q
  BY <1>1, <1>5 DEF LockParts, Take, Sound, Holds
<1>8. Holds(q)'
  BY <1>1, <1>2, <1>3, <1>4, <1>7 DEF Sound, Holds
<1>9. Visited(q)'
  BY <1>1, <1>2, <1>3, <1>4 DEF Sound, Visited
<1>10. Checked(q)'
  BY <1>1, <1>2, <1>3 DEF Sound, Checked, SeparateDuties, Abandoning
<1>11. Passed(q)'
  BY <1>2, <1>3, <1>6 DEF Passed, LockParts
<1> QED BY <1>2, <1>8, <1>9, <1>10, <1>11 DEF Sound, Fresh

\* The invariant of the walk: what a request at work has visited is locked, and
\* what was found below it is either visited, locked or still to be.
THEOREM BomInvariant == Spec => []Inv
<1>1. Init => Inv
  <2> SUFFICES ASSUME Init PROVE Inv
    OBVIOUS
  <2>1. \A q \in Requests : req[q] = Idle
    BY DEF Init
  <2> QED BY <2>1, InitTypes
      DEF Inv, Sound, Fresh, Holds, Visited, Checked, Passed, Walking
<1>2. Inv /\ [Next]_vars => Inv'
  <2> SUFFICES ASSUME Inv, [Next]_vars PROVE Inv'
    OBVIOUS
  <2>1. TypeOK'
    BY TypesKept DEF Inv
  <2>2. ASSUME NEW q \in Requests, Gate(q) \/ Import(q), NEW z \in Requests
        PROVE  Sound(z)'
    <3>1. CASE z # q
      BY <2>1, <2>2, <3>1, OthersSound
    <3>2. CASE z = q
      BY <2>1, <2>2, <3>2, BeginSound, EndSound, ImportSound, VisitSound, LockChildSound,
         LockPartsSound DEF Gate, Import
    <3> QED BY <3>1, <3>2
  <2> QED BY <2>1, <2>2, UnlockedSteps DEF Inv, Next
<1> QED BY <1>1, <1>2, PTL DEF Spec


-----------------------------------------------------------------------------
(* What a gate that passed has seen.                                       *)

\* A set that holds S and is closed under f holds all that is reached from S.
LEMMA ReachWithin ==
  ASSUME NEW f, NEW S, NEW T \in SUBSET Revisions, S \subseteq T,
         \A t \in T : f[t] \cap Revisions \subseteq T
  PROVE  Reach(f, S) \subseteq T
BY DEF Reach

\* At the end of the gate the whole tree is locked and released.
LEMMA TreeReleased ==
  ASSUME Inv, NEW q \in Requests, req[q].step = "passed"
  PROVE  LET r == req[q].rev
             f == View(q)
         IN  /\ \A s \in Below(f, r) : rev[s].state = "released"
             /\ req[q].root \in live /\ f[r] \cap Parts \subseteq live
             /\ \A s \in Tree(f, r) \ {r} : rev[s].root \in live /\ f[s] \cap Parts \subseteq live
<1> DEFINE t == req[q]
           r == t.rev
           f == View(q)
           V == t.seen
<1>1. t \in Transaction /\ Walking(q) /\ Sound(q) /\ t # Idle
  BY AtWork DEF Walking, Inv
<1>2. Held(t) = V /\ Found(t) = {}
  BY <1>1 DEF Sound, Passed, Held, Found
<1>3. V \in SUBSET Revisions /\ r \in V /\ r \in Revisions
  BY <1>1, <1>2 DEF Sound, Holds, Transaction
<1>4. \A s \in V : f[s] \cap Revisions \subseteq V
  BY <1>1, <1>2 DEF Sound, Visited
<1>5. Tree(f, r) \subseteq V
  BY <1>3, <1>4, ReachWithin DEF Tree
<1>6. Below(f, r) \subseteq V
  BY <1>3, <1>4, ReachWithin DEF Below
<1>7. ASSUME rev[r].state # "released"
      PROVE  Below(f, r) \subseteq V \ {r}
  <2>1. \A s \in V : r \notin f[s]
    BY <1>1, <1>7 DEF Sound, Visited
  <2> DEFINE W == V \ {r}
  <2>2. W \in SUBSET Revisions /\ f[r] \cap Revisions \subseteq W
    BY <1>3, <1>4, <2>1
  <2>3. \A s \in W : f[s] \cap Revisions \subseteq W
    BY <1>4, <2>1
  <2> HIDE DEF W, f, r
  <2>4. Reach(f, f[r] \cap Revisions) \subseteq W
    BY <2>2, <2>3, ReachWithin
  <2> QED BY <2>4 DEF Below, W
<1>8. \A s \in V \ {r} : rev[s].state = "released" /\ rev[s].root \in t.parts
  BY <1>1, <1>2 DEF Sound, Holds
<1>9. \A s \in Below(f, r) : rev[s].state = "released"
  BY <1>6, <1>7, <1>8
<1>10. \A p \in t.parts : p \in live
  BY <1>1 DEF Sound, Passed
<1>11. t.root \in t.parts /\ \A s \in V : f[s] \cap Parts \subseteq t.parts
  BY <1>1 DEF Sound, Holds, Visited
<1> QED BY <1>3, <1>5, <1>8, <1>9, <1>10, <1>11

\* What a transaction commits is the tree that it saw.
LEMMA CommitShowsView ==
  ASSUME Inv, NEW q \in Requests, CommitGate(q) \/ CommitImport(q)
  PROVE  LET r == req[q].rev
         IN  /\ r \in Revisions /\ Committed' = View(q)
             /\ rev'[r].root = req[q].root
             /\ \A s \in Revisions \ {r} : rev'[s] = rev[s]
<1> DEFINE t == req[q]
           r == t.rev
<1>1. t \in Transaction /\ Walking(q) /\ Sound(q)
  BY AtWork DEF Walking, Inv, CommitGate, CommitImport
<1>2. r \in Revisions /\ rev[r] \in Row /\ rev \in [Revisions -> Row]
  BY <1>1 DEF Transaction, Inv, TypeOK
<1>3. /\ \A s \in Revisions \ {r} : rev'[s] = rev[s]
  BY <1>2 DEF CommitGate, CommitImport
<1>4. rev'[r].items = t.items /\ rev'[r].root = t.root
  <2>1. CASE CommitGate(q)
    <3>1. t.items = rev[r].items /\ t.root = rev[r].root
      BY <1>1, <2>1 DEF CommitGate, Sound, Checked
    <3> QED BY <1>2, <2>1, <3>1 DEF CommitGate, Moved, Row
  <2>2. CASE CommitImport(q)
    BY <1>2, <2>2 DEF CommitImport, Row
  <2> QED BY <2>1, <2>2
<1>5. Committed' = View(q)
  BY <1>2, <1>3, <1>4 DEF Committed, View
<1> QED BY <1>2, <1>3, <1>4, <1>5

\* When a gated transition or an import commits, all that is in the tree
\* of the revision is released.
LEMMA CommitReleased ==
  ASSUME Inv, NEW q \in Requests, CommitGate(q) \/ CommitImport(q),
         NEW r, r = req[q].rev
  PROVE  AllReleased(r)'
<1> DEFINE t == req[q]
           f == View(q)
<1>1. t \in Transaction /\ Walking(q) /\ Sound(q) /\ t.step = "passed" /\ rev[r] \in Row
  BY AtWork DEF Walking, Inv, CommitGate, CommitImport, Transaction, TypeOK
<1>2. /\ \A s \in Below(f, r) : rev[s].state = "released"
      /\ t.root \in live /\ f[r] \cap Parts \subseteq live
      /\ \A s \in Tree(f, r) \ {r} : rev[s].root \in live /\ f[s] \cap Parts \subseteq live
  BY <1>1, TreeReleased
<1>3. /\ r \in Revisions /\ Committed' = f /\ rev'[r].root = t.root
      /\ \A s \in Revisions \ {r} : rev'[s] = rev[s]
  BY CommitShowsView
<1>4. live' = live
  BY DEF CommitGate, CommitImport
<1>5. Below(f, r) \subseteq Revisions /\ Tree(f, r) \subseteq Revisions
  BY DEF Below, Tree, Reach
<1>6. r \in Below(f, r) => rev'[r].state = "released"
  <2> SUFFICES ASSUME rev[r].state = "released"
               PROVE  rev'[r].state = "released"
    BY <1>2
  <2>1. CASE CommitGate(q)
    <3>1. t.target \in Allowed["released"] /\ t.target \in Gated
      BY <1>1, <2>1 DEF CommitGate, Sound, Checked, Transaction
    <3> QED BY <3>1 DEF Allowed, Gated
  <2>2. CASE CommitImport(q)
    BY <1>1, <1>3, <2>2 DEF CommitImport, Row, Inv, TypeOK
  <2> QED BY <2>1, <2>2
<1>7. \A s \in Below(f, r) : rev'[s].state = "released"
  BY <1>2, <1>3, <1>5, <1>6
<1>8. \A s \in Tree(f, r) : rev'[s].root \in live' /\ f[s] \cap Parts \subseteq live'
  BY <1>2, <1>3, <1>4, <1>5
<1> QED BY <1>3, <1>7, <1>8 DEF AllReleased

\* The steps that change a revision or what it contains outside draft.
LEMMA OtherSteps ==
  ASSUME Inv, [Next]_vars, NEW r \in Revisions,
         ~ \E q \in Requests : CommitGate(q) \/ CommitImport(q)
  PROVE  /\ rev'[r].state # rev[r].state => rev'[r].state \notin Gated
         /\ rev[r].state \in {"absent", "draft"}
              \/ (rev'[r].root = rev[r].root /\ rev'[r].items = rev[r].items)
<1>1. rev[r] \in Row /\ rev \in [Revisions -> Row]
  BY DEF Inv, TypeOK
<1>2. CASE Edit
  <2>1. PICK z \in Revisions :
          \/ \E p \in Offered[z] \cap Parts : CreateRevision(z, p) \/ EditRoot(z, p)
          \/ \E x \in rev[z].items : DeleteItem(z, x)
          \/ \E x \in Offered[z], old \in {{}} \cup {{i} : i \in rev[z].items} : WriteItem(z, old, x)
    BY <1>2 DEF Edit
  <2>2. /\ rev[z].state \in {"absent", "draft"}
        /\ \/ \E p : rev' = [rev EXCEPT ![z].state = "draft", ![z].root = p]
           \/ \E p : rev' = [rev EXCEPT ![z].root = p]
           \/ \E items : rev' = [rev EXCEPT ![z].items = items]
    BY <2>1 DEF CreateRevision, EditRoot, DeleteItem, WriteItem, Editable
  <2>3. /\ r # z => rev'[r] = rev[r]
        /\ rev'[z].state \in {rev[z].state, "draft"}
    BY <1>1, <2>2 DEF Row
  <2> QED BY <2>2, <2>3 DEF Gated
<1>3. ASSUME NEW u \in Users, NEW z \in Revisions, NEW target \in States, Transit(u, z, target)
      PROVE  /\ rev'[r].state # rev[r].state => rev'[r].state \notin Gated
             /\ rev'[r].root = rev[r].root /\ rev'[r].items = rev[r].items
  <2>1. rev'[r] = IF r = z THEN Moved(u, z, target) ELSE rev[r]
    BY <1>1, <1>3 DEF Transit
  <2>2. rev[z] \in Row
    BY <1>1
  <2>3. /\ Moved(u, z, target).state = target /\ Moved(u, z, target).root = rev[z].root
        /\ Moved(u, z, target).items = rev[z].items
    BY <2>2 DEF Moved, Row
  <2> QED BY <1>3, <2>1, <2>3 DEF Transit
<1>4. CASE \/ \E q \in Requests : Gate(q) \/ Import(q)
           \/ \E p \in Parts : PartStep(p)
           \/ UNCHANGED vars
  <2>1. rev' = rev
    BY <1>4 DEF Gate, BeginGate, Visit, LockChild, LockParts, Abort,
                Import, ImportBegin, ImportCheck, ImportWrite, PartStep, vars
  <2> QED BY <2>1
<1> QED BY <1>2, <1>3, <1>4 DEF Next

\* Rows, locks and transactions always have their types, for any trees.
THEOREM BomsAreTyped == Spec => []TypeOK
BY BomInvariant, PTL DEF Inv

\* What a gate accepts is released at the moment it commits, at every depth
\* (validate_bom_tree with its locks): for any trees and any interleaving.
THEOREM GatesSeeReleasedTrees == Spec => GatesSeeReleased
<1>1. ASSUME Inv, [Next]_vars, NEW r \in Revisions,
             rev'[r].state # rev[r].state, rev'[r].state \in Gated
      PROVE  AllReleased(r)'
  <2>1. PICK q \in Requests : CommitGate(q) \/ CommitImport(q)
    BY <1>1, OtherSteps
  <2>2. r = req[q].rev
    BY <1>1, <2>1, CommitShowsView
  <2> QED BY <1>1, <2>1, <2>2, CommitReleased
<1>2. Inv /\ [Next]_vars
        => [\A r \in Revisions :
              rev'[r].state # rev[r].state /\ rev'[r].state \in Gated => AllReleased(r)']_vars
  BY <1>1
<1> QED BY <1>2, BomInvariant, PTL DEF Spec, GatesSeeReleased

\* Rows and roots are frozen outside draft, but for imports, which see their
\* tree released too.
THEOREM RowsFrozen == Spec => FrozenOutsideDraft
<1>1. ASSUME Inv, [Next]_vars, NEW r \in Revisions, rev[r].state \notin {"absent", "draft"},
             <<rev'[r].root, rev'[r].items>> # <<rev[r].root, rev[r].items>>
      PROVE  /\ \E q \in Requests :
                  req[q].step = "passed" /\ req[q].rev = r /\ req[q].target = "import"
             /\ AllReleased(r)'
  <2>1. PICK q \in Requests : CommitGate(q) \/ CommitImport(q)
    BY <1>1, OtherSteps
  <2>2. r = req[q].rev
    BY <1>1, <2>1, CommitShowsView
  <2>3. ~CommitGate(q)
    <3> SUFFICES ASSUME CommitGate(q) PROVE FALSE
      OBVIOUS
    <3>1. rev[r] \in Row /\ rev \in [Revisions -> Row]
      BY <1>1 DEF Inv, TypeOK
    <3> QED BY <1>1, <2>2, <3>1 DEF CommitGate, Moved, Row
  <2> QED BY <1>1, <2>1, <2>2, <2>3, CommitReleased DEF CommitImport
<1>2. Inv /\ [Next]_vars
        => [\A r \in Revisions :
              rev[r].state \notin {"absent", "draft"}
                /\ <<rev'[r].root, rev'[r].items>> # <<rev[r].root, rev[r].items>>
              => /\ \E q \in Requests :
                      req[q].step = "passed" /\ req[q].rev = r /\ req[q].target = "import"
                 /\ AllReleased(r)']_vars
  BY <1>1
<1> QED BY <1>2, BomInvariant, PTL DEF Spec, FrozenOutsideDraft


-----------------------------------------------------------------------------
(* Duties.                                                                 *)

\* What a transition writes into each column.
LEMMA MovedColumns ==
  ASSUME TypeOK, NEW u, NEW z \in Revisions, NEW target
  PROVE  LET row == Moved(u, z, target) IN
         /\ row.state = target
         /\ row.submitter = IF target = "pending_review" THEN u ELSE rev[z].submitter
         /\ row.reviewer =
              IF target = "approved" /\ rev[z].state # "release_failed" THEN u ELSE rev[z].reviewer
         /\ row.publisher =
              IF target \in {"release_pending", "released", "obsolete"} THEN u ELSE rev[z].publisher
<1> DEFINE a == IF target = "pending_review" THEN u ELSE rev[z].submitter
           b == IF target = "approved" /\ rev[z].state # "release_failed" THEN u
                                                                        ELSE rev[z].reviewer
           c == IF target \in {"release_pending", "released", "obsolete"} THEN u
                                                                        ELSE rev[z].publisher
<1>1. rev[z] \in Row
  BY DEF TypeOK
<1>2. Moved(u, z, target) =
        [rev[z] EXCEPT !.state = target, !.submitter = a, !.reviewer = b, !.publisher = c]
  BY DEF Moved, Abandoning
<1> HIDE DEF a, b, c
<1>3. /\ Moved(u, z, target).state = target /\ Moved(u, z, target).submitter = a
      /\ Moved(u, z, target).reviewer = b /\ Moved(u, z, target).publisher = c
  BY <1>1, <1>2 DEF Row
<1> QED BY <1>3 DEF a, b, c

\* A permitted transition by a user keeps the duties separate.
LEMMA MovedDuties ==
  ASSUME TypeOK, Duties, NEW u \in Users, NEW z \in Revisions,
         NEW target \in Allowed[rev[z].state], SeparateDuties(u, z, target),
         rev' = [rev EXCEPT ![z] = Moved(u, z, target)]
  PROVE  Duties'
<1> SUFFICES ASSUME NEW r \in Revisions
             PROVE  IF r \in DOMAIN Library
                    THEN rev'[r].state \in {"released", "obsolete"}
                    ELSE /\ rev'[r].state \in States \ {"draft", "rejected", "obsolete"} =>
                              rev'[r].submitter \in Users
                         /\ rev'[r].state \in {"approved", "release_pending", "release_failed",
                                               "released"} =>
                              rev'[r].reviewer \in Users /\ rev'[r].reviewer # rev'[r].submitter
                         /\ rev'[r].state \in {"release_pending", "release_failed", "released"} =>
                              /\ rev'[r].publisher \in Users
                              /\ rev'[r].publisher \notin {rev'[r].submitter, rev'[r].reviewer}
  BY DEF Duties
<1>1. CASE r # z
  <2>1. rev'[r] = rev[r]
    BY <1>1 DEF TypeOK
  <2> QED BY <2>1 DEF Duties
<1>2. CASE r = z
  <2>1. rev[z] \in Row
    BY DEF TypeOK
  <2>2. /\ rev'[r].state = target
        /\ rev'[r].submitter = IF target = "pending_review" THEN u ELSE rev[z].submitter
        /\ rev'[r].reviewer =
             IF target = "approved" /\ rev[z].state # "release_failed" THEN u ELSE rev[z].reviewer
        /\ rev'[r].publisher =
             IF target \in {"release_pending", "released", "obsolete"} THEN u ELSE rev[z].publisher
    <3>1. rev'[r] = Moved(u, z, target)
      BY <1>2 DEF TypeOK
    <3> QED BY <3>1, MovedColumns
  <2>3. CASE rev[z].state \in {"absent", "draft", "rejected", "obsolete", "released"}
    BY <1>2, <2>1, <2>2, <2>3 DEF Duties, Allowed, States
  <2>4. CASE rev[z].state = "pending_review"
    BY <1>2, <2>1, <2>2, <2>4 DEF Duties, Allowed, States, SeparateDuties, Abandoning
  <2>5. CASE rev[z].state = "approved"
    BY <1>2, <2>1, <2>2, <2>5 DEF Duties, Allowed, States, SeparateDuties, Abandoning
  <2>6. CASE rev[z].state = "release_pending"
    BY <1>2, <2>1, <2>2, <2>6 DEF Duties, Allowed, States, SeparateDuties, Abandoning
  <2>7. CASE rev[z].state = "release_failed"
    BY <1>2, <2>1, <2>2, <2>7 DEF Duties, Allowed, States, SeparateDuties, Abandoning
  <2> QED BY <2>1, <2>3, <2>4, <2>5, <2>6, <2>7 DEF Row, States
<1> QED BY <1>1, <1>2

LEMMA EditsKeepStates ==
  ASSUME TypeOK, Edit \/ (\E q \in Requests : CommitImport(q)), NEW r \in Revisions
  PROVE  /\ \/ rev'[r].state = rev[r].state
            \/ rev[r].state \in {"absent", "draft"} /\ rev'[r].state = "draft"
         /\ rev'[r].submitter = rev[r].submitter /\ rev'[r].reviewer = rev[r].reviewer
         /\ rev'[r].publisher = rev[r].publisher
<1>1. rev \in [Revisions -> Row] /\ rev[r] \in Row
  BY DEF TypeOK
<1>2. CASE Edit
  <2>1. PICK z \in Revisions :
          \/ \E p \in Offered[z] \cap Parts : CreateRevision(z, p) \/ EditRoot(z, p)
          \/ \E x \in rev[z].items : DeleteItem(z, x)
          \/ \E x \in Offered[z], old \in {{}} \cup {{i} : i \in rev[z].items} : WriteItem(z, old, x)
    BY <1>2 DEF Edit
  <2>2. rev[z].state \in {"absent", "draft"}
    BY <2>1 DEF CreateRevision, EditRoot, DeleteItem, WriteItem, Editable
  <2>3. \/ \E p : rev' = [rev EXCEPT ![z].state = "draft", ![z].root = p]
        \/ \E p : rev' = [rev EXCEPT ![z].root = p]
        \/ \E items : rev' = [rev EXCEPT ![z].items = items]
    BY <2>1 DEF CreateRevision, EditRoot, DeleteItem, WriteItem
  <2> QED BY <1>1, <2>2, <2>3 DEF Row
<1>3. ASSUME NEW q \in Requests, CommitImport(q)
      PROVE  /\ rev'[r].state = IF r = req[q].rev /\ rev[r].state = "absent"
                               THEN "draft" ELSE rev[r].state
             /\ rev'[r].submitter = rev[r].submitter /\ rev'[r].reviewer = rev[r].reviewer
             /\ rev'[r].publisher = rev[r].publisher
  <2> DEFINE z == req[q].rev
  <2>1. rev' = [rev EXCEPT ![z] = [rev[z] EXCEPT !.state = IF @ = "absent" THEN "draft" ELSE @,
                                                 !.root = req[q].root, !.items = req[q].items]]
    BY <1>3 DEF CommitImport
  <2>2. CASE r # z
    BY <1>1, <2>1, <2>2
  <2>3. CASE r = z
    BY <1>1, <2>1, <2>3 DEF Row
  <2> QED BY <2>2, <2>3
<1> QED BY <1>2, <1>3

\* The steps that do not touch a revision.
RevKept ==
  \/ \E q \in Requests :
       \/ \E u \in Users, r \in Revisions, target \in Gated : BeginGate(q, u, r, target)
       \/ Visit(q) \/ LockChild(q) \/ LockParts(q) \/ Abort(q)
       \/ \E r \in Revisions : \E root \in Offered[r] \cap Parts :
            \E batch \in SUBSET (Offered[r] \cap Parts) \ {{}} : ImportBegin(q, r, root, batch)
       \/ ImportCheck(q) \/ ImportWrite(q)
  \/ \E p \in Parts : PartStep(p)
  \/ UNCHANGED vars

LEMMA NextCases ==
  ASSUME Inv, [Next]_vars
  PROVE  \/ Edit \/ (\E q \in Requests : CommitImport(q))
         \/ \E u \in Users, z \in Revisions : \E target \in Allowed[rev[z].state] :
              SeparateDuties(u, z, target) /\ rev' = [rev EXCEPT ![z] = Moved(u, z, target)]
         \/ rev' = rev
<1>1. ASSUME NEW u \in Users, NEW z \in Revisions, NEW target \in States, Transit(u, z, target)
      PROVE  /\ target \in Allowed[rev[z].state] /\ SeparateDuties(u, z, target)
             /\ rev' = [rev EXCEPT ![z] = Moved(u, z, target)]
  BY <1>1 DEF Transit, May
<1>2. ASSUME NEW q \in Requests, CommitGate(q)
      PROVE  \E u \in Users, z \in Revisions : \E target \in Allowed[rev[z].state] :
               SeparateDuties(u, z, target) /\ rev' = [rev EXCEPT ![z] = Moved(u, z, target)]
  <2>1. req[q] \in Transaction /\ Walking(q) /\ Checked(q) /\ req[q].target # "import"
    BY <1>2, AtWork DEF CommitGate, Walking, Inv, Sound
  <2> QED BY <1>2, <2>1 DEF CommitGate, Checked, Transaction
<1>3. RevKept => rev' = rev
  BY DEF RevKept, BeginGate, Visit, LockChild, LockParts, Abort, ImportBegin, ImportCheck,
         ImportWrite, PartStep, vars
<1> QED BY <1>1, <1>2, <1>3 DEF Next, Gate, Import, RevKept

\* Submitter, reviewer and publisher of a BOM are three users, whatever was
\* rejected, abandoned or retried on the way (bom_revision_actions).
THEOREM BomDutiesSeparated == Spec => []DutiesSeparated
<1>1. Init => Duties
  BY LibraryAssumption DEF Init, Duties, States
<1>2. Inv /\ Duties /\ [Next]_vars => Duties'
  <2> SUFFICES ASSUME Inv, Duties, [Next]_vars PROVE Duties'
    OBVIOUS
  <2>1. TypeOK
    BY DEF Inv
  <2>2. CASE Edit \/ (\E q \in Requests : CommitImport(q))
    BY <2>1, <2>2, EditsKeepStates DEF Duties
  <2>3. CASE \E u \in Users, z \in Revisions : \E target \in Allowed[rev[z].state] :
               SeparateDuties(u, z, target) /\ rev' = [rev EXCEPT ![z] = Moved(u, z, target)]
    BY <2>1, <2>3, MovedDuties
  <2>4. CASE rev' = rev
    BY <2>4 DEF Duties
  <2> QED BY <2>2, <2>3, <2>4, NextCases
<1>3. Duties => DutiesSeparated
  BY NobodyAssumption DEF Duties, DutiesSeparated, States
<1> QED BY <1>1, <1>2, <1>3, BomInvariant, PTL DEF Spec

-----------------------------------------------------------------------------
(* The workflow implements FourEyes.                                       *)

\* What a step does to one revision, in terms of its approval.
Follows(r) == [Approval(r)!Next]_(Approval(r)!vars)

\* Every permitted transition is a step of the approval, or invisible there.
LEMMA MovedFollows ==
  ASSUME TypeOK, NEW u \in Users, NEW r \in Revisions,
         NEW target \in Allowed[rev[r].state], SeparateDuties(u, r, target),
         rev' = [rev EXCEPT ![r] = Moved(u, r, target)]
  PROVE  Follows(r)
<1> USE DEF Stage, Author, Reviewer, Publisher
<1>1. rev[r].state \in States
  BY DEF TypeOK, Row, Allowed
<1>2. /\ rev'[r].state = target
      /\ rev'[r].submitter = IF target = "pending_review" THEN u ELSE rev[r].submitter
      /\ rev'[r].reviewer =
           IF target = "approved" /\ rev[r].state # "release_failed" THEN u ELSE rev[r].reviewer
      /\ rev'[r].publisher =
           IF target \in {"release_pending", "released", "obsolete"} THEN u ELSE rev[r].publisher
  <2>1. rev'[r] = Moved(u, r, target)
    BY DEF TypeOK
  <2> QED BY <2>1, MovedColumns
<1>3. CASE rev[r].state = "draft"
  <2>1. Approval(r)!Submit(u)
    BY <1>2, <1>3 DEF Approval!Submit, Allowed
  <2> QED BY <2>1 DEF Follows, Approval!Next
<1>4. CASE rev[r].state = "pending_review" /\ target # "approved"
  BY <1>2, <1>4 DEF Follows, Approval!Next, Approval!Return, Approval!Unsigned, Allowed
<1>5. CASE rev[r].state = "rejected"
  BY <1>2, <1>5 DEF Follows, Approval!vars, Allowed
<1>6. CASE rev[r].state = "pending_review" /\ target = "approved"
  <2>1. Approval(r)!Approve(u)
    BY <1>2, <1>6 DEF Approval!Approve, SeparateDuties, Abandoning
  <2> QED BY <2>1 DEF Follows, Approval!Next
<1>7. CASE rev[r].state = "release_failed" /\ target = "approved"
  <2>1. Approval(r)!Abandon
    BY <1>2, <1>7 DEF Approval!Abandon, Abandoning
  <2> QED BY <2>1 DEF Follows, Approval!Next
<1>8. CASE target = "release_pending"
  <2>1. Approval(r)!Publish(u)
    BY <1>1, <1>2, <1>8 DEF Approval!Publish, Approval!MayPublish, SeparateDuties, Allowed, States
  <2> QED BY <2>1 DEF Follows, Approval!Next
<1>9. CASE target = "released"
  <2>1. Approval(r)!Release(u)
    BY <1>1, <1>2, <1>9 DEF Approval!Release, Approval!MayPublish, SeparateDuties, Allowed, States
  <2> QED BY <2>1 DEF Follows, Approval!Next
<1>10. CASE target = "release_failed"
  BY <1>1, <1>2, <1>10 DEF Follows, Approval!vars, Allowed, States
<1>11. CASE target = "obsolete"
  <2>1. Approval(r)!Retire
    BY <1>1, <1>2, <1>11 DEF Approval!Retire, Allowed, States
  <2> QED BY <2>1 DEF Follows, Approval!Next
<1> QED
  BY <1>1, <1>3, <1>4, <1>5, <1>6, <1>7, <1>8, <1>9, <1>10, <1>11 DEF Allowed, States

\* Edits and imports leave the approval alone: a draft stays open, and what was submitted
\* keeps its state and signatures.
LEMMA EditsFollow ==
  ASSUME TypeOK, Edit \/ (\E q \in Requests : CommitImport(q)), NEW r \in Revisions
  PROVE  Follows(r)
<1>1. /\ \/ rev'[r].state = rev[r].state
         \/ rev[r].state \in {"absent", "draft"} /\ rev'[r].state = "draft"
      /\ rev'[r].submitter = rev[r].submitter /\ rev'[r].reviewer = rev[r].reviewer
      /\ rev'[r].publisher = rev[r].publisher
  BY EditsKeepStates
<1> QED
  BY <1>1 DEF Stage, Author, Reviewer, Publisher, Follows, Approval!vars

\* The workflow of every BOM revision implements the abstract approval, with its gates,
\* which check who may act long before they write, and with imports.
THEOREM BomsFollowFourEyes == Spec => IsFourEyes
<1>1. ASSUME Init, NEW r \in Revisions
      PROVE  Approval(r)!Init
  BY <1>1 DEF Init, Stage, Author, Reviewer, Publisher, Approval!Init, Approval!Unsigned
<1>2. ASSUME Inv, [Next]_vars, NEW r \in Revisions
      PROVE  Follows(r)
  <2>1. TypeOK
    BY <1>2 DEF Inv
  <2>2. CASE rev'[r] = rev[r]
    BY <2>2 DEF Author, Reviewer, Publisher, Follows, Approval!vars
  <2>3. ASSUME NEW u \in Users, NEW z \in Revisions, NEW target \in Allowed[rev[z].state],
               SeparateDuties(u, z, target), rev' = [rev EXCEPT ![z] = Moved(u, z, target)]
        PROVE  Follows(r)
    <3>1. CASE r = z
      BY <2>1, <2>3, <3>1, MovedFollows
    <3>2. CASE r # z
      BY <2>1, <2>2, <2>3, <3>2 DEF TypeOK
    <3> QED BY <3>1, <3>2
  <2> QED BY <1>2, <2>1, <2>2, <2>3, NextCases, EditsFollow
<1>3. Inv /\ [Next]_vars =>
        [\A r \in Revisions : [Approval(r)!Next]_(Approval(r)!vars)]_rev
  BY <1>2 DEF Follows
<1>4. Init => \A r \in Revisions : Approval(r)!Init
  BY <1>1
<1> QED BY <1>3, <1>4, BomInvariant, PTL DEF Spec, IsFourEyes

-----------------------------------------------------------------------------
(* Cycles.                                                                 *)

LEMMA ReachClosed ==
  ASSUME NEW f, NEW S \in SUBSET Revisions
  PROVE  /\ S \subseteq Reach(f, S) /\ Reach(f, S) \in SUBSET Revisions
         /\ \A t \in Reach(f, S) : f[t] \cap Revisions \subseteq Reach(f, S)
BY DEF Reach

\* Fewer rows reach less.
LEMMA ReachLess ==
  ASSUME NEW f, NEW g, NEW S \in SUBSET Revisions, NEW U \in SUBSET S,
         \A t \in Reach(f, S) : g[t] \cap Revisions \subseteq f[t]
  PROVE  Reach(g, U) \subseteq Reach(f, S)
<1> DEFINE T == Reach(f, S)
<1>1. T \in SUBSET Revisions /\ U \subseteq T /\ \A t \in T : g[t] \cap Revisions \subseteq T
  BY ReachClosed
<1> HIDE DEF T
<1>2. Reach(g, U) \subseteq T
  BY <1>1, ReachWithin
<1> QED BY <1>2 DEF T

\* A draft is in no tree but its own.
LEMMA BelowPublished ==
  ASSUME RefersToPublished, NEW r \in Revisions
  PROVE  Below(Committed, r) \subseteq Published
<1>1. Published \in SUBSET Revisions /\ Committed[r] \cap Revisions \subseteq Published
      /\ \A t \in Published : Committed[t] \cap Revisions \subseteq Published
  BY DEF Published, RefersToPublished, Committed
<1> QED BY <1>1, ReachWithin DEF Below

\* Only a draft can get a child BOM.
LEMMA ChildrenKept ==
  ASSUME Inv, [Next]_vars, NEW r \in Revisions
  PROVE  \/ rev'[r].items \cap Revisions \subseteq rev[r].items
         \/ \E old, x : WriteItem(r, old, x)
<1>1. rev \in [Revisions -> Row] /\ rev[r] \in Row
  BY DEF Inv, TypeOK
<1>2. CASE Edit
  <2>1. PICK z \in Revisions :
          \/ \E p \in Offered[z] \cap Parts : CreateRevision(z, p) \/ EditRoot(z, p)
          \/ \E x \in rev[z].items : DeleteItem(z, x)
          \/ \E x \in Offered[z], old \in {{}} \cup {{i} : i \in rev[z].items} : WriteItem(z, old, x)
    BY <1>2 DEF Edit
  <2>2. CASE z # r
    BY <1>1, <2>1, <2>2 DEF CreateRevision, EditRoot, DeleteItem, WriteItem
  <2>3. CASE z = r
    BY <1>1, <2>1, <2>3 DEF CreateRevision, EditRoot, DeleteItem, Row
  <2> QED BY <2>2, <2>3
<1>3. ASSUME NEW q \in Requests, CommitImport(q)
      PROVE  rev'[r].items \cap Revisions \subseteq rev[r].items
  <2>1. req[q] \in Transaction /\ Walking(q) /\ Checked(q) /\ req[q].target = "import"
    BY <1>3, AtWork DEF CommitImport, Walking, Inv, Sound
  <2>2. rev'[r].items = IF r = req[q].rev THEN req[q].items ELSE rev[r].items
    BY <1>1, <1>3 DEF CommitImport, Row
  <2> QED BY <2>1, <2>2 DEF Checked
<1>4. ASSUME NEW u \in Users, NEW z \in Revisions, NEW target,
             rev' = [rev EXCEPT ![z] = Moved(u, z, target)]
      PROVE  rev'[r].items = rev[r].items
  BY <1>1, <1>4 DEF Moved, Row
<1> QED BY <1>2, <1>3, <1>4, NextCases

\* What was published stays published.
LEMMA PublishedGrows ==
  ASSUME Inv, [Next]_vars
  PROVE  Published \subseteq Published'
<1>1. TypeOK
  BY DEF Inv
<1>2. CASE Edit \/ (\E q \in Requests : CommitImport(q))
  BY <1>1, <1>2, EditsKeepStates DEF Published
<1>3. ASSUME NEW u \in Users, NEW z \in Revisions, NEW target \in Allowed[rev[z].state],
             rev' = [rev EXCEPT ![z] = Moved(u, z, target)]
      PROVE  Published \subseteq Published'
  <2>1. rev[z] \in Row
    BY <1>1 DEF TypeOK
  <2>2. Moved(u, z, target).state = target
    BY <2>1 DEF Moved, Row
  <2>3. rev[z].state \in {"released", "obsolete"} => target = "obsolete"
    BY DEF Allowed
  <2> QED BY <1>1, <1>3, <2>2, <2>3 DEF Published, TypeOK
<1>4. CASE rev' = rev
  BY <1>4 DEF Published
<1> QED BY <1>2, <1>3, <1>4, NextCases

LEMMA RefersKept ==
  ASSUME Inv, RefersToPublished, [Next]_vars
  PROVE  RefersToPublished'
<1> SUFFICES ASSUME NEW r \in Revisions
             PROVE  rev'[r].items \cap Revisions \subseteq Published'
  BY DEF RefersToPublished
<1>1. CASE rev'[r].items \cap Revisions \subseteq rev[r].items
  BY <1>1, PublishedGrows DEF RefersToPublished
<1>2. ASSUME NEW old, NEW x, WriteItem(r, old, x)
      PROVE  rev'[r].items \cap Revisions \subseteq Published'
  <2>1. rev'[r].items = (rev[r].items \ old) \cup {x}
    BY <1>2 DEF WriteItem, Inv, TypeOK, Row
  <2>2. x \in Revisions => x \in Published
    BY <1>2, ThingsAssumption DEF WriteItem, ValidItem, IsReleased, Published
  <2> QED BY <2>1, <2>2, PublishedGrows DEF RefersToPublished
<1> QED BY <1>1, <1>2, ChildrenKept

\* No BOM contains itself at any depth (the cycle checks of validate_bom_item
\* and validate_bom_tree), for any number of revisions.
THEOREM NoCycles == Spec => []NoBomInItself
<1> DEFINE GraphInv == RefersToPublished /\ NoBomInItself
<1>1. Init => GraphInv
  <2> SUFFICES ASSUME Init PROVE GraphInv
    OBVIOUS
  <2>1. Committed = [r \in Revisions |-> IF r \in DOMAIN Library THEN Library[r].items ELSE {}]
    BY DEF Init, Committed
  <2>2. NoBomInItself
    BY <2>1, LibraryAssumption DEF NoBomInItself
  <2>3. RefersToPublished
    BY LibraryAssumption, ThingsAssumption DEF Init, RefersToPublished, Published
  <2> QED BY <2>2, <2>3
<1>2. Inv /\ GraphInv /\ [Next]_vars => GraphInv'
  <2> SUFFICES ASSUME Inv, GraphInv, [Next]_vars PROVE GraphInv'
    OBVIOUS
  <2>1. RefersToPublished'
    BY RefersKept
  <2>2. ASSUME NEW z \in Revisions, NEW old, NEW x, WriteItem(z, old, x)
        PROVE  \A r \in Revisions : \A s \in Below(Committed', r) : BomOf[s] # BomOf[r]
    <3> DEFINE g == Committed'
    <3>1. g = [Committed EXCEPT ![z] = (rev[z].items \ old) \cup {x}]
      BY <2>2 DEF WriteItem, Committed, Inv, TypeOK, Row
    <3>2. CycleFree(g, z)
      BY <2>2, <3>1 DEF WriteItem
    <3>3. z \in Tree(g, z)
      BY ReachClosed DEF Tree
    <3>4. \A s \in Below(g, z) : BomOf[s] # BomOf[z]
      BY <3>2, <3>3 DEF CycleFree, Repeats
    <3>5. z \notin Published
      BY <2>2 DEF WriteItem, Editable, Published
    <3>6. ASSUME NEW r \in Revisions, r # z
          PROVE  Below(g, r) \subseteq Below(Committed, r)
      <4>1. g[r] = Committed[r] /\ \A t \in Revisions \ {z} : g[t] = Committed[t]
        BY <3>1, <3>6 DEF Committed
      <4>2. z \notin Reach(Committed, Committed[r] \cap Revisions)
        BY <3>5, BelowPublished DEF Below
      <4>3. \A t \in Reach(Committed, Committed[r] \cap Revisions) :
              g[t] \cap Revisions \subseteq Committed[t]
        BY <4>1, <4>2 DEF Reach
      <4> HIDE DEF g
      <4> QED BY <4>1, <4>3, ReachLess DEF Below
    <3> QED BY <3>4, <3>6 DEF NoBomInItself
  <2>3. ASSUME \A r \in Revisions : rev'[r].items \cap Revisions \subseteq rev[r].items
        PROVE  \A r \in Revisions : \A s \in Below(Committed', r) : BomOf[s] # BomOf[r]
    <3> DEFINE g == Committed'
    <3>1. \A t \in Revisions : g[t] \cap Revisions \subseteq Committed[t]
      BY <2>3 DEF Committed
    <3>2. ASSUME NEW r \in Revisions
          PROVE  Below(g, r) \subseteq Below(Committed, r)
      <4>1. /\ Committed[r] \cap Revisions \in SUBSET Revisions
            /\ g[r] \cap Revisions \in SUBSET (Committed[r] \cap Revisions)
            /\ \A t \in Reach(Committed, Committed[r] \cap Revisions) :
                 g[t] \cap Revisions \subseteq Committed[t]
        BY <3>1 DEF Reach
      <4> HIDE DEF g
      <4> QED BY <4>1, ReachLess DEF Below
    <3> QED BY <3>2 DEF NoBomInItself
  <2>4. NoBomInItself'
    BY <2>2, <2>3, ChildrenKept DEF NoBomInItself
  <2> QED BY <2>1, <2>4
<1> QED BY <1>1, <1>2, BomInvariant, PTL DEF Spec


=============================================================================
