---------------------------- MODULE BomLifecycle ----------------------------
(***************************************************************************)
(* BOM revisions, their rows, and the gate that every submission,          *)
(* publication, release and import of a BOM passes (validate_bom_tree of   *)
(* plm/bom_services.py).  A row refers to a part revision or to a revision *)
(* of another BOM, so revisions form trees.                                *)
(*                                                                         *)
(* A gate walks the tree below its revision one node at a time, locking    *)
(* what it finds, while other requests submit, release, retire, edit and   *)
(* import the BOMs and parts it has not reached yet.  Edits and the        *)
(* transitions without a gate are one transaction on one locked row each,  *)
(* and one step here.                                                      *)
(*                                                                         *)
(* Row versions are left out: every If-Match is compared under the row     *)
(* lock, so a stale page only has its request refused.  Quantities, units, *)
(* positions, alternative groups, budgets and attachments only make a      *)
(* request fail, which Abort covers.                                       *)
(***************************************************************************)
EXTENDS Naturals, FiniteSets

CONSTANTS
  Users, Role,  \* who may act, and the role of each
  Boms,
  Revisions,    \* BOM revisions there is room for
  BomOf,        \* the BOM of each revision
  Library,      \* what was published before: some revisions, with root and rows
  Parts,        \* part revisions
  Requests,     \* gated requests and imports at work at a time
  MaxRows,      \* bound: rows of one revision (MAX_ROWS of the code)
  Offered,      \* bound: Offered[r]: the parts and revisions requests name for r
  Nobody

Roles == {"engineer", "reviewer", "publisher", "admin"}

ASSUME UsersAssumption == Role \in [Users -> Roles]
ASSUME BomsAssumption == BomOf \in [Revisions -> Boms]
ASSUME PartsAssumption == Parts # {}
ASSUME OfferedAssumption == Offered \in [Revisions -> SUBSET (Parts \cup Revisions)]
ASSUME NobodyAssumption == Nobody \notin Users /\ Nobody \notin Requests
ASSUME ThingsAssumption ==
  Parts \cap Revisions = {} /\ Parts \cap Boms = {} /\ Boms \cap Revisions = {}

VARIABLES
  rev,    \* rev[r]: the row of a BOM revision, with its item rows
  live,   \* the part revisions that are released, neither before nor obsolete
  owner,  \* owner[x]: the request that has locked the row of x, or Nobody
  req     \* req[q]: the transaction of request q, or Idle

vars == <<rev, live, owner, req>>

Things == Parts \cup Revisions
Lockable == Things \cup Boms
Actors == Users \cup {Nobody}
States ==
  {"draft", "pending_review", "approved", "rejected", "release_pending", "release_failed",
   "released", "obsolete"}
Gated == {"pending_review", "release_pending", "released"}

\* "absent": no such row yet.
Row ==
  [state : States \cup {"absent"}, root : Parts, items : SUBSET Things,
   submitter : Actors, reviewer : Actors, publisher : Actors]

\* A node of a tree, with the revisions on the way to it.
Nodes == [rev : Revisions, path : SUBSET Revisions]

Idle == [step |-> "idle"]
Transaction ==
  [step : {"import", "checked", "walk", "passed"}, user : Actors, rev : Revisions,
   target : Gated \cup {"import"}, root : Parts, items : SUBSET Things,
   todo : SUBSET Nodes, pending : SUBSET Nodes, seen : SUBSET Revisions, parts : SUBSET Parts]

TypeOK ==
  /\ rev \in [Revisions -> Row]
  /\ live \subseteq Parts
  /\ owner \in [Lockable -> Requests \cup {Nobody}]
  /\ req \in [Requests -> Transaction \cup {Idle}]

Init ==
  /\ rev = [r \in Revisions |->
              [state |-> IF r \in DOMAIN Library THEN "released" ELSE "absent",
               root |-> IF r \in DOMAIN Library THEN Library[r].root
                                               ELSE CHOOSE p \in Parts : TRUE,
               items |-> IF r \in DOMAIN Library THEN Library[r].items ELSE {},
               submitter |-> Nobody, reviewer |-> Nobody, publisher |-> Nobody]]
  /\ live = Parts
  /\ owner = [x \in Lockable |-> Nobody]
  /\ req = [q \in Requests |-> Idle]
-----------------------------------------------------------------------------
(* Trees.                                                                  *)

\* The revisions that are reached from those of S along the rows of f.
Reach(f, S) ==
  {r \in Revisions :
     \A T \in SUBSET Revisions :
       S \subseteq T /\ (\A t \in T : f[t] \cap Revisions \subseteq T) => r \in T}

Tree(f, r) == Reach(f, {r})
Below(f, r) == Reach(f, f[r] \cap Revisions)

\* The rows a transaction sees: its own writes, and what is committed.
Committed == [r \in Revisions |-> rev[r].items]
View(q) == [Committed EXCEPT ![req[q].rev] = req[q].items]

IsReleased(x) == IF x \in Parts THEN x \in live ELSE rev[x].state = "released"

\* Mutant: the path is compared by revision only.
Repeats_Revision(c, path) == c \in path

\* The BOM of revision c is already on the path: a BOM that contains itself.
Repeats(c, path) == \E a \in path : c = a \/ BomOf[c] = BomOf[a]

\* No path of the tree of r along f meets a BOM twice.
CycleFree(f, r) == \A a \in Tree(f, r) : \A c \in Below(f, a) : ~Repeats(c, {a})

\* What was published before is closed, and no BOM of it contains itself.
ASSUME LibraryAssumption ==
  LET f == [r \in Revisions |-> IF r \in DOMAIN Library THEN Library[r].items ELSE {}]
  IN  /\ DOMAIN Library \subseteq Revisions
      /\ \A r \in DOMAIN Library :
           Library[r].root \in Parts /\ Library[r].items \subseteq Parts \cup DOMAIN Library
      /\ \A r \in Revisions : \A s \in Below(f, r) : BomOf[s] # BomOf[r]

Free(q, S) == \A x \in S : owner[x] \in {q, Nobody}
Take(q, S) == owner' = [x \in Lockable |-> IF x \in S THEN q ELSE owner[x]]
Release(q) == owner' = [x \in Lockable |-> IF owner[x] = q THEN Nobody ELSE owner[x]]

-----------------------------------------------------------------------------
(* Edits: the row of the revision is locked, and must be a draft.          *)

\* Mutant: the state of the locked row is not checked.
Editable_AnyState(r) == owner[r] = Nobody /\ rev[r].state # "absent"

Editable(r) == owner[r] = Nobody /\ rev[r].state = "draft"

\* BOMViewSet.create_revision
CreateRevision(r, p) ==
  /\ rev[r].state = "absent"
  /\ owner[r] = Nobody
  /\ rev' = [rev EXCEPT ![r].state = "draft", ![r].root = p]
  /\ UNCHANGED <<live, owner, req>>

\* BOMRevisionViewSet.partial_update
EditRoot(r, p) ==
  /\ Editable(r)
  /\ rev' = [rev EXCEPT ![r].root = p]
  /\ UNCHANGED <<live, owner, req>>

\* validate_bom_item: a row of r that refers to x, in place of those in "old".
ValidItem(r, old, x) ==
  /\ x \in Revisions => ~Repeats(x, {r})
  /\ IsReleased(x)
  /\ Cardinality(rev[r].items \ old) < MaxRows

\* BOMItemViewSet.create, where "old" is empty, and .partial_update.
WriteItem(r, old, x) ==
  /\ Editable(r)
  /\ ValidItem(r, old, x)
  /\ LET items == (rev[r].items \ old) \cup {x}
     IN  /\ CycleFree([Committed EXCEPT ![r] = items], r)
         /\ rev' = [rev EXCEPT ![r].items = items]
  /\ UNCHANGED <<live, owner, req>>

\* BOMItemViewSet.actions
DeleteItem(r, x) ==
  /\ Editable(r)
  /\ rev' = [rev EXCEPT ![r].items = @ \ {x}]
  /\ UNCHANGED <<live, owner, req>>

Edit ==
  \E r \in Revisions :
    \/ \E p \in Offered[r] \cap Parts : CreateRevision(r, p) \/ EditRoot(r, p)
    \/ \E x \in rev[r].items : DeleteItem(r, x)
    \/ \E x \in Offered[r], old \in {{}} \cup {{i} : i \in rev[r].items} : WriteItem(r, old, x)

-----------------------------------------------------------------------------
(* bom_revision_actions.                                                   *)

Allowed ==
  [absent |-> {},
   draft |-> {"pending_review"},
   pending_review |-> {"approved", "rejected", "draft"},
   rejected |-> {"draft"},
   approved |-> {"release_pending"},
   release_pending |-> {"released", "release_failed"},
   release_failed |-> {"release_pending", "approved"},
   released |-> {"obsolete"},
   obsolete |-> {}]

RoleTargets ==
  [engineer |-> {"pending_review", "draft"},
   reviewer |-> {"approved", "rejected"},
   publisher |-> {"release_pending", "released", "release_failed", "obsolete"},
   admin |-> States]

Abandoning(r, target) == rev[r].state = "release_failed" /\ target = "approved"

Permitted(u, r, target) ==
  IF Abandoning(r, target)
  THEN Role[u] \in {"publisher", "admin"}
  ELSE target \in RoleTargets[Role[u]]

\* Mutant: a reviewer may publish what they reviewed.
SeparateDuties_ReviewerPublishes(u, r, target) ==
  /\ target = "draft" /\ rev[r].state = "pending_review" => rev[r].submitter = u
  /\ target \in {"approved", "rejected"} /\ ~Abandoning(r, target) => rev[r].submitter # u
  /\ target \in {"release_pending", "released"} \/ Abandoning(r, target) => u # rev[r].submitter

\* Who may not decide: the submitter, and for a publication the reviewer too.
SeparateDuties(u, r, target) ==
  /\ target = "draft" /\ rev[r].state = "pending_review" => rev[r].submitter = u
  /\ target \in {"approved", "rejected"} /\ ~Abandoning(r, target) => rev[r].submitter # u
  /\ target \in {"release_pending", "released"} \/ Abandoning(r, target)
       => u \notin {rev[r].submitter, rev[r].reviewer}

May(u, r, target) ==
  /\ owner[r] = Nobody
  /\ Permitted(u, r, target)
  /\ target \in Allowed[rev[r].state]
  /\ SeparateDuties(u, r, target)

\* The row after a transition by u.
Moved(u, r, target) ==
  [rev[r] EXCEPT
     !.state = target,
     !.submitter = IF target = "pending_review" THEN u ELSE @,
     !.reviewer = IF target = "approved" /\ ~Abandoning(r, target) THEN u ELSE @,
     !.publisher = IF target \in {"release_pending", "released", "obsolete"} THEN u ELSE @]

\* A transition without a gate.
Transit(u, r, target) ==
  /\ target \notin Gated
  /\ May(u, r, target)
  /\ rev' = [rev EXCEPT ![r] = Moved(u, r, target)]
  /\ UNCHANGED <<live, owner, req>>

\* The transaction of a request that enters the gate at revision r.
Walk(u, r, target, root, items) ==
  [step |-> "walk", user |-> u, rev |-> r, target |-> target, root |-> root, items |-> items,
   todo |-> {[rev |-> r, path |-> {r}]}, pending |-> {}, seen |-> {}, parts |-> {root}]

\* A gated transition locks the row and starts to walk.
BeginGate(q, u, r, target) ==
  /\ req[q] = Idle
  /\ target \in Gated
  /\ May(u, r, target)
  /\ Take(q, {r})
  /\ req' = [req EXCEPT ![q] = Walk(u, r, target, rev[r].root, rev[r].items)]
  /\ UNCHANGED <<rev, live>>

CommitGate(q) ==
  /\ req[q].step = "passed"
  /\ req[q].target # "import"
  /\ rev' = [rev EXCEPT ![req[q].rev] = Moved(req[q].user, req[q].rev, req[q].target)]
  /\ Release(q)
  /\ req' = [req EXCEPT ![q] = Idle]
  /\ UNCHANGED live

-----------------------------------------------------------------------------
(* validate_bom_tree(lifecycle_gate=True).                                 *)

\* Read the rows of a node.  Their states are those of this one query.
Visit(q) ==
  /\ req[q].step = "walk"
  /\ req[q].pending = {}
  /\ \E n \in req[q].todo :
       LET items == View(q)[n.rev]
           children == items \cap Revisions
       IN  /\ \A x \in items : IsReleased(x)
           /\ \A c \in children : ~Repeats(c, n.path)
           /\ req' = [req EXCEPT
                        ![q].todo = @ \ {n},
                        ![q].pending = {[rev |-> c, path |-> n.path \cup {c}] : c \in children},
                        ![q].seen = @ \cup {n.rev},
                        ![q].parts = @ \cup (items \cap Parts)]
  /\ UNCHANGED <<rev, live, owner>>

\* What the query for a child revision locks: select_related brings in its BOM
\* and its root.
ChildLocks(r) == {r, BomOf[r], rev[r].root}

\* Lock a child revision, its BOM and its root, and look at it again.
LockChild(q) ==
  /\ req[q].step = "walk"
  /\ \E n \in req[q].pending :
       /\ Free(q, ChildLocks(n.rev))
       /\ Take(q, ChildLocks(n.rev))
       /\ IsReleased(n.rev)
       /\ req' = [req EXCEPT
                    ![q].pending = @ \ {n},
                    ![q].todo = @ \cup {n},
                    ![q].parts = @ \cup {rev[n.rev].root}]
  /\ UNCHANGED <<rev, live>>

\* Mutant: the parts are looked at again, but not locked.
LockParts_Unlocked(q) ==
  /\ req[q].step = "walk"
  /\ req[q].todo = {}
  /\ req[q].pending = {}
  /\ \A p \in req[q].parts : IsReleased(p)
  /\ req' = [req EXCEPT ![q].step = "passed"]
  /\ UNCHANGED <<rev, live, owner>>

\* Lock all parts of the tree and look at them again.
LockParts(q) ==
  /\ req[q].step = "walk"
  /\ req[q].todo = {}
  /\ req[q].pending = {}
  /\ Free(q, req[q].parts)
  /\ Take(q, req[q].parts)
  /\ \A p \in req[q].parts : IsReleased(p)
  /\ req' = [req EXCEPT ![q].step = "passed"]
  /\ UNCHANGED <<rev, live>>

\* A check fails, the database picks the transaction as a deadlock victim, or
\* the process dies: the transaction is rolled back.
Abort(q) ==
  /\ req[q] # Idle
  /\ Release(q)
  /\ req' = [req EXCEPT ![q] = Idle]
  /\ UNCHANGED <<rev, live>>

-----------------------------------------------------------------------------
(* _commit_boms of plm/jobs.py: the rows of one imported revision.         *)

\* No revision of the BOM may have been published.  Nothing is locked yet.
ImportBegin(q, r, root, batch) ==
  /\ req[q] = Idle
  /\ \A s \in Revisions : BomOf[s] = BomOf[r] => rev[s].state \notin {"released", "obsolete"}
  /\ req' = [req EXCEPT ![q] = [Walk(Nobody, r, "import", root, batch) EXCEPT !.step = "import"]]
  /\ UNCHANGED <<rev, live, owner>>

\* Save the BOM, which locks it, and check that the revision is new or a draft.
\* The row of a new one is inserted, so that no other can be it.
ImportCheck(q) ==
  /\ req[q].step = "import"
  /\ \/ /\ rev[req[q].rev].state = "draft"
        /\ Free(q, {BomOf[req[q].rev]})
        /\ Take(q, {BomOf[req[q].rev]})
     \/ /\ rev[req[q].rev].state = "absent"
        /\ Free(q, {BomOf[req[q].rev], req[q].rev})
        /\ Take(q, {BomOf[req[q].rev], req[q].rev})
  /\ req' = [req EXCEPT ![q].step = "checked"]
  /\ UNCHANGED <<rev, live>>

\* Save the revision, which locks it, and its rows: an imported line takes the
\* part of an old line with its number, or is new.
ImportWrite(q) ==
  /\ req[q].step = "checked"
  /\ Free(q, {req[q].rev})
  /\ Take(q, {req[q].rev})
  /\ \E kept \in SUBSET rev[req[q].rev].items :
       /\ rev[req[q].rev].items \cap Revisions \subseteq kept
       /\ Cardinality(kept \cup req[q].items) <= MaxRows
       /\ req' = [req EXCEPT ![q].items = @ \cup kept, ![q].step = "walk"]
  /\ UNCHANGED <<rev, live>>

CommitImport(q) ==
  LET r == req[q].rev
  IN  /\ req[q].step = "passed"
      /\ req[q].target = "import"
      /\ rev' = [rev EXCEPT ![r].state = IF @ = "absent" THEN "draft" ELSE @,
                            ![r].root = req[q].root, ![r].items = req[q].items]
      /\ Release(q)
      /\ req' = [req EXCEPT ![q] = Idle]
      /\ UNCHANGED live

-----------------------------------------------------------------------------
\* The workflow of a part revision: it writes the row, and waits for its lock.  (Here a
\* part may be released again and again, which is more than PartLifecycle allows.)
PartStep(p) ==
  /\ owner[p] = Nobody
  /\ live' = IF p \in live THEN live \ {p} ELSE live \cup {p}
  /\ UNCHANGED <<rev, owner, req>>

Gate(q) ==
  \/ \E u \in Users, r \in Revisions, target \in Gated : BeginGate(q, u, r, target)
  \/ Visit(q)
  \/ LockChild(q)
  \/ LockParts(q)
  \/ CommitGate(q)
  \/ Abort(q)

Import(q) ==
  \/ \E r \in Revisions : \E root \in Offered[r] \cap Parts :
       \E batch \in SUBSET (Offered[r] \cap Parts) \ {{}} : ImportBegin(q, r, root, batch)
  \/ ImportCheck(q)
  \/ ImportWrite(q)
  \/ CommitImport(q)

Next ==
  \/ Edit
  \/ \E u \in Users, r \in Revisions, target \in States : Transit(u, r, target)
  \/ \E q \in Requests : Gate(q) \/ Import(q)
  \/ \E p \in Parts : PartStep(p)

Spec == Init /\ [][Next]_vars
-----------------------------------------------------------------------------
(* Properties.                                                             *)

\* The revisions below r, their parts and its own are all released.
AllReleased(r) ==
  LET f == Committed
  IN  /\ \A s \in Below(f, r) : rev[s].state = "released"
      /\ \A s \in Tree(f, r) :
           rev[s].root \in live /\ f[s] \cap Parts \subseteq live

\* A revision is submitted, published or released only at a moment when
\* everything in its tree is released, at every depth, although the gate read
\* the tree in many steps while parts and BOMs were being retired.
GatesSeeReleased ==
  [][\A r \in Revisions :
       rev'[r].state # rev[r].state /\ rev'[r].state \in Gated => AllReleased(r)']_vars

\* No BOM contains itself, directly, through a sibling revision or at any depth
\* (the cycle checks of validate_bom_item and validate_bom_tree).
NoBomInItself ==
  \A r \in Revisions : \A s \in Below(Committed, r) : BomOf[s] # BomOf[r]

\* From publication to release three different users submitted, reviewed and
\* published, whatever was rejected, withdrawn, abandoned or retried before.
DutiesSeparated ==
  \A r \in Revisions \ DOMAIN Library :
    rev[r].state \in {"release_pending", "release_failed", "released"} =>
      /\ Nobody \notin {rev[r].submitter, rev[r].reviewer, rev[r].publisher}
      /\ rev[r].reviewer # rev[r].submitter
      /\ rev[r].publisher \notin {rev[r].submitter, rev[r].reviewer}

\* What a BOM revision contains changes outside its draft state only by an
\* import, and then everything it contains is released.
FrozenOutsideDraft ==
  [][\A r \in Revisions :
       rev[r].state \notin {"absent", "draft"}
         /\ <<rev'[r].root, rev'[r].items>> # <<rev[r].root, rev[r].items>>
       => /\ \E q \in Requests : req[q].step = "passed" /\ req[q].rev = r /\ req[q].target = "import"
          /\ AllReleased(r)']_vars

-----------------------------------------------------------------------------
(* The abstract approval.                                                  *)

Stage ==
  [absent |-> "open", draft |-> "open", rejected |-> "open", pending_review |-> "submitted",
   approved |-> "approved", release_pending |-> "publishing", release_failed |-> "publishing",
   released |-> "published", obsolete |-> "retired"]

\* Whom the columns of a row say to have taken the steps that count.  A draft may still
\* have those of earlier rounds, and retiring a revision overwrites its publisher.
Author(row) == IF Stage[row.state] = "open" THEN Nobody ELSE row.submitter
Reviewer(row) ==
  IF Stage[row.state] \in {"open", "submitted"} THEN Nobody ELSE row.reviewer
Publisher(row) ==
  IF Stage[row.state] \in {"publishing", "published"} THEN row.publisher ELSE Nobody

Approval(r) == INSTANCE FourEyes WITH
  People <- Users, Nobody <- Nobody, Archived <- r \in DOMAIN Library,
  stage <- Stage[rev[r].state], author <- Author(rev[r]),
  reviewer <- Reviewer(rev[r]), publisher <- Publisher(rev[r])

\* BOM revisions go through the same approval as part revisions, although a gate takes many
\* steps between the check of who may act and the write, and imports write in between.
IsFourEyes ==
  /\ \A r \in Revisions : Approval(r)!Init
  /\ [][\A r \in Revisions : [Approval(r)!Next]_(Approval(r)!vars)]_rev
=============================================================================
