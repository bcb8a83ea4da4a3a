---------------------------- MODULE SessionSecurity ----------------------------
(***************************************************************************)
(* Accounts and sessions: login_view, users and admin_user_detail of       *)
(* plm/auth_views.py, assign_role of plm/roles.py, shadow_user of          *)
(* plm/auth.py, and SessionSecurityMiddleware.                             *)
(*                                                                         *)
(* A login holds no lock: it reads the account's counters, has the         *)
(* password checked, resets the counters and reads the account again, and  *)
(* only then makes a session that carries permission_version and nonce as  *)
(* it read them.  An administrator's change locks the account and is one   *)
(* action.  A request is let in by the middleware and acts later.  The     *)
(* cache's counter of failures is left out: it can only refuse a login.    *)
(***************************************************************************)
EXTENDS Naturals

CONSTANTS
  Users,       \* accounts
  Superusers,  \* those with is_superuser
  Guessed,     \* bound: the accounts to which wrong passwords are tried
  Changed,     \* bound: the accounts that administrators change
  Grantable,   \* bound: the roles that they hand out
  Logins,      \* login requests at work at a time
  Requests,    \* other requests at work at a time
  Sessions,    \* session keys
  NoUser,      \* the user of a page that is closed
  MaxFailures, \* failed attempts before an account is locked (5 in the code)
  MaxVersion,  \* bound: permission_version
  MaxFailed    \* bound: failed_attempts

Roles == {"viewer", "engineer", "reviewer", "publisher", "auditor", "sysadmin", "admin"}

ASSUME UsersAssumption == (Superusers \cup Guessed \cup Changed) \subseteq Users /\ NoUser \notin Users
ASSUME GrantableAssumption == Grantable \subseteq Roles
ASSUME FailuresAssumption == MaxFailures \in Nat \ {0}
ASSUME BoundsAssumption == MaxVersion \in Nat /\ MaxFailed \in Nat

VARIABLES
  account, \* account[u]: the User and its UserSecurity row
  login,   \* login[p]: a login in progress, or Idle
  session, \* session[s]: the session stored under key s
  request, \* request[r]: a request the middleware let in, or Idle
  page,    \* the account an administrator has looked at, as it was
  past     \* past[u]: history, see SecurityInit

securityVars == <<account, login, session, request, page, past>>

Administrators == {"sysadmin", "admin"}
NoRole == "none"

\* "row" says that the UserSecurity row exists, "locked" where locked_until lies.
Account == [active : BOOLEAN, role : Roles \cup {NoRole}, row : BOOLEAN,
            version : Nat, nonce : Nat, revoked : BOOLEAN,
            failed : Nat, locked : {"never", "future", "past"}]
SessionData == [user : Users, version : Nat, nonce : Nat, standing : BOOLEAN, endings : Nat]
Attempt ==
  [step : {"started"}, user : Users, failed : Nat, locked : {"never", "past"}, row : BOOLEAN]
    \cup [step : {"checked"}, user : Users]
    \cup [step : {"reset"}, data : SessionData]
Rights == [active : BOOLEAN, role : Roles \cup {NoRole}, revoked : BOOLEAN]
RightsOf(a) == [active |-> a.active, role |-> a.role, revoked |-> a.revoked]
Idle == [step |-> "idle"]
Unused == [state |-> "unused"]
Ended == [state |-> "ended"]
Past == [endings : Nat, wrong : Nat, since : Nat, blurred : BOOLEAN]
InProgress == [session : Sessions, user : Users, role : Roles \cup {NoRole}]
Closed == [user |-> NoUser]

SecurityTypeOK ==
  /\ account \in [Users -> Account]
  /\ login \in [Logins -> Attempt \cup {Idle}]
  /\ session \in [Sessions -> SessionData \cup {Unused, Ended}]
  /\ request \in [Requests -> InProgress \cup {Idle}]
  /\ page \in [user : Users, version : Nat, rights : Rights] \cup {Closed}
  /\ past \in [Users -> Past]

SecurityInit ==
  /\ account = [u \in Users |->
       [active |-> TRUE, role |-> NoRole, row |-> FALSE, version |-> 1, nonce |-> 1,
        revoked |-> FALSE, failed |-> 0, locked |-> "never"]]
  /\ login = [p \in Logins |-> Idle]
  /\ session = [s \in Sessions |-> Unused]
  /\ request = [r \in Requests |-> Idle]
  /\ page = Closed
  \* endings: disablings and revocations so far; wrong: wrong passwords so far (as far as
  \* MaxFailures); blurred: since the last success a login overlapped with another, or a
  \* wrong password met no row; since: until it was blurred, those since the last success.
  /\ past = [u \in Users |->
       [endings |-> 0, wrong |-> 0, since |-> 0, blurred |-> FALSE]]

-----------------------------------------------------------------------------
(* Login.                                                                  *)

LogsIn(p, u) == login[p].step \in {"started", "checked"} /\ login[p].user = u

\* Mutant: the lock is not looked at.
MayTry_Unchecked(u) == TRUE

MayTry(u) == account[u].locked # "future"

\* A login to u overlaps with p's.
Overlaps(p, u) == u \in Guessed /\ \E q \in Logins \ {p} : LogsIn(q, u)

\* The lock lets the attempt pass; the account's counters are remembered.
BeginLogin(p, u) ==
  /\ login[p] = Idle
  /\ MayTry(u)
  /\ login' = [login EXCEPT ![p] =
       [step |-> "started", user |-> u, failed |-> account[u].failed,
        locked |-> account[u].locked, row |-> account[u].row]]
  /\ past' = [past EXCEPT ![u] =
       IF Overlaps(p, u) THEN [@ EXCEPT !.since = 0, !.blurred = TRUE] ELSE @]
  /\ UNCHANGED <<account, session, request, page>>

\* Mutant: the account is locked one failure late.
Failed_LockLate(a, p) ==
  [a EXCEPT !.failed = login[p].failed + 1,
            !.locked = IF login[p].failed + 1 > MaxFailures THEN "future" ELSE login[p].locked]

\* Both columns are written from what the attempt read when it began.
Failed(a, p) ==
  [a EXCEPT !.failed = login[p].failed + 1,
            !.locked = IF login[p].failed + 1 >= MaxFailures THEN "future" ELSE login[p].locked]

\* History: one more wrong password; "row" says whether the account's row counts it.
Counts(h, row) ==
  LET blurred == h.blurred \/ ~row IN
    [h EXCEPT !.wrong = IF @ < MaxFailures THEN @ + 1 ELSE @,
              !.since = IF blurred THEN 0 ELSE @ + 1,
              !.blurred = blurred]

\* The password is wrong, or the account is disabled; if its row was there, it is saved.
Reject(p) ==
  /\ login[p].step = "started"
  /\ login[p].user \in Guessed /\ login[p].failed < MaxFailed
  /\ account' = IF login[p].row
                 THEN [account EXCEPT ![login[p].user] = Failed(@, p)]
                 ELSE account
  /\ past' = [past EXCEPT ![login[p].user] = Counts(@, login[p].row)]
  /\ login' = [login EXCEPT ![p] = Idle]
  /\ UNCHANGED <<session, request, page>>

\* The password is right; ModelBackend and shadow_user refuse a disabled account.
Accept(p) ==
  /\ login[p].step = "started"
  /\ account[login[p].user].active
  /\ login' = [login EXCEPT ![p] = [step |-> "checked", user |-> @.user]]
  /\ UNCHANGED <<account, session, request, page, past>>

Reset(a) == [a EXCEPT !.row = TRUE, !.failed = 0, !.locked = "never"]

Stands(a) == a.active /\ ~a.revoked

\* The counters are reset, and the account is read for the session ("standing" and
\* "endings" are history: how the account stood, and how often it had been ended).
ResetCounters(p) ==
  /\ login[p].step = "checked"
  /\ LET u == login[p].user IN
       /\ account' = [account EXCEPT ![u] = Reset(@)]
       /\ past' = [past EXCEPT ![u] = [@ EXCEPT !.since = 0, !.blurred = Overlaps(p, u)]]
       /\ login' = [login EXCEPT ![p] =
            [step |-> "reset", data |->
               [user |-> u, version |-> account[u].version, nonce |-> account[u].nonce,
                standing |-> Stands(account[u]), endings |-> past[u].endings]]]
  /\ UNCHANGED <<session, request, page>>

\* login() takes a fresh key; the session is stored with what was read above.
Establish(p, s) ==
  /\ login[p].step = "reset"
  /\ session[s] = Unused
  /\ session' = [session EXCEPT ![s] = login[p].data]
  /\ login' = [login EXCEPT ![p] = Idle]
  /\ UNCHANGED <<account, request, page, past>>

\* An account is locked for 15 minutes.
Unlock(u) ==
  /\ account[u].locked = "future"
  /\ account' = [account EXCEPT ![u].locked = "past"]
  /\ UNCHANGED <<login, session, request, page, past>>

-----------------------------------------------------------------------------
(* Requests in a session.                                                  *)

Live(s) == session[s] \notin {Unused, Ended}

\* user_role
RoleOf(u) ==
  CASE ~account[u].active -> NoRole
    [] u \in Superusers -> "admin"
    [] OTHER -> account[u].role

\* The middleware's test.
Valid(s) ==
  LET data == session[s]  a == account[data.user] IN
    /\ a.active
    /\ data.nonce = a.nonce
    /\ data.version = a.version
    /\ ~a.revoked

\* The request is let in; the middleware makes the row if it is missing.
LetIn(r, s) ==
  /\ request[r] = Idle
  /\ Live(s) /\ Valid(s)
  /\ account' = [account EXCEPT ![session[s].user].row = TRUE]
  /\ request' = [request EXCEPT ![r] =
       [session |-> s, user |-> session[s].user, role |-> RoleOf(session[s].user)]]
  /\ UNCHANGED <<login, session, page, past>>

\* It is not valid, or idle for too long, or too old: any session may be.
Refuse(s) ==
  /\ Live(s)
  /\ session' = [session EXCEPT ![s] = Ended]
  /\ UNCHANGED <<account, login, request, page, past>>

\* The request ends.  (Django stores its session again unless that was ended meanwhile.)
EndRequest(r) == request' = [request EXCEPT ![r] = Idle]

Finish(r) ==
  /\ request[r] # Idle
  /\ EndRequest(r)
  /\ UNCHANGED <<account, login, session, page, past>>

Logout(r) ==
  /\ request[r] # Idle
  /\ session' = [session EXCEPT ![request[r].session] = Ended]
  /\ EndRequest(r)
  /\ UNCHANGED <<account, login, page, past>>

-----------------------------------------------------------------------------
(* Administration: each change holds the lock on the account's User row.   *)

\* The handler's check of the actor's role came before it waited for the lock.
Administers(r) == request[r].role \in Administrators

\* The actor's role when it is read again under the lock.
ActingRole(r) ==
  LET u == request[r].user IN IF u \in Superusers THEN "admin" ELSE account[u].role

Bumped(a) == [a EXCEPT !.row = TRUE, !.version = @ + 1, !.nonce = @ + 1]
Assigned(a, role) == [Bumped(a) EXCEPT !.role = role, !.revoked = FALSE]

\* Mutant: the version that was read before assign_role is written back as it was.
Patched_StaleVersion(a, role) ==
  [Assigned(a, role) EXCEPT !.version = a.version, !.nonce = @ + 1]

\* PATCH saves a version raised from what it read before assign_role raised it, and
\* another fresh nonce.
Patched(a, role) == [Assigned(a, role) EXCEPT !.nonce = @ + 1]
Unassigned(a) == [Bumped(a) EXCEPT !.role = NoRole]
Revoked(a) == [Unassigned(a) EXCEPT !.revoked = TRUE]
Disabled(a) == [Bumped(a) EXCEPT !.active = FALSE]

\* Mutant: enabling an account leaves its sessions as they are.
Enabled_SameVersion(a) == [a EXCEPT !.active = TRUE]

Enabled(a) == [Bumped(a) EXCEPT !.active = TRUE]

\* (Bound: a page whose version was overtaken is closed.)
Change(r, u, row, ends) ==
  /\ Administers(r)
  /\ account[u].version < MaxVersion
  /\ account' = [account EXCEPT ![u] = row]
  /\ past' = [past EXCEPT ![u].endings = IF ends THEN @ + 1 ELSE @]
  /\ EndRequest(r)
  /\ page' = IF page.user = u /\ page.version # row.version THEN Closed ELSE page
  /\ UNCHANGED <<login, session>>

MayAssign(r, u, role) ==
  /\ ActingRole(r) \in Administrators
  /\ role = "admin" => ActingRole(r) = "admin"
  /\ u \in Superusers => ActingRole(r) = "admin"

Protects(r, u) == u \in Superusers => ActingRole(r) = "admin"

\* users: POST
AssignRole(r, u, role) == MayAssign(r, u, role) /\ Change(r, u, Assigned(account[u], role), FALSE)
Revoke(r, u) == Protects(r, u) /\ Change(r, u, Revoked(account[u]), TRUE)
Disable(r, u) == Protects(r, u) /\ Change(r, u, Disabled(account[u]), TRUE)
Enable(r, u) == Protects(r, u) /\ Change(r, u, Enabled(account[u]), FALSE)

\* admin_user_detail: GET, PATCH with If-Match, POST without
View(r, u) ==
  /\ Administers(r)
  /\ account' = [account EXCEPT ![u].row = TRUE]
  /\ page' = [user |-> u, version |-> account[u].version, rights |-> RightsOf(account[u])]
  /\ EndRequest(r)
  /\ UNCHANGED <<login, session, past>>

Matches(u) == page.user = u /\ page.version = account[u].version

PatchRole(r, u, role) ==
  /\ Matches(u)
  /\ MayAssign(r, u, role)
  /\ Change(r, u, Patched(account[u], role), FALSE)
PatchNoRole(r, u) == Matches(u) /\ Change(r, u, Unassigned(account[u]), FALSE)

ActDisable(r, u) == Change(r, u, Disabled(account[u]), TRUE)
ActRestore(r, u) == Change(r, u, Enabled(account[u]), FALSE)
RevokeSessions(r, u) == Change(r, u, Bumped(account[u]), FALSE)

Administer(r, u) ==
  /\ request[r] # Idle
  /\ \/ \E role \in Grantable : AssignRole(r, u, role)
     \/ Revoke(r, u)
     \/ Disable(r, u)
     \/ Enable(r, u)
     \/ View(r, u)
     \/ \E role \in Grantable : PatchRole(r, u, role)
     \/ PatchNoRole(r, u)
     \/ ActDisable(r, u)
     \/ ActRestore(r, u)
     \/ RevokeSessions(r, u)

-----------------------------------------------------------------------------

SecurityNext ==
  \/ \E p \in Logins, u \in Users : BeginLogin(p, u)
  \/ \E p \in Logins : Reject(p)
  \/ \E p \in Logins : Accept(p)
  \/ \E p \in Logins : ResetCounters(p)
  \/ \E p \in Logins, s \in Sessions : Establish(p, s)
  \/ \E u \in Users : Unlock(u)
  \/ \E r \in Requests, s \in Sessions : LetIn(r, s)
  \/ \E s \in Sessions : Refuse(s)
  \/ \E r \in Requests : Finish(r)
  \/ \E r \in Requests : Logout(r)
  \/ \E r \in Requests, u \in Changed : Administer(r, u)

SecuritySpec == SecurityInit /\ [][SecurityNext]_securityVars

-----------------------------------------------------------------------------
(* Correctness.                                                            *)

\* A session lets nobody in that was read from an account while it was disabled or
\* revoked, and none that was read before it last was: not even after the account is
\* enabled or given a role again, and even if the login was still under way meanwhile.
EndedLoginsStayOut ==
  \A s \in Sessions : Live(s) /\ Valid(s) =>
    session[s].standing /\ session[s].endings = past[session[s].user].endings

\* An administrator's page whose If-Match still matches shows the account as it is: what
\* it is allowed to do, and whether it is disabled or revoked.
PageShowsAccount ==
  \A u \in Users : Matches(u) => page.rights = RightsOf(account[u])

\* Nobody is locked out, or was, by fewer than MaxFailures wrong passwords, however logins
\* overlap.  And where an account has its row and no login to it has overlapped with
\* another since the last success, its counter is the number of wrong passwords since, and
\* it is locked from the last of MaxFailures on.  (Overlapping logins count less than that
\* and may lift a lock; and of an account without a row nothing is counted, and it is
\* never locked: login_view saves the row only "if local_security".)
FailuresCount ==
  \A u \in Users :
    /\ account[u].locked # "never" => past[u].wrong >= MaxFailures
    /\ ~past[u].blurred =>
         /\ account[u].failed = past[u].since
         /\ (account[u].locked = "never") = (past[u].since < MaxFailures)
=============================================================================
