------------------------------- MODULE Portal -------------------------------
(***************************************************************************)
(* Browser access to the application: internal/browserauth (login, session *)
(* and principal), internal/auth (session table), internal/user            *)
(* (provisioning), internal/features/users (access management) and         *)
(* internal/access (bootstrap), over the MySQL tables they share.          *)
(*                                                                         *)
(* Requests run concurrently.  One step is one database statement, one     *)
(* critical section of the throttle, or one exchange with Fincloud.  An    *)
(* administrator's transaction holds the row lock of the access-management *)
(* permission from its first statement and the row lock of its target from *)
(* the second, and its writes appear when it commits.                      *)
(*                                                                         *)
(* Left out: last_seen_at, last_login_at, names and timestamps, which only *)
(* pages show; form fields that are refused before anything is read.       *)
(***************************************************************************)
EXTENDS LoginThrottle, Sequences, SequencesExt, Sums

CONSTANTS Names,          \* usernames; a row of users is identified by its name
          Fold,           \* strings.ToLower: the throttle key of a name
          Permissions,    \* keys some row of user_permissions may hold
          Canonical,      \* keys an administrator may set (registry without the baseline)
          Manage,         \* access.PermissionManage
          Managers,       \* THOR_BOOTSTRAP_ACCESS_MANAGERS
          InitialUsers,   \* the users table when the process first starts
          Requests,       \* bound: HTTP requests in flight at once
          Tokens,         \* bound: session tokens ever generated
          Lifetimes,      \* {session lifetime, remember-me lifetime}
          Patience,       \* Fincloud client timeout: the longest a login attempt lasts
          MaxTime,        \* bound on the clock
          MaxChanges,     \* bound on audited access changes
          None

Absent == [exists |-> FALSE, active |-> FALSE, perms |-> {}]
Provisioned == [exists |-> TRUE, active |-> TRUE, perms |-> {}]
Row == [exists : BOOLEAN, active : BOOLEAN, perms : SUBSET Permissions]

ASSUME PortalAssumption ==
    /\ Fold \in [Names -> Keys]
    /\ InitialUsers \in [Names -> Row]
    /\ \A n \in Names : InitialUsers[n].exists \/ InitialUsers[n] = Absent
    /\ Manage \in Canonical /\ Canonical \subseteq Permissions
    /\ Managers \subseteq Names /\ IsFiniteSet(Managers)
    /\ Patience \in Nat /\ Patience < Window /\ Patience < Lockout
    /\ Lifetimes \subseteq Nat \ {0} /\ MaxTime \in Nat \ {0} /\ MaxChanges \in Nat
    /\ IsFiniteSet(Requests) /\ None \notin Names \cup Tokens \cup Requests

VARIABLES phase,        \* "starting" until access.Bootstrap commits, then "serving"
          clock,
          users,        \* users and user_permissions
          sessions,     \* token -> row of sessions, or None
          log,          \* audit_logs: the events of the access transactions
          failures,     \* Service.failures
          req,          \* the requests in flight
          lock,         \* request whose transaction holds the manage-permission row
          owner,        \* token -> the user it was issued to (the browsers' cookies)
          epoch,        \* history: committed deactivations of each user
          provisioned,  \* history: logins that reported a newly created user
          guesses       \* history: per key, rejected attempts by the time they began

vars == <<phase, clock, users, sessions, log, failures, req, lock, owner, epoch,
          provisioned, guesses>>
history == <<epoch, provisioned, guesses>>

Time == 1..MaxTime
Idle == [pc |-> "idle", name |-> None, now |-> Never, tok |-> None, seen |-> 0,
         perms |-> {}, act |-> None, target |-> None, row |-> Absent, dead |-> {}]
Session == [user : Names, expires : Nat, epoch : Nat]
Acts == {"permissions", "activated", "deactivated"}
Points == {"idle", "guest", "session", "user", "revoke", "perms", "serve", "blocked", "auth", "fail",
           "clear", "find", "refind", "create", "insert", "lock", "tx", "commit"}
Request == [pc : Points, name : Names \cup {None}, now : 0..MaxTime, tok : Tokens \cup {None},
            seen : Nat, perms : SUBSET Permissions, act : Acts \cup {None},
            target : Names \cup {None}, row : Row, dead : SUBSET Tokens]
AuditEvent == [act : Acts \cup {"bootstrap"}, user : Names, added : SUBSET Permissions,
               removed : SUBSET Permissions]

Init ==
    /\ phase = "starting" /\ clock = 1
    /\ users = InitialUsers
    /\ sessions = [t \in Tokens |-> None] /\ owner = [t \in Tokens |-> None]
    /\ log = << >> /\ failures = NewFailures
    /\ req = [r \in Requests |-> Idle] /\ lock = None
    /\ epoch = [n \in Names |-> 0] /\ provisioned = [n \in Names |-> 0]
    /\ guesses = [k \in Keys |-> [t \in Time |-> 0]]

Goto(r, pc) == req' = [req EXCEPT ![r].pc = pc]
Respond(r)  == req' = [req EXCEPT ![r] = Idle]
At(r, pc)   == phase = "serving" /\ req[r].pc = pc

-----------------------------------------------------------------------------
(* Middleware: LoadPrincipal resolves the cookie before any handler runs.  *)

\* LoadPrincipal: no cookie (or no well-formed one) goes on as a guest.
LoadPrincipal(r) ==
    /\ At(r, "idle")
    /\ \/ /\ Goto(r, "guest")
       \/ \E t \in Tokens :
            /\ owner[t] # None
            /\ req' = [req EXCEPT ![r] = [Idle EXCEPT !.pc = "session", !.tok = t, !.now = clock,
                                                      !.seen = epoch[owner[t]]]]
    /\ UNCHANGED <<phase, clock, users, sessions, log, failures, lock, owner, history>>

\* FindValidSession: the row, unless it is gone or expired.
FindValidSession(r) ==
    LET s == sessions[req[r].tok]
    IN  /\ At(r, "session")
        /\ IF s # None /\ s.expires > req[r].now
           THEN req' = [req EXCEPT ![r].pc = "user", ![r].name = s.user]
           ELSE Goto(r, "guest")
        /\ UNCHANGED <<phase, clock, users, sessions, log, failures, lock, owner, history>>

\* Mutant: the user's status is not looked at once a session was found.
Bug_FindByID(r) ==
    /\ At(r, "user")
    /\ Goto(r, "perms")
    /\ UNCHANGED <<phase, clock, users, sessions, log, failures, lock, owner, history>>

\* FindByID: an inactive user's session is revoked.
FindByID(r) ==
    /\ At(r, "user")
    /\ Goto(r, IF users[req[r].name].active THEN "perms" ELSE "revoke")
    /\ UNCHANGED <<phase, clock, users, sessions, log, failures, lock, owner, history>>

\* Revoke: delete by token hash; a row already gone is not an error.
Revoke(t) == sessions' = [sessions EXCEPT ![t] = None]

RevokeUnauthenticated(r) ==
    /\ At(r, "revoke")
    /\ Revoke(req[r].tok)
    /\ req' = [req EXCEPT ![r].pc = "guest", ![r].name = None]
    /\ UNCHANGED <<phase, clock, users, log, failures, lock, owner, history>>

\* ListPermissionKeysForUser: the principal keeps what is read here.
ListPermissionKeysForUser(r) ==
    /\ At(r, "perms")
    /\ req' = [req EXCEPT ![r].pc = "serve", ![r].perms = users[req[r].name].perms]
    /\ UNCHANGED <<phase, clock, users, sessions, log, failures, lock, owner, history>>

ResolveSession(r) ==
    FindValidSession(r) \/ FindByID(r) \/ RevokeUnauthenticated(r) \/ ListPermissionKeysForUser(r)

\* A page, a redirect to or from the login form, a refused permission, a
\* guest's request for anything but the login: the request ends.
Answer(r) ==
    /\ At(r, "guest") \/ At(r, "serve")
    /\ Respond(r)
    /\ UNCHANGED <<phase, clock, users, sessions, log, failures, lock, owner, history>>

\* Any database or network error outside a transaction ends in a 500 page.
\* (An insert of CreateUser that was applied and whose answer is lost is the
\* error at "insert", the step after it.)
InternalError(r) ==
    /\ \E pc \in {"session", "user", "revoke", "perms", "auth", "find", "create",
                  "refind", "insert"} : At(r, pc)
    /\ Respond(r)
    /\ UNCHANGED <<phase, clock, users, sessions, log, failures, lock, owner, history>>

\* HTTP.Logout: with or without a principal, the cookie's session is deleted.
Logout(r) ==
    /\ At(r, "guest") \/ At(r, "serve")
    /\ req[r].tok # None
    /\ Revoke(req[r].tok)
    /\ Respond(r)
    /\ UNCHANGED <<phase, clock, users, log, failures, lock, owner, history>>

-----------------------------------------------------------------------------
(* Login: throttle, Fincloud, provisioning, session.                       *)

KeyOf(r) == Fold[req[r].name]

\* HTTP.Login: a complete form; the time is captured here and used throughout.
SubmitLogin(r) ==
    /\ At(r, "guest")
    /\ \E n \in Names :
         req' = [req EXCEPT ![r] = [Idle EXCEPT !.pc = "blocked", !.name = n, !.now = clock]]
    /\ UNCHANGED <<phase, clock, users, sessions, log, failures, lock, owner, history>>

\* A throttled attempt is answered like a wrong password, uncounted and unaudited.
Blocked(r) ==
    /\ At(r, "blocked")
    /\ IF IsBlocked(failures, KeyOf(r), req[r].now) THEN Respond(r) ELSE Goto(r, "auth")
    /\ failures' = AfterBlocked(failures, KeyOf(r), req[r].now)
    /\ UNCHANGED <<phase, clock, users, sessions, log, lock, owner, history>>

\* Authenticator.Authenticate: accepted (the temporary Fincloud session is
\* logged out, best effort) or refused; an error is InternalError.
Authenticate(r) ==
    /\ At(r, "auth")
    /\ \E answer \in {"clear", "fail"} : Goto(r, answer)
    /\ UNCHANGED <<phase, clock, users, sessions, log, failures, lock, owner, history>>

FailLogin(r) ==
    /\ At(r, "fail")
    /\ failures' = AfterFail(failures, KeyOf(r), req[r].now)
    /\ guesses' = IF Full(failures, KeyOf(r), req[r].now) THEN guesses
                  ELSE [guesses EXCEPT ![KeyOf(r)][req[r].now] = @ + 1]
    /\ Respond(r)
    /\ UNCHANGED <<phase, clock, users, sessions, log, lock, owner, epoch, provisioned>>

ClearFailures(r) ==
    /\ At(r, "clear")
    /\ failures' = AfterClear(failures, KeyOf(r))
    /\ guesses' = [guesses EXCEPT ![KeyOf(r)] = [t \in Time |-> 0]]
    /\ Goto(r, "find")
    /\ UNCHANGED <<phase, clock, users, sessions, log, lock, owner, epoch, provisioned>>

\* FindByUsername, before the insert ("find") and after a duplicate ("refind");
\* an inactive user is refused like a wrong password.
FindByUsername(r) ==
    LET row == users[req[r].name]
    IN  /\ At(r, "find") \/ At(r, "refind")
        /\ IF row.active THEN Goto(r, "insert")
           ELSE IF ~row.exists /\ req[r].pc = "find" THEN Goto(r, "create")
           ELSE Respond(r)
        /\ UNCHANGED <<phase, clock, users, sessions, log, failures, lock, owner, history>>

\* Mutant: an upsert, which takes a duplicate for a created user.
Bug_CreateUser(r) ==
    LET n == req[r].name
    IN  /\ At(r, "create")
        /\ users' = [users EXCEPT ![n] = Provisioned]
        /\ provisioned' = [provisioned EXCEPT ![n] = @ + 1]
        /\ Goto(r, "insert")
        /\ UNCHANGED <<phase, clock, sessions, log, failures, lock, owner, epoch, guesses>>

\* Repository.Create: the unique key turns a second insert into ErrUsernameTaken.
CreateUser(r) ==
    LET n == req[r].name
    IN  /\ At(r, "create")
        /\ IF users[n].exists
           THEN Goto(r, "refind") /\ UNCHANGED <<users, provisioned>>
           ELSE /\ users' = [users EXCEPT ![n] = Provisioned]
                /\ provisioned' = [provisioned EXCEPT ![n] = @ + 1]
                /\ Goto(r, "insert")
        /\ UNCHANGED <<phase, clock, sessions, log, failures, lock, owner, epoch, guesses>>

\* SessionRepository.Create: the foreign key waits for a transaction that
\* holds the user's row.  is_active is not read again.  Then the best-effort
\* audit and the cookie.
CreateSession(r) ==
    LET n == req[r].name
    IN  /\ At(r, "insert")
        /\ \A q \in Requests : req[q].pc = "commit" => req[q].target # n
        /\ \E t \in Tokens, life \in Lifetimes :
             /\ owner[t] = None
             /\ owner' = [owner EXCEPT ![t] = n]
             /\ sessions' = [sessions EXCEPT ![t] = [user |-> n, expires |-> req[r].now + life,
                                                     epoch |-> epoch[n]]]
        /\ Respond(r)
        /\ UNCHANGED <<phase, clock, users, log, failures, lock, history>>

Login(r) == Blocked(r) \/ Authenticate(r) \/ FailLogin(r) \/ ClearFailures(r)
            \/ FindByUsername(r) \/ CreateUser(r) \/ CreateSession(r)

-----------------------------------------------------------------------------
(* Access management: two transactions under one lock.                     *)

ActiveManagers(u) == {n \in Names : u[n].active /\ Manage \in u[n].perms}

\* Repository.ReplacePermissions: canonical keys become the selected ones,
\* keys outside the registry stay.
Replaced(row, selected) == [row EXCEPT !.perms = (@ \ Canonical) \cup selected]

\* A handler behind RequirePermission(access.manage) calls the service, with
\* the principal's permissions as they were read, and begins a transaction.
BeginChange(r) ==
    /\ At(r, "serve")
    /\ Manage \in req[r].perms
    /\ Len(log) < MaxChanges
    /\ \E n \in Names, act \in Acts :
         req' = [req EXCEPT ![r].pc = "lock", ![r].act = act, ![r].target = n]
    /\ UNCHANGED <<phase, clock, users, sessions, log, failures, lock, owner, history>>

\* Mutant: a plain SELECT takes no lock.
Bug_LockManagePermission(r) ==
    /\ At(r, "lock")
    /\ Goto(r, "tx")
    /\ UNCHANGED <<phase, clock, users, sessions, log, failures, lock, owner, history>>

\* lockManagePermission: SELECT ... FOR UPDATE serialises the transactions.
LockManagePermission(r) ==
    /\ At(r, "lock")
    /\ lock = None
    /\ lock' = r
    /\ Goto(r, "tx")
    /\ UNCHANGED <<phase, clock, users, sessions, log, failures, owner, history>>

\* The statements of the transaction, up to its commit: find and lock the
\* target, write, and roll back when no active manager would remain.  A
\* missing target is ErrNotFound.
Statements(r, row, dead, checked) ==
    LET n == req[r].target
    IN  /\ At(r, "tx")
        /\ IF users[n].exists /\ (checked => ActiveManagers([users EXCEPT ![n] = row]) # {})
           THEN /\ req' = [req EXCEPT ![r].pc = "commit", ![r].row = row, ![r].dead = dead]
                /\ UNCHANGED lock
           ELSE Respond(r) /\ lock' = None
        /\ UNCHANGED <<phase, clock, users, sessions, log, failures, owner, history>>

ReplacePermissions(r) ==
    LET n == req[r].target
    IN  /\ req[r].act = "permissions"
        /\ \E selected \in SUBSET Canonical :
             Statements(r, Replaced(users[n], selected), {}, users[n].active)

SessionsOf(n) == {t \in Tokens : sessions[t] # None /\ sessions[t].user = n}

\* Mutant: the sessions of a deactivated user are left to expire.
Bug_SetUserActive(r) ==
    LET n == req[r].target
        active == req[r].act = "activated"
    IN  /\ req[r].act # "permissions"
        /\ Statements(r, [users[n] EXCEPT !.active = active], {}, ~active)

SetUserActive(r) ==
    LET n == req[r].target
        active == req[r].act = "activated"
    IN  /\ req[r].act # "permissions"
        /\ Statements(r, [users[n] EXCEPT !.active = active],
                      IF active THEN {} ELSE SessionsOf(n), ~active)

\* Mutant: the event lists the keys that were selected, not those that changed.
Bug_Event(act, n, old, new) == [act |-> act, user |-> n, added |-> new.perms, removed |-> {}]

\* permissionChanges: what the event says of the change.
Event(act, n, old, new) ==
    [act |-> act, user |-> n, added |-> new.perms \ old.perms, removed |-> old.perms \ new.perms]

Commit(r) ==
    LET n == req[r].target
        row == req[r].row
    IN  /\ At(r, "commit")
        /\ users' = [users EXCEPT ![n] = row]
        /\ sessions' = [t \in Tokens |-> IF t \in req[r].dead THEN None ELSE sessions[t]]
        /\ log' = Append(log, Event(req[r].act, n, users[n], row))
        /\ epoch' = [epoch EXCEPT ![n] = IF req[r].act = "deactivated" THEN @ + 1 ELSE @]
        /\ lock' = None
        /\ Respond(r)
        /\ UNCHANGED <<phase, clock, failures, owner, provisioned, guesses>>

\* A statement, the audit insert or the commit fails, a lock wait times out,
\* or the database picks the transaction as a deadlock's victim: rollback.
Rollback(r) ==
    /\ \E pc \in {"lock", "tx", "commit"} : At(r, pc)
    /\ lock' = IF lock = r THEN None ELSE lock
    /\ Respond(r)
    /\ UNCHANGED <<phase, clock, users, sessions, log, failures, owner, history>>

AccessChange(r) == BeginChange(r) \/ LockManagePermission(r) \/ ReplacePermissions(r)
                   \/ SetUserActive(r) \/ Commit(r) \/ Rollback(r)

-----------------------------------------------------------------------------
(* The process: start, session cleanup, crash, time.                       *)

Bootstrapped(row) == [exists |-> TRUE, active |-> TRUE, perms |-> row.perms \cup {Manage}]

\* Bootstrap: one transaction before the server listens.  With no active
\* manager the configured users are created or activated, granted the
\* permission and audited; with none configured the start fails.
Bootstrap ==
    LET needed == ActiveManagers(users) = {}
        boot   == IF needed THEN Managers ELSE {}
    IN  /\ phase = "starting"
        /\ needed => Managers # {}
        /\ users' = [n \in Names |-> IF n \in boot THEN Bootstrapped(users[n]) ELSE users[n]]
        /\ log' = log \o SetToSeq({Event("bootstrap", n, users[n], users'[n]) : n \in boot})
        /\ phase' = "serving"
        /\ UNCHANGED <<clock, sessions, failures, req, lock, owner, history>>

\* RunSessionCleanup: at start and at every tick of its timer.
DeleteExpired ==
    /\ phase = "serving"
    /\ \E t \in Tokens : sessions[t] # None /\ sessions[t].expires <= clock
    /\ sessions' = [t \in Tokens |-> IF sessions[t] # None /\ sessions[t].expires <= clock
                                     THEN None ELSE sessions[t]]
    /\ UNCHANGED <<phase, clock, users, log, failures, req, lock, owner, history>>

\* The process dies: requests and the throttle are lost, transactions roll back.
Crash ==
    /\ phase = "serving"
    /\ phase' = "starting"
    /\ req' = [r \in Requests |-> Idle]
    /\ lock' = None
    /\ failures' = NewFailures
    /\ guesses' = [k \in Keys |-> [t \in Time |-> 0]]
    /\ UNCHANGED <<clock, users, sessions, log, owner, epoch, provisioned>>

\* Time passes; the Fincloud client gives up on an exchange after its timeout.
Tick ==
    /\ clock < MaxTime
    /\ \A r \in Requests :
         req[r].pc \in {"blocked", "auth", "fail"} => clock < req[r].now + Patience
    /\ clock' = clock + 1
    /\ UNCHANGED <<phase, users, sessions, log, failures, req, lock, owner, history>>

Next ==
    \/ \E r \in Requests :
         \/ LoadPrincipal(r) \/ ResolveSession(r) \/ Answer(r) \/ InternalError(r) \/ Logout(r)
         \/ SubmitLogin(r) \/ Login(r)
         \/ AccessChange(r)
    \/ Bootstrap \/ DeleteExpired \/ Crash \/ Tick

Spec == Init /\ [][Next]_vars

-----------------------------------------------------------------------------
(* Properties.                                                             *)

TypeOK ==
    /\ phase \in {"starting", "serving"} /\ clock \in Time
    /\ users \in [Names -> Row]
    /\ sessions \in [Tokens -> Session \cup {None}]
    /\ owner \in [Tokens -> Names \cup {None}]
    /\ log \in Seq(AuditEvent)
    /\ failures \in Failures
    /\ req \in [Requests -> Request]
    /\ lock \in Requests \cup {None}
    /\ epoch \in [Names -> Nat] /\ provisioned \in [Names -> Nat]
    /\ guesses \in [Keys -> [Time -> Nat]]

\* Repository.ReplacePermissions and SetUserActive: administrators who remove
\* each other's access at once, or their own, never leave the application
\* without an active access manager once it has started.
ManagerRemains == phase = "serving" => ActiveManagers(users) # {}

\* audit.Append runs in the transaction it describes: replaying the audit
\* trail over the rows that were there gives the users and permissions that
\* are there now, whatever rolled back in between.
Apply(row, e) ==
    CASE e.act = "bootstrap"   -> Bootstrapped(row)
      [] e.act = "activated"   -> [row EXCEPT !.active = TRUE]
      [] e.act = "deactivated" -> [row EXCEPT !.active = FALSE]
      [] e.act = "permissions" -> [row EXCEPT !.perms = (@ \cup e.added) \ e.removed]
FirstRow(n) ==
    IF InitialUsers[n].exists THEN InitialUsers[n]
    ELSE IF provisioned[n] > 0 THEN Provisioned ELSE Absent
Replay(events, n, first) ==
    LET row[i \in 0..Len(events)] ==
            IF i = 0 THEN first
            ELSE IF events[i].user = n THEN Apply(row[i - 1], events[i]) ELSE row[i - 1]
    IN  row[Len(events)]
TrailReplays == \A n \in Names : users[n] = Replay(log, n, FirstRow(n))

\* SetUserActive deletes the sessions under the lock of the user's row: none
\* that existed when a deactivation committed is left to come back to life
\* when the user is activated again.
DeactivationRevokes ==
    \A t \in Tokens : sessions[t] # None => sessions[t].epoch = epoch[sessions[t].user]

\* ResolveSession: a request is served in the name of an inactive user only
\* when the deactivation committed while the request ran, although a login
\* racing the deactivation can leave a fresh session behind.
InactiveNotServed ==
    \A r \in Requests :
        /\ req[r].pc \in {"perms", "serve"}
        /\ ~users[req[r].name].active
        => epoch[req[r].name] > req[r].seen

\* FindOrCreateFromAuthenticatedUsername: of the concurrent first logins of a
\* name one creates the user and reports it, and none does for a name that
\* already had a row.
ProvisionedOnce ==
    \A n \in Names : provisioned[n] <= IF InitialUsers[n].exists THEN 0 ELSE 1

\* loginFailures: how many rejected attempts on one account can begin within
\* a time shorter than the window and the lockout, less twice the age a failure
\* may have when it is counted (a late one backdates the window or the lock).
\* A window may end one failure short of its limit, the first of them too early
\* to matter, and the next one fill up, and the requests in flight when the
\* lock falls are past the check (service.go:128).  A successful login on the
\* account and a restart of the process forget the failures, and the count
\* begins anew with them.
Span(t) == {u \in Time : t <= u /\ u + 2 * Patience < t + Window /\ u + 2 * Patience < t + Lockout}
GuessesIn(k, t) == Total([u \in Time |-> IF u \in Span(t) THEN guesses[k][u] ELSE 0])
Leftover == IF MaxFailures = 1 THEN 0 ELSE MaxFailures - 2
GuessLimit == Leftover + MaxFailures - 1 + Cardinality(Requests)
GuessesBounded == \A k \in Keys, t \in Time : GuessesIn(k, t) <= GuessLimit

-----------------------------------------------------------------------------
(***************************************************************************)
(* The inductive invariant behind the properties.                          *)
(***************************************************************************)
\* What a request knows at each point ...
Resolving == {"session", "user", "revoke", "perms", "serve"}
LoggingIn == {"blocked", "auth", "fail", "clear", "find", "refind", "create", "insert"}
Changing  == {"lock", "tx", "commit"}
PointInv ==
    \A r \in Requests :
        LET q == req[r]
        IN  /\ q.pc \in {"user", "perms", "serve"} \cup LoggingIn => q.name \in Names
            /\ q.pc \in Resolving => q.tok \in Tokens
            /\ q.pc \in LoggingIn => q.now \in Time
            /\ q.pc \in Changing => q.act \in Acts /\ q.target \in Names

\* ... a transaction past its first statement is the one with the lock ...
LockInv ==
    /\ \A r \in Requests : req[r].pc \in {"tx", "commit"} <=> lock = r
    /\ phase = "starting" => \A r \in Requests : req[r] = Idle

\* ... rows are never deleted, and only a name without one is provisioned ...
RowInv ==
    \A n \in Names :
        /\ users[n].exists \/ users[n] = Absent
        /\ InitialUsers[n].exists => users[n].exists
        /\ provisioned[n] > 0 => users[n].exists
        /\ provisioned[n] <= IF InitialUsers[n].exists THEN 0 ELSE 1

\* ... so what a transaction will commit still fits the rows beside its own ...
CommitInv ==
    \A r \in Requests : req[r].pc = "commit" =>
        LET n   == req[r].target
            row == req[r].row
            act == req[r].act
        IN  /\ users[n].exists /\ row.exists
            /\ ActiveManagers([users EXCEPT ![n] = row]) # {}
            /\ act = "permissions" => row.active = users[n].active
            /\ act # "permissions" => row.perms = users[n].perms /\ row.active = (act = "activated")
            /\ act = "deactivated" => SessionsOf(n) \subseteq req[r].dead

\* ... a session is its owner's, and a request serves the owner of its token ...
SessionInv ==
    /\ \A t \in Tokens : sessions[t] # None => sessions[t].user = owner[t]
    /\ \A r \in Requests : req[r].pc \in Resolving =>
         /\ owner[req[r].tok] \in Names
         /\ req[r].seen <= epoch[owner[req[r].tok]]
         /\ req[r].pc \in {"user", "perms", "serve"} => req[r].name = owner[req[r].tok]

\* ... and the audit trail is about users that exist.
TrailInv ==
    /\ \A i \in DOMAIN log : users[log[i].user].exists
    /\ TrailReplays

PInv == /\ TypeOK /\ PointInv /\ LockInv /\ RowInv /\ CommitInv /\ ManagerRemains
        /\ SessionInv /\ DeactivationRevokes /\ InactiveNotServed /\ TrailInv

(***************************************************************************)
(* The invariant behind GuessesBounded.                                    *)
(***************************************************************************)
\* An attempt is judged while it is young, and none began in the future ...
AgeInv ==
    /\ \A r \in Requests : req[r].pc \in {"blocked", "auth", "fail"} =>
         req[r].now <= clock /\ clock <= req[r].now + Patience
    /\ \A k \in Keys, u \in Time : u > clock => guesses[k][u] = 0

\* ... an entry that is not locked is short of the limit ...
EntryInv ==
    \A k \in Keys :
        LET e == failures.entries[k]
        IN  e # NoEntry => /\ e.count > 0 /\ e.first # Never
                           /\ e.lockedUntil = Never => e.count < MaxFailures

\* ... and while an attempt of a span can still be judged, the entry says how
\* many there were: those it counted, those of the window before it, and once
\* it is a lock that fell in the span, those still past the check.
PastCheck(k, t) == {r \in Requests : /\ req[r].pc \in {"auth", "fail"}
                                     /\ KeyOf(r) = k /\ req[r].now \in Span(t)}
Open(t) == clock + Patience < t + Window /\ clock + Patience < t + Lockout
PaceInv ==
    \A k \in Keys, t \in Time :
        LET e == failures.entries[k]
            n == GuessesIn(k, t)
        IN  /\ n <= GuessLimit
            /\ Open(t) =>
                 /\ e = NoEntry => n <= Leftover
                 /\ e # NoEntry /\ e.lockedUntil = Never =>
                      n <= IF e.first + Patience < t THEN e.count - 1 ELSE Leftover + e.count
                 /\ e.lockedUntil # Never =>
                      IF e.lockedUntil + Patience < t + Lockout
                      THEN n = 0 /\ PastCheck(k, t) = {}
                      ELSE n + Cardinality(PastCheck(k, t)) <= GuessLimit

ThrottleInv == AgeInv /\ EntryInv /\ PaceInv
=============================================================================
