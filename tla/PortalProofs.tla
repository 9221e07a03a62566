---------------------------- MODULE PortalProofs ----------------------------
(***************************************************************************)
(* Proofs about Portal, for every number of users, requests, tokens and    *)
(* keys, every length of the clock and of the audit trail, and every       *)
(* configuration of the throttle.                                          *)
(***************************************************************************)
EXTENDS Portal, Induction, FiniteSetTheorems, FunctionTheorems, TLAPS

-----------------------------------------------------------------------------
(* Types.                                                                  *)

\* cleanup, blocked, fail and clear keep the failure table a table.
LEMMA CleanupType ==
    ASSUME NEW f \in Failures, NEW now \in Nat
    PROVE  Cleanup(f, now) \in Failures
  BY DEF Cleanup, Failures, Entry, NoEntry, Never

LEMMA ThrottleTypes ==
    ASSUME NEW f \in Failures, NEW k \in Keys, NEW now \in Nat
    PROVE  /\ AfterBlocked(f, k, now) \in Failures
           /\ AfterFail(f, k, now) \in Failures
           /\ AfterClear(f, k) \in Failures
<1> DEFINE g == Cleanup(f, now)
<1>1. g \in Failures
  BY CleanupType
<1>2. NoEntry \in Entry
  BY DEF NoEntry, Entry, Never
<1>3. ASSUME NEW e \in Entry
      PROVE  Counted(Opened(e, now), now) \in Entry
  <2>1. Lockout \in Nat
    BY LockoutAssumption
  <2>2. Opened(e, now) \in Entry
    BY <1>2 DEF Opened, Entry, NoEntry, Never
  <2>3. ASSUME NEW o \in Entry PROVE Counted(o, now) \in Entry
    <3>1. /\ o.count + 1 \in Nat /\ now + Lockout \in Nat
          /\ (IF o.count + 1 >= MaxFailures THEN now + Lockout ELSE o.lockedUntil) \in Nat
      BY <2>1 DEF Entry
    <3>2. QED
      BY <3>1 DEF Counted, Entry
  <2>4. QED
    BY <2>2, <2>3
<1> HIDE DEF g
<1>4. g.entries \in [Keys -> Entry] /\ g.lastCleanup \in Nat
  BY <1>1 DEF Failures
<1>5. AfterBlocked(f, k, now) \in Failures
  BY <1>1, <1>2, <1>4 DEF AfterBlocked, Failures, g
<1>6. AfterFail(f, k, now) \in Failures
  BY <1>1, <1>3, <1>4 DEF AfterFail, Failures, g
<1>7. AfterClear(f, k) \in Failures
  BY <1>2 DEF AfterClear, Failures
<1>8. QED
  BY <1>5, <1>6, <1>7

LEMMA NewFailuresType == NewFailures \in Failures
  BY DEF NewFailures, Failures, Entry, NoEntry, Never

\* The request a client has not sent yet, and every step of one, is a Request.
LEMMA IdleType == Idle \in Request /\ Absent \in Row /\ Provisioned \in Row
  BY PortalAssumption DEF Idle, Request, Points, Row, Absent, Provisioned, Never

\* What the steps of one request write into it.
LEMMA RequestFields ==
    ASSUME NEW q \in Request
    PROVE  /\ \A pc \in Points : [q EXCEPT !.pc = pc] \in Request
           /\ \A n \in Names \cup {None} : [q EXCEPT !.name = n] \in Request
           /\ \A t \in Tokens \cup {None} : [q EXCEPT !.tok = t] \in Request
           /\ \A t \in 0..MaxTime : [q EXCEPT !.now = t] \in Request
           /\ \A e \in Nat : [q EXCEPT !.seen = e] \in Request
           /\ \A p \in SUBSET Permissions : [q EXCEPT !.perms = p] \in Request
           /\ \A a \in Acts \cup {None} : [q EXCEPT !.act = a] \in Request
           /\ \A n \in Names \cup {None} : [q EXCEPT !.target = n] \in Request
           /\ \A row \in Row : [q EXCEPT !.row = row] \in Request
           /\ \A dead \in SUBSET Tokens : [q EXCEPT !.dead = dead] \in Request
<1>1. \A pc \in Points : [q EXCEPT !.pc = pc] \in Request
  BY DEF Request
<1>2. \A n \in Names \cup {None} : [q EXCEPT !.name = n] \in Request
  BY DEF Request
<1>3. \A t \in Tokens \cup {None} : [q EXCEPT !.tok = t] \in Request
  BY DEF Request
<1>4. \A t \in 0..MaxTime : [q EXCEPT !.now = t] \in Request
  BY DEF Request
<1>5. \A e \in Nat : [q EXCEPT !.seen = e] \in Request
  BY DEF Request
<1>6. \A p \in SUBSET Permissions : [q EXCEPT !.perms = p] \in Request
  BY DEF Request
<1>7. \A a \in Acts \cup {None} : [q EXCEPT !.act = a] \in Request
  BY DEF Request
<1>8. \A n \in Names \cup {None} : [q EXCEPT !.target = n] \in Request
  BY DEF Request
<1>9. \A row \in Row : [q EXCEPT !.row = row] \in Request
  BY DEF Request
<1>10. \A dead \in SUBSET Tokens : [q EXCEPT !.dead = dead] \in Request
  BY DEF Request
<1>11. QED
  BY <1>1, <1>2, <1>3, <1>4, <1>5, <1>6, <1>7, <1>8, <1>9, <1>10

LEMMA RequestTypes ==
    ASSUME TypeOK, NEW r \in Requests, (\E pc \in Points : Goto(r, pc)) \/ Respond(r)
    PROVE  req' \in [Requests -> Request]
<1>1. req \in [Requests -> Request] /\ Idle \in Request
  BY IdleType DEF TypeOK
<1>2. ASSUME NEW pc \in Points, Goto(r, pc) PROVE req' \in [Requests -> Request]
  BY <1>1, <1>2, RequestFields DEF Goto
<1>3. CASE Respond(r)
  BY <1>1, <1>3 DEF Respond
<1>4. QED
  BY <1>2, <1>3

\* A finite set has an enumeration without repetitions, and SetToSeq is one.
LEMMA Enumeration ==
    ASSUME NEW S, IsFiniteSet(S)
    PROVE  /\ SetToSeq(S) \in [1..Cardinality(S) -> S] /\ Cardinality(S) \in Nat
           /\ \A x \in S : \E i \in 1..Cardinality(S) : SetToSeq(S)[i] = x
           /\ \A i, j \in 1..Cardinality(S) : SetToSeq(S)[i] = SetToSeq(S)[j] => i = j
<1> DEFINE n == Cardinality(S)
           F == SetToSeq(S)
<1>1. n \in Nat /\ ExistsBijection(1..n, S)
  BY FS_CardinalityType
<1> HIDE DEF n
<1>2. PICK f : f \in Bijection(1..n, S)
  BY <1>1 DEF ExistsBijection
<1>3. f \in [1..n -> S] /\ IsInjective(f)
  BY <1>2 DEF Bijection, Injection
<1>4. F = CHOOSE g \in [1..n -> S] : IsInjective(g)
  BY DEF SetToSeq, n
<1>5. F \in [1..n -> S] /\ IsInjective(F)
  <2> HIDE DEF F
  <2> QED BY <1>3, <1>4
<1> HIDE DEF F
<1>6. \A i, j \in 1..n : F[i] = F[j] => i = j
  BY <1>5 DEF IsInjective
<1>7. F \in Injection(1..n, S)
  BY <1>5, <1>6, Fun_IsInj
<1>8. Cardinality(1..n) = n
  BY <1>1, FS_Interval
<1>9. F \in Surjection(1..n, S)
  BY <1>7, <1>8, FS_Injection DEF n
<1>10. \A x \in S : \E i \in 1..n : F[i] = x
  BY <1>9 DEF Surjection
<1>11. QED
  BY <1>1, <1>5, <1>6, <1>10 DEF n, F

\* Bootstrap appends one event for each user it grants the permission, and no
\* others.
Booted(n) == ActiveManagers(users) = {} /\ n \in Managers

LEMMA BootstrapEvents ==
    ASSUME TypeOK, Bootstrap
    PROVE  \E t \in Seq(AuditEvent) :
              /\ log' = log \o t
              /\ \A i \in DOMAIN t : t[i].act = "bootstrap" /\ Booted(t[i].user)
              /\ \A i, j \in DOMAIN t : t[i].user = t[j].user => i = j
              /\ \A n \in Names : Booted(n) => \E i \in DOMAIN t : t[i].user = n
<1> DEFINE boot == IF ActiveManagers(users) = {} THEN Managers ELSE {}
           ev(n) == Event("bootstrap", n, users[n], users'[n])
           E == {ev(n) : n \in boot}
           t == SetToSeq(E)
<1>1. \A n \in Names : n \in boot <=> Booted(n)
  BY DEF Booted
<1>2. boot \subseteq Names /\ IsFiniteSet(boot)
  BY PortalAssumption, FS_EmptySet
<1>3. log' = log \o t
  BY DEF Bootstrap
<1>4. users \in [Names -> Row] /\ users' \in [Names -> Row]
  BY PortalAssumption DEF Bootstrap, Bootstrapped, Row, TypeOK
<1>5. ASSUME NEW n \in boot
      PROVE  ev(n) \in AuditEvent /\ ev(n).act = "bootstrap" /\ ev(n).user = n
  BY <1>2, <1>4 DEF Event, AuditEvent, Row
<1> HIDE DEF boot, ev
<1>6. IsFiniteSet(E)
  <2> DEFINE f == [n \in boot |-> ev(n)]
  <2>1. f \in Surjection(boot, E)
    <3>1. f \in [boot -> E] /\ \A e \in E : \E n \in boot : f[n] = e
      OBVIOUS
    <3> HIDE DEF f, E
    <3>2. QED
      BY <3>1, Fun_IsSurj
  <2> HIDE DEF f, E
  <2>2. QED
    BY <2>1, <1>2, FS_Surjection
<1>7. \A e \in E : e \in AuditEvent /\ e.act = "bootstrap" /\ e.user \in boot /\ e = ev(e.user)
  BY <1>5
<1>8. \A n \in boot : ev(n) \in E /\ ev(n).user = n
  BY <1>5
<1> HIDE DEF E
<1>9. /\ t \in [1..Cardinality(E) -> E] /\ Cardinality(E) \in Nat
      /\ \A x \in E : \E i \in 1..Cardinality(E) : t[i] = x
      /\ \A i, j \in 1..Cardinality(E) : t[i] = t[j] => i = j
  BY <1>6, Enumeration
<1> HIDE DEF t
<1>10. DOMAIN t = 1..Cardinality(E) /\ \A i \in DOMAIN t : t[i] \in E
  BY <1>9
<1>11. t \in Seq(AuditEvent)
  <2>1. \A i \in 1..Cardinality(E) : t[i] \in AuditEvent
    BY <1>7, <1>10
  <2>2. t \in [1..Cardinality(E) -> AuditEvent]
    BY <1>9, <2>1
  <2>3. QED
    BY <1>9, <2>2
<1>12. \A i \in DOMAIN t : t[i].act = "bootstrap" /\ Booted(t[i].user)
  BY <1>1, <1>2, <1>7, <1>10
<1>13. \A i, j \in DOMAIN t : t[i].user = t[j].user => i = j
  BY <1>7, <1>9, <1>10
<1>14. \A n \in Names : Booted(n) => \E i \in DOMAIN t : t[i].user = n
  BY <1>1, <1>8, <1>9, <1>10
<1>15. QED
  BY <1>3, <1>11, <1>12, <1>13, <1>14

\* Every step preserves the types.
LEMMA TypeStep == TypeOK /\ PointInv /\ [Next]_vars => TypeOK'
<1> SUFFICES ASSUME TypeOK, PointInv, [Next]_vars PROVE TypeOK'
  OBVIOUS
<1>a. /\ phase \in {"starting", "serving"} /\ clock \in Time /\ users \in [Names -> Row]
      /\ sessions \in [Tokens -> Session \cup {None}] /\ owner \in [Tokens -> Names \cup {None}]
      /\ log \in Seq(AuditEvent) /\ failures \in Failures /\ req \in [Requests -> Request]
      /\ lock \in Requests \cup {None} /\ epoch \in [Names -> Nat]
      /\ provisioned \in [Names -> Nat] /\ guesses \in [Keys -> [Time -> Nat]]
  BY DEF TypeOK
<1>b. Idle \in Request /\ Absent \in Row /\ Provisioned \in Row
  BY IdleType
<1>c. \A n \in Names : Fold[n] \in Keys
  BY PortalAssumption
<1> USE DEF history, At
<1>1. ASSUME NEW r \in Requests, LoadPrincipal(r) PROVE TypeOK'
  <2>1. ASSUME NEW t \in Tokens, owner[t] # None
        PROVE  [Idle EXCEPT !.pc = "session", !.tok = t, !.now = clock, !.seen = epoch[owner[t]]] \in Request
    <3>1. epoch[owner[t]] \in Nat /\ clock \in 0..MaxTime /\ "session" \in Points
      BY <1>a, <2>1 DEF Time, Points
    <3>2. QED
      BY <1>b, <3>1, RequestFields
  <2>2. req' \in [Requests -> Request]
    <3>1. CASE Goto(r, "guest")
      BY <3>1, RequestTypes DEF Points
    <3>2. CASE \E t \in Tokens :
                 /\ owner[t] # None
                 /\ req' = [req EXCEPT ![r] = [Idle EXCEPT !.pc = "session", !.tok = t, !.now = clock,
                                                           !.seen = epoch[owner[t]]]]
      BY <1>a, <3>2, <2>1
    <3>3. QED
      BY <1>1, <3>1, <3>2 DEF LoadPrincipal
  <2>3. QED
    BY <1>1, <1>a, <2>2 DEF LoadPrincipal, TypeOK
<1>2. ASSUME NEW r \in Requests, FindValidSession(r) PROVE TypeOK'
  <2>1. req[r].tok \in Tokens
    BY <1>2 DEF FindValidSession, PointInv, Resolving
  <2>2. req' \in [Requests -> Request]
    <3>1. CASE Goto(r, "guest")
      BY <3>1, RequestTypes DEF Points
    <3>2. CASE sessions[req[r].tok] # None
               /\ req' = [req EXCEPT ![r].pc = "user", ![r].name = sessions[req[r].tok].user]
      <4>1. sessions[req[r].tok].user \in Names
        BY <1>a, <2>1, <3>2 DEF Session
      <4>2. QED
        BY <1>a, <3>2, <4>1, RequestFields DEF Points
    <3>3. QED
      BY <1>2, <3>1, <3>2 DEF FindValidSession
  <2>3. QED
    BY <1>2, <1>a, <2>2 DEF FindValidSession, TypeOK
<1>3. ASSUME NEW r \in Requests, FindByID(r) PROVE TypeOK'
  <2>1. req' \in [Requests -> Request]
    BY <1>3, RequestTypes DEF FindByID, Points
  <2>2. QED
    BY <1>3, <1>a, <2>1 DEF FindByID, TypeOK
<1>4. ASSUME NEW r \in Requests, RevokeUnauthenticated(r) PROVE TypeOK'
  <2>1. req' \in [Requests -> Request]
    BY <1>4, <1>a, RequestFields DEF RevokeUnauthenticated, Points
  <2>2. sessions' \in [Tokens -> Session \cup {None}]
    BY <1>4, <1>a DEF RevokeUnauthenticated, Revoke
  <2>3. QED
    BY <1>4, <1>a, <2>1, <2>2 DEF RevokeUnauthenticated, TypeOK
<1>5. ASSUME NEW r \in Requests, ListPermissionKeysForUser(r) PROVE TypeOK'
  <2>1. req[r].name \in Names
    BY <1>5 DEF ListPermissionKeysForUser, PointInv
  <2>2. users[req[r].name].perms \in SUBSET Permissions
    BY <1>a, <2>1 DEF Row
  <2>3. req' \in [Requests -> Request]
    BY <1>5, <1>a, <2>2, RequestFields DEF ListPermissionKeysForUser, Points
  <2>4. QED
    BY <1>5, <1>a, <2>3 DEF ListPermissionKeysForUser, TypeOK
<1>6. ASSUME NEW r \in Requests, Answer(r) \/ InternalError(r) PROVE TypeOK'
  <2>1. req' \in [Requests -> Request]
    BY <1>6, RequestTypes DEF Answer, InternalError
  <2>2. QED
    BY <1>6, <1>a, <2>1 DEF Answer, InternalError, TypeOK
<1>7. ASSUME NEW r \in Requests, Logout(r) PROVE TypeOK'
  <2>1. req' \in [Requests -> Request]
    BY <1>7, RequestTypes DEF Logout
  <2>2. sessions' \in [Tokens -> Session \cup {None}]
    BY <1>7, <1>a DEF Logout, Revoke
  <2>3. QED
    BY <1>7, <1>a, <2>1, <2>2 DEF Logout, TypeOK
<1>8. ASSUME NEW r \in Requests, SubmitLogin(r) PROVE TypeOK'
  <2>1. req' \in [Requests -> Request]
    <3>1. ASSUME NEW n \in Names
          PROVE  [Idle EXCEPT !.pc = "blocked", !.name = n, !.now = clock] \in Request
      <4>1. clock \in 0..MaxTime /\ "blocked" \in Points
        BY <1>a DEF Time, Points
      <4>2. QED
        BY <1>b, <4>1, RequestFields
    <3>2. QED
      BY <1>8, <1>a, <3>1 DEF SubmitLogin
  <2>2. QED
    BY <1>8, <1>a, <2>1 DEF SubmitLogin, TypeOK
<1>9. ASSUME NEW r \in Requests, Blocked(r) \/ Authenticate(r) \/ FailLogin(r) \/ ClearFailures(r)
      PROVE  TypeOK'
  <2>1. req[r].name \in Names /\ KeyOf(r) \in Keys /\ req[r].now \in Nat
    BY <1>9, <1>a, <1>c
    DEF Blocked, Authenticate, FailLogin, ClearFailures, PointInv, LoggingIn, KeyOf, Request
  <2>2. req' \in [Requests -> Request]
    BY <1>9, RequestTypes
    DEF Blocked, Authenticate, FailLogin, ClearFailures, Points
  <2>3. failures' \in Failures
    BY <1>9, <1>a, <2>1, ThrottleTypes DEF Blocked, Authenticate, FailLogin, ClearFailures
  <2>4. guesses' \in [Keys -> [Time -> Nat]]
    <3>1. CASE Blocked(r) \/ Authenticate(r)
      BY <3>1, <1>a DEF Blocked, Authenticate
    <3>2. CASE FailLogin(r)
      <4>1. req[r].now \in Time
        BY <3>2 DEF FailLogin, PointInv, LoggingIn
      <4>2. [guesses EXCEPT ![KeyOf(r)][req[r].now] = @ + 1] \in [Keys -> [Time -> Nat]]
        BY <1>a, <2>1, <4>1
      <4>3. QED
        BY <3>2, <1>a, <4>2 DEF FailLogin
    <3>3. CASE ClearFailures(r)
      BY <3>3, <1>a DEF ClearFailures
    <3>4. QED
      BY <1>9, <3>1, <3>2, <3>3
  <2>5. UNCHANGED <<phase, clock, users, sessions, log, lock, owner, epoch, provisioned>>
    BY <1>9 DEF Blocked, Authenticate, FailLogin, ClearFailures
  <2>6. QED
    BY <1>a, <2>2, <2>3, <2>4, <2>5 DEF TypeOK
<1>10. ASSUME NEW r \in Requests, FindByUsername(r) PROVE TypeOK'
  <2>1. req' \in [Requests -> Request]
    BY <1>10, RequestTypes DEF FindByUsername, Points
  <2>2. QED
    BY <1>10, <1>a, <2>1 DEF FindByUsername, TypeOK
<1>11. ASSUME NEW r \in Requests, CreateUser(r) PROVE TypeOK'
  <2>1. req' \in [Requests -> Request]
    BY <1>11, RequestTypes DEF CreateUser, Points
  <2>2. users' \in [Names -> Row] /\ provisioned' \in [Names -> Nat]
    <3>1. req[r].name \in Names
      BY <1>11 DEF CreateUser, PointInv, LoggingIn
    <3>2. QED
      <4>1. CASE users[req[r].name].exists
        BY <1>11, <1>a, <4>1 DEF CreateUser
      <4>2. CASE ~users[req[r].name].exists
        <5>1. /\ users' = [users EXCEPT ![req[r].name] = Provisioned]
              /\ provisioned' = [provisioned EXCEPT ![req[r].name] = @ + 1]
          BY <1>11, <4>2 DEF CreateUser
        <5>2. QED
          BY <1>a, <1>b, <3>1, <5>1
      <4>3. QED
        BY <4>1, <4>2
  <2>3. QED
    BY <1>11, <1>a, <2>1, <2>2 DEF CreateUser, TypeOK
<1>12. ASSUME NEW r \in Requests, CreateSession(r) PROVE TypeOK'
  <2>1. req' \in [Requests -> Request]
    BY <1>12, RequestTypes DEF CreateSession
  <2>2. req[r].name \in Names
    BY <1>12 DEF CreateSession, PointInv, LoggingIn
  <2>3. ASSUME NEW life \in Lifetimes
        PROVE  [user |-> req[r].name, expires |-> req[r].now + life, epoch |-> epoch[req[r].name]] \in Session
    <3>1. req[r].now \in Nat /\ life \in Nat /\ epoch[req[r].name] \in Nat
      BY <1>a, <2>2, PortalAssumption DEF Request
    <3>2. QED
      BY <2>2, <3>1 DEF Session
  <2>4. owner' \in [Tokens -> Names \cup {None}] /\ sessions' \in [Tokens -> Session \cup {None}]
    BY <1>12, <1>a, <2>2, <2>3 DEF CreateSession
  <2>5. QED
    BY <1>12, <1>a, <2>1, <2>4 DEF CreateSession, TypeOK
<1>13. ASSUME NEW r \in Requests, BeginChange(r) PROVE TypeOK'
  <2>1. req' \in [Requests -> Request]
    <3>1. PICK n \in Names, act \in Acts :
             req' = [req EXCEPT ![r].pc = "lock", ![r].act = act, ![r].target = n]
      BY <1>13 DEF BeginChange
    <3> DEFINE q1 == [req[r] EXCEPT !.pc = "lock"]
               q2 == [q1 EXCEPT !.act = act]
               q3 == [q2 EXCEPT !.target = n]
    <3>2. req' = [req EXCEPT ![r] = q3]
      BY <1>a, <3>1
    <3>3. q1 \in Request
      BY <1>a, RequestFields DEF Points
    <3>4. q2 \in Request
      <4> HIDE DEF q1
      <4> QED BY <3>3, RequestFields
    <3>5. q3 \in Request
      <4> HIDE DEF q2
      <4> QED BY <3>4, RequestFields
    <3> HIDE DEF q3
    <3>6. QED
      BY <1>a, <3>2, <3>5
  <2>2. QED
    BY <1>13, <1>a, <2>1 DEF BeginChange, TypeOK
<1>14. ASSUME NEW r \in Requests, LockManagePermission(r) \/ Rollback(r) PROVE TypeOK'
  <2>1. req' \in [Requests -> Request]
    BY <1>14, RequestTypes DEF LockManagePermission, Rollback, Points
  <2>2. lock' \in Requests \cup {None}
    BY <1>14, <1>a DEF LockManagePermission, Rollback
  <2>3. QED
    BY <1>14, <1>a, <2>1, <2>2 DEF LockManagePermission, Rollback, TypeOK
<1>15. ASSUME NEW r \in Requests, NEW row \in Row, NEW dead \in SUBSET Tokens, NEW checked,
              Statements(r, row, dead, checked)
       PROVE  TypeOK'
  <2>1. req' \in [Requests -> Request]
    <3>1. [req EXCEPT ![r].pc = "commit", ![r].row = row, ![r].dead = dead] \in [Requests -> Request]
      BY <1>a, RequestFields DEF Points
    <3>2. QED
      BY <1>15, <3>1, RequestTypes DEF Statements
  <2>2. lock' \in Requests \cup {None}
    BY <1>15, <1>a DEF Statements
  <2>3. QED
    BY <1>15, <1>a, <2>1, <2>2 DEF Statements, TypeOK
<1>16. ASSUME NEW r \in Requests, ReplacePermissions(r) PROVE TypeOK'
  <2>1. PICK selected \in SUBSET Canonical :
            Statements(r, Replaced(users[req[r].target], selected), {}, users[req[r].target].active)
    BY <1>16 DEF ReplacePermissions
  <2>2. users[req[r].target] \in Row
    BY <2>1, <1>a DEF Statements, PointInv, Changing
  <2>3. Replaced(users[req[r].target], selected) \in Row
    BY <2>2, PortalAssumption DEF Replaced, Row
  <2>4. QED
    BY <1>15, <2>1, <2>3
<1>17. ASSUME NEW r \in Requests, SetUserActive(r) PROVE TypeOK'
  <2> DEFINE active == req[r].act = "activated"
             row == [users[req[r].target] EXCEPT !.active = active]
             dead == IF active THEN {} ELSE SessionsOf(req[r].target)
  <2>1. Statements(r, row, dead, ~active)
    BY <1>17 DEF SetUserActive
  <2>2. users[req[r].target] \in Row
    BY <2>1, <1>a DEF Statements, PointInv, Changing
  <2>3. row \in Row
    BY <2>2 DEF Row
  <2>4. dead \in SUBSET Tokens
    BY DEF SessionsOf
  <2> HIDE DEF row, dead
  <2>5. QED
    BY <1>15, <2>1, <2>3, <2>4
<1>18. ASSUME NEW r \in Requests, Commit(r) PROVE TypeOK'
  <2>1. req' \in [Requests -> Request]
    BY <1>18, RequestTypes DEF Commit
  <2>2. /\ req[r].target \in Names /\ req[r].act \in Acts /\ req[r].row \in Row
        /\ users[req[r].target] \in Row
    BY <1>18, <1>a DEF Commit, PointInv, Changing, Request
  <2>3. Event(req[r].act, req[r].target, users[req[r].target], req[r].row) \in AuditEvent
    BY <2>2 DEF Event, AuditEvent, Row
  <2>4. log' \in Seq(AuditEvent)
    BY <1>18, <1>a, <2>3 DEF Commit
  <2>5. users' \in [Names -> Row] /\ epoch' \in [Names -> Nat]
    BY <1>18, <1>a, <2>2 DEF Commit
  <2>6. sessions' \in [Tokens -> Session \cup {None}] /\ lock' \in Requests \cup {None}
    BY <1>18, <1>a DEF Commit
  <2>7. QED
    BY <1>18, <1>a, <2>1, <2>4, <2>5, <2>6 DEF Commit, TypeOK
<1>19. CASE Bootstrap
  <2>1. users' \in [Names -> Row]
    BY <1>19, <1>a, PortalAssumption DEF Bootstrap, Bootstrapped, Row
  <2>2. log' \in Seq(AuditEvent)
    <3>1. PICK t \in Seq(AuditEvent) : log' = log \o t
      BY <1>19, BootstrapEvents
    <3>2. QED
      BY <1>a, <3>1
  <2>3. QED
    BY <1>19, <1>a, <2>1, <2>2 DEF Bootstrap, TypeOK
<1>20. CASE DeleteExpired
  <2>1. sessions' \in [Tokens -> Session \cup {None}]
    BY <1>20, <1>a DEF DeleteExpired
  <2>2. QED
    BY <1>20, <1>a, <2>1 DEF DeleteExpired, TypeOK
<1>21. CASE Crash
  <2>1. req' \in [Requests -> Request] /\ failures' \in Failures
    BY <1>21, <1>b, NewFailuresType DEF Crash
  <2>2. guesses' \in [Keys -> [Time -> Nat]]
    BY <1>21 DEF Crash
  <2>3. QED
    BY <1>21, <1>a, <2>1, <2>2 DEF Crash, TypeOK
<1>22. CASE Tick
  BY <1>22, <1>a, PortalAssumption DEF Tick, Time, TypeOK
<1>23. CASE UNCHANGED vars
  BY <1>23, <1>a DEF vars, TypeOK
<1>24. QED
  BY <1>1, <1>2, <1>3, <1>4, <1>5, <1>6, <1>7, <1>8, <1>9, <1>10, <1>11, <1>12, <1>13, <1>14,
     <1>16, <1>17, <1>18, <1>19, <1>20, <1>21, <1>22, <1>23
  DEF Next, ResolveSession, Login, AccessChange

-----------------------------------------------------------------------------
(* What a request knows.                                                   *)

\* A step of one request leaves the others alone.
RequestStep(r) ==
    \/ LoadPrincipal(r) \/ ResolveSession(r) \/ Answer(r) \/ InternalError(r) \/ Logout(r)
    \/ SubmitLogin(r) \/ Login(r) \/ AccessChange(r)

LEMMA OthersUnchanged ==
    ASSUME TypeOK, NEW r \in Requests, RequestStep(r)
    PROVE  \A q \in Requests : q # r => req'[q] = req[q]
<1>1. req \in [Requests -> Request]
  BY DEF TypeOK
<1> USE DEF Goto, Respond
<1>2. CASE LoadPrincipal(r) \/ Answer(r) \/ InternalError(r) \/ Logout(r) \/ SubmitLogin(r)
  BY <1>1, <1>2 DEF LoadPrincipal, Answer, InternalError, Logout, SubmitLogin
<1>3. CASE ResolveSession(r)
  BY <1>1, <1>3 DEF ResolveSession, FindValidSession, FindByID, RevokeUnauthenticated,
                    ListPermissionKeysForUser
<1>4. CASE Blocked(r) \/ Authenticate(r) \/ FailLogin(r) \/ ClearFailures(r)
  BY <1>1, <1>4 DEF Blocked, Authenticate, FailLogin, ClearFailures
<1>5. CASE FindByUsername(r) \/ CreateUser(r) \/ CreateSession(r)
  BY <1>1, <1>5 DEF FindByUsername, CreateUser, CreateSession
<1>6. CASE BeginChange(r) \/ LockManagePermission(r) \/ Commit(r) \/ Rollback(r)
  BY <1>1, <1>6 DEF BeginChange, LockManagePermission, Commit, Rollback
<1>7. CASE ReplacePermissions(r) \/ SetUserActive(r)
  BY <1>1, <1>7 DEF ReplacePermissions, SetUserActive, Statements
<1>8. QED
  BY <1>2, <1>3, <1>4, <1>5, <1>6, <1>7 DEF RequestStep, Login, AccessChange

\* The handlers read the cookie, the form and the target before they use them.
LEMMA PointStep == TypeOK /\ PointInv /\ [Next]_vars => PointInv'
<1> SUFFICES ASSUME TypeOK, PointInv, [Next]_vars PROVE PointInv'
  OBVIOUS
<1>a. req \in [Requests -> Request] /\ owner \in [Tokens -> Names \cup {None}]
      /\ sessions \in [Tokens -> Session \cup {None}] /\ clock \in Time
  BY DEF TypeOK
<1> DEFINE P(q) == /\ q.pc \in {"user", "perms", "serve"} \cup LoggingIn => q.name \in Names
                   /\ q.pc \in Resolving => q.tok \in Tokens
                   /\ q.pc \in LoggingIn => q.now \in Time
                   /\ q.pc \in Changing => q.act \in Acts /\ q.target \in Names
<1>b. PointInv <=> \A r \in Requests : P(req[r])
  BY DEF PointInv
<1>c. PointInv' <=> \A r \in Requests : P(req'[r])
  BY DEF PointInv
<1>d. P(Idle)
  BY DEF Idle, LoggingIn, Resolving, Changing
<1>1. ASSUME NEW r \in Requests, RequestStep(r) PROVE P(req'[r])
  <2> USE <1>a, <1>b, <1>d DEF At, Goto, Respond, LoggingIn, Resolving, Changing
  <2>a. Respond(r) => P(req'[r])
    OBVIOUS
  <2>b. Goto(r, "guest") => P(req'[r])
    OBVIOUS
  <2>1. CASE LoadPrincipal(r)
    <3>1. ASSUME NEW t \in Tokens, NEW e,
                 req' = [req EXCEPT ![r] = [Idle EXCEPT !.pc = "session", !.tok = t, !.now = clock,
                                                        !.seen = e]]
          PROVE  P(req'[r])
      <4>1. req'[r].pc = "session" /\ req'[r].tok = t
        BY <3>1 DEF Idle
      <4>2. QED
        BY <4>1
    <3>2. QED
      BY <2>1, <2>b, <3>1 DEF LoadPrincipal
  <2>2. CASE FindValidSession(r)
    <3>1. req[r].tok \in Tokens
      BY <2>2 DEF FindValidSession
    <3>2. CASE sessions[req[r].tok] # None
               /\ req' = [req EXCEPT ![r].pc = "user", ![r].name = sessions[req[r].tok].user]
      <4>1. sessions[req[r].tok].user \in Names
        BY <3>1, <3>2 DEF Session
      <4>2. req'[r].pc = "user" /\ req'[r].name \in Names /\ req'[r].tok = req[r].tok
        BY <3>2, <4>1 DEF Request
      <4>3. QED
        BY <3>1, <4>2
    <3>3. QED
      BY <2>2, <2>b, <3>2 DEF FindValidSession
  <2>3. CASE FindByID(r)
    BY <1>1, <2>3 DEF FindByID
  <2>4. CASE RevokeUnauthenticated(r)
    BY <1>1, <2>4 DEF RevokeUnauthenticated
  <2>5. CASE ListPermissionKeysForUser(r)
    BY <1>1, <2>5 DEF ListPermissionKeysForUser
  <2>6. CASE Answer(r)
    BY <1>1, <2>6 DEF Answer
  <2>7. CASE InternalError(r)
    BY <1>1, <2>7 DEF InternalError
  <2>8. CASE Logout(r)
    BY <1>1, <2>8 DEF Logout
  <2>9. CASE SubmitLogin(r)
    BY <1>1, <2>9 DEF SubmitLogin
  <2>10. CASE Blocked(r)
    <3>1. Goto(r, "auth") => P(req'[r])
      BY <2>10 DEF Blocked
    <3>2. QED
      BY <2>10, <2>a, <3>1 DEF Blocked
  <2>11. CASE Authenticate(r)
    BY <1>1, <2>11 DEF Authenticate
  <2>12. CASE FailLogin(r)
    BY <1>1, <2>12 DEF FailLogin
  <2>13. CASE ClearFailures(r)
    BY <1>1, <2>13 DEF ClearFailures
  <2>14. CASE FindByUsername(r)
    <3>1. \A pc \in {"insert", "create"} : Goto(r, pc) => P(req'[r])
      BY <2>14 DEF FindByUsername
    <3>2. QED
      BY <2>14, <2>a, <3>1 DEF FindByUsername
  <2>15. CASE CreateUser(r)
    <3>1. \A pc \in {"insert", "refind"} : Goto(r, pc) => P(req'[r])
      BY <2>15 DEF CreateUser
    <3>2. QED
      BY <2>15, <3>1 DEF CreateUser
  <2>16. CASE CreateSession(r)
    BY <1>1, <2>16 DEF CreateSession
  <2>17. CASE BeginChange(r)
    BY <1>1, <2>17 DEF BeginChange
  <2>18. CASE LockManagePermission(r)
    BY <1>1, <2>18 DEF LockManagePermission
  <2>19. CASE Rollback(r)
    BY <1>1, <2>19 DEF Rollback
  <2>20. CASE Commit(r)
    BY <1>1, <2>20 DEF Commit
  <2>21. ASSUME NEW row, NEW dead, NEW checked, Statements(r, row, dead, checked) PROVE P(req'[r])
    <3>1. CASE req' = [req EXCEPT ![r].pc = "commit", ![r].row = row, ![r].dead = dead]
      <4>1. /\ req'[r].pc = "commit" /\ req'[r].act = req[r].act
            /\ req'[r].target = req[r].target
        BY <3>1 DEF Request
      <4>2. QED
        BY <2>21, <4>1 DEF Statements
    <3>2. QED
      BY <2>21, <2>a, <3>1 DEF Statements
  <2>22. CASE ReplacePermissions(r) \/ SetUserActive(r)
    BY <2>21, <2>22 DEF ReplacePermissions, SetUserActive
  <2>23. QED
    BY <1>1, <2>1, <2>2, <2>3, <2>4, <2>5, <2>6, <2>7, <2>8, <2>9, <2>10, <2>11, <2>12, <2>13, <2>14, <2>15, <2>16, <2>17, <2>18, <2>19, <2>20, <2>21, <2>22
    DEF RequestStep, ResolveSession, Login, AccessChange
<1>2. ASSUME NEW r \in Requests, RequestStep(r) PROVE PointInv'
  BY <1>1, <1>2, <1>b, <1>c, OthersUnchanged
<1>3. CASE Crash
  BY <1>3, <1>c, <1>d DEF Crash
<1>4. CASE Bootstrap \/ DeleteExpired \/ Tick \/ UNCHANGED vars
  BY <1>4, <1>b, <1>c DEF Bootstrap, DeleteExpired, Tick, vars
<1>5. QED
  BY <1>2, <1>3, <1>4 DEF Next, RequestStep

-----------------------------------------------------------------------------
(* The transactions.                                                       *)

\* Outside the transactions nobody takes or gives back the lock.
PlainStep(r) ==
    \/ LoadPrincipal(r) \/ ResolveSession(r) \/ Answer(r) \/ InternalError(r) \/ Logout(r)
    \/ SubmitLogin(r) \/ Login(r) \/ BeginChange(r)

LEMMA PlainSteps ==
    ASSUME TypeOK, NEW r \in Requests, PlainStep(r)
    PROVE  /\ UNCHANGED <<phase, lock, log, epoch>> /\ phase = "serving"
           /\ req[r].pc \notin {"tx", "commit"} /\ req'[r].pc \notin {"tx", "commit"}
<1>a. req \in [Requests -> Request]
  BY DEF TypeOK
<1>b. /\ Respond(r) => req'[r].pc = "idle"
      /\ \A pc : Goto(r, pc) => req'[r].pc = pc
  BY <1>a DEF Respond, Goto, Idle, Request
<1> USE DEF At, history
<1>1. CASE LoadPrincipal(r) \/ Answer(r) \/ InternalError(r) \/ Logout(r)
  <2>1. ASSUME NEW t, NEW e,
               req' = [req EXCEPT ![r] = [Idle EXCEPT !.pc = "session", !.tok = t, !.now = clock,
                                                      !.seen = e]]
        PROVE  req'[r].pc = "session"
    BY <2>1, <1>a DEF Idle
  <2>2. QED
    BY <1>1, <1>b, <2>1 DEF LoadPrincipal, Answer, InternalError, Logout
<1>2. CASE SubmitLogin(r)
  <2>1. ASSUME NEW n,
               req' = [req EXCEPT ![r] = [Idle EXCEPT !.pc = "blocked", !.name = n, !.now = clock]]
        PROVE  req'[r].pc = "blocked"
    BY <2>1, <1>a DEF Idle
  <2>2. QED
    BY <1>2, <2>1 DEF SubmitLogin
<1>3. CASE FindValidSession(r)
  <2>1. ASSUME NEW n, req' = [req EXCEPT ![r].pc = "user", ![r].name = n]
        PROVE  req'[r].pc = "user"
    BY <2>1, <1>a DEF Request
  <2>2. QED
    BY <1>3, <1>b, <2>1 DEF FindValidSession
<1>4. CASE FindByID(r) \/ RevokeUnauthenticated(r) \/ ListPermissionKeysForUser(r)
  <2>1. RevokeUnauthenticated(r) => req'[r].pc = "guest"
    BY <1>a DEF RevokeUnauthenticated, Request
  <2>2. ListPermissionKeysForUser(r) => req'[r].pc = "serve"
    BY <1>a DEF ListPermissionKeysForUser, Request
  <2>3. QED
    BY <1>4, <1>b, <2>1, <2>2 DEF FindByID, RevokeUnauthenticated, ListPermissionKeysForUser
<1>5. CASE Blocked(r) \/ Authenticate(r) \/ FailLogin(r) \/ ClearFailures(r)
  BY <1>5, <1>b DEF Blocked, Authenticate, FailLogin, ClearFailures
<1>6. CASE FindByUsername(r) \/ CreateUser(r) \/ CreateSession(r)
  BY <1>6, <1>b DEF FindByUsername, CreateUser, CreateSession
<1>7. CASE BeginChange(r)
  <2>1. ASSUME NEW n, NEW act, req' = [req EXCEPT ![r].pc = "lock", ![r].act = act, ![r].target = n]
        PROVE  req'[r].pc = "lock"
    BY <2>1, <1>a DEF Request
  <2>2. QED
    BY <1>7, <2>1 DEF BeginChange
<1>8. QED
  BY <1>1, <1>2, <1>3, <1>4, <1>5, <1>6, <1>7 DEF PlainStep, ResolveSession, Login

\* The statements of a transaction end in its commit point or roll it back.
LEMMA StatementSteps ==
    ASSUME TypeOK, NEW r \in Requests, NEW row, NEW dead, NEW checked,
           Statements(r, row, dead, checked)
    PROVE  /\ UNCHANGED <<phase, users, sessions, log, owner, epoch, provisioned>>
           /\ phase = "serving" /\ req[r].pc = "tx"
           /\ \/ /\ req'[r].pc = "commit" /\ lock' = lock
                 /\ req'[r].target = req[r].target /\ req'[r].act = req[r].act
                 /\ req'[r].row = row /\ req'[r].dead = dead
                 /\ users[req[r].target].exists
                 /\ checked => ActiveManagers([users EXCEPT ![req[r].target] = row]) # {}
              \/ req'[r] = Idle /\ lock' = None
<1>a. req \in [Requests -> Request]
  BY DEF TypeOK
<1>1. ASSUME req' = [req EXCEPT ![r].pc = "commit", ![r].row = row, ![r].dead = dead]
      PROVE  /\ req'[r].pc = "commit" /\ req'[r].row = row /\ req'[r].dead = dead
             /\ req'[r].target = req[r].target /\ req'[r].act = req[r].act
  BY <1>1, <1>a DEF Request
<1>2. Respond(r) => req'[r] = Idle
  BY <1>a DEF Respond
<1>3. QED
  BY <1>1, <1>2 DEF Statements, At, history

\* The row lock of the permission serialises the transactions.
LEMMA LockStep == TypeOK /\ LockInv /\ [Next]_vars => LockInv'
<1> SUFFICES ASSUME TypeOK, LockInv, [Next]_vars PROVE LockInv'
  OBVIOUS
<1>a. req \in [Requests -> Request] /\ None \notin Requests
  BY PortalAssumption DEF TypeOK
<1>b. Idle.pc = "idle"
  BY DEF Idle
<1>1. ASSUME NEW r \in Requests, PlainStep(r) PROVE LockInv'
  <2>1. \A q \in Requests : q # r => req'[q] = req[q]
    BY <1>1, OthersUnchanged DEF PlainStep, RequestStep, AccessChange
  <2>2. QED
    BY <1>1, <2>1, PlainSteps DEF LockInv
<1>2. ASSUME NEW r \in Requests, LockManagePermission(r) \/ Rollback(r) \/ Commit(r) PROVE LockInv'
  <2>1. \A q \in Requests : q # r => req'[q] = req[q]
    BY <1>2, OthersUnchanged DEF RequestStep, AccessChange
  <2>2. phase = "serving" /\ phase' = phase
    BY <1>2 DEF LockManagePermission, Rollback, Commit, At
  <2>3. CASE LockManagePermission(r)
    <3>1. req'[r].pc = "tx" /\ lock = None /\ lock' = r
      BY <2>3, <1>a DEF LockManagePermission, Goto, Request
    <3>2. QED
      BY <1>a, <2>1, <2>2, <3>1 DEF LockInv
  <2>4. CASE Rollback(r) \/ Commit(r)
    <3>1. req'[r] = Idle /\ req[r].pc \in {"lock", "tx", "commit"}
      BY <2>4, <1>a DEF Rollback, Commit, Respond, At
    <3>2. lock' = IF lock = r THEN None ELSE lock
      BY <2>4 DEF Rollback, Commit, LockInv, At
    <3>3. QED
      BY <1>a, <1>b, <2>1, <2>2, <3>1, <3>2 DEF LockInv
  <2>5. QED
    BY <1>2, <2>3, <2>4
<1>3. ASSUME NEW r \in Requests, ReplacePermissions(r) \/ SetUserActive(r) PROVE LockInv'
  <2>1. \A q \in Requests : q # r => req'[q] = req[q]
    BY <1>3, OthersUnchanged DEF RequestStep, AccessChange
  <2>2. PICK row, dead, checked : Statements(r, row, dead, checked)
    BY <1>3 DEF ReplacePermissions, SetUserActive
  <2>3. QED
    BY <1>a, <1>b, <2>1, <2>2, StatementSteps DEF LockInv
<1>4. CASE Crash
  BY <1>4, <1>a, <1>b DEF Crash, LockInv
<1>5. CASE Bootstrap \/ DeleteExpired \/ Tick \/ UNCHANGED vars
  BY <1>5 DEF Bootstrap, DeleteExpired, Tick, vars, LockInv
<1>6. QED
  BY <1>1, <1>2, <1>3, <1>4, <1>5 DEF Next, PlainStep, AccessChange

-----------------------------------------------------------------------------
(* The rows of users, and what a transaction is about to commit.           *)

\* Of the steps of requests only provisioning and commits write users.
LEMMA UsersUnchanged ==
    ASSUME NEW r \in Requests, RequestStep(r), ~CreateUser(r), ~Commit(r)
    PROVE  UNCHANGED <<users, provisioned, epoch>>
<1> USE DEF history
<1>1. CASE LoadPrincipal(r) \/ Answer(r) \/ InternalError(r) \/ Logout(r) \/ SubmitLogin(r)
  BY <1>1 DEF LoadPrincipal, Answer, InternalError, Logout, SubmitLogin
<1>2. CASE ResolveSession(r)
  BY <1>2 DEF ResolveSession, FindValidSession, FindByID, RevokeUnauthenticated,
              ListPermissionKeysForUser
<1>3. CASE Login(r)
  BY <1>3 DEF Login, Blocked, Authenticate, FailLogin, ClearFailures, FindByUsername, CreateSession
<1>4. CASE AccessChange(r)
  BY <1>4 DEF AccessChange, BeginChange, LockManagePermission, ReplacePermissions, SetUserActive,
              Statements, Rollback
<1>5. QED
  BY <1>1, <1>2, <1>3, <1>4 DEF RequestStep

\* What the creation of a user and a commit write.
LEMMA UserWrites ==
    ASSUME TypeOK, PointInv, CommitInv, NEW r \in Requests
    PROVE  /\ CreateUser(r) /\ ~users[req[r].name].exists =>
                /\ users' = [users EXCEPT ![req[r].name] = Provisioned]
                /\ provisioned' = [provisioned EXCEPT ![req[r].name] = @ + 1]
           /\ CreateUser(r) /\ users[req[r].name].exists => UNCHANGED <<users, provisioned>>
           /\ CreateUser(r) => UNCHANGED <<epoch, sessions>> /\ req[r].name \in Names
           /\ Commit(r) =>
                /\ req[r].target \in Names /\ req[r].act \in Acts /\ req[r].pc = "commit"
                /\ req[r].row \in Row /\ req[r].row.exists /\ users[req[r].target].exists
                /\ users' = [users EXCEPT ![req[r].target] = req[r].row]
                /\ UNCHANGED provisioned
<1>1. /\ CreateUser(r) /\ ~users[req[r].name].exists =>
            /\ users' = [users EXCEPT ![req[r].name] = Provisioned]
            /\ provisioned' = [provisioned EXCEPT ![req[r].name] = @ + 1]
      /\ CreateUser(r) /\ users[req[r].name].exists => UNCHANGED <<users, provisioned>>
  BY DEF CreateUser
<1>2. CreateUser(r) => UNCHANGED <<epoch, sessions>> /\ req[r].name \in Names
  BY DEF CreateUser, At, PointInv, LoggingIn
<1>3. Commit(r) => /\ req[r].target \in Names /\ req[r].act \in Acts /\ req[r].pc = "commit"
                   /\ users' = [users EXCEPT ![req[r].target] = req[r].row]
                   /\ UNCHANGED provisioned
  BY DEF Commit, At, PointInv, Changing
<1>4. Commit(r) => req[r].row \in Row /\ req[r].row.exists /\ users[req[r].target].exists
  BY <1>3 DEF CommitInv, TypeOK, Request
<1>5. QED
  BY <1>1, <1>2, <1>3, <1>4

\* The unique key: rows stay, and a name is provisioned at most once.
LEMMA RowStep == TypeOK /\ PointInv /\ CommitInv /\ RowInv /\ [Next]_vars => RowInv'
<1> SUFFICES ASSUME TypeOK, PointInv, CommitInv, RowInv, [Next]_vars PROVE RowInv'
  OBVIOUS
<1>a. users \in [Names -> Row] /\ provisioned \in [Names -> Nat] /\ InitialUsers \in [Names -> Row]
  BY PortalAssumption DEF TypeOK
<1>b. Provisioned.exists
  BY DEF Provisioned
<1>1. ASSUME NEW r \in Requests, CreateUser(r) PROVE RowInv'
  <2>1. CASE users[req[r].name].exists
    BY <1>1, <2>1, UserWrites DEF RowInv
  <2>2. CASE ~users[req[r].name].exists
    <3> DEFINE n == req[r].name
    <3>1. /\ n \in Names
          /\ users' = [users EXCEPT ![n] = Provisioned]
          /\ provisioned' = [provisioned EXCEPT ![n] = provisioned[n] + 1]
      BY <1>1, <2>2, UserWrites
    <3> HIDE DEF n
    <3>2. ~InitialUsers[n].exists /\ provisioned[n] = 0
      BY <1>a, <2>2, <3>1 DEF RowInv, n
    <3>3. users'[n].exists /\ provisioned'[n] = 1
      BY <1>a, <1>b, <3>1, <3>2
    <3>4. \A m \in Names : m # n => users'[m] = users[m] /\ provisioned'[m] = provisioned[m]
      BY <1>a, <3>1
    <3>5. QED
      BY <3>2, <3>3, <3>4 DEF RowInv
  <2>3. QED
    BY <2>1, <2>2
<1>2. ASSUME NEW r \in Requests, Commit(r) PROVE RowInv'
  <2> DEFINE n == req[r].target
  <2>1. /\ n \in Names /\ users[n].exists /\ req[r].row.exists /\ provisioned' = provisioned
        /\ users' = [users EXCEPT ![n] = req[r].row]
    BY <1>2, UserWrites
  <2> HIDE DEF n
  <2>2. users'[n].exists /\ \A m \in Names : m # n => users'[m] = users[m]
    BY <1>a, <2>1
  <2>3. QED
    BY <2>1, <2>2 DEF RowInv
<1>3. ASSUME NEW r \in Requests, RequestStep(r), ~CreateUser(r), ~Commit(r) PROVE RowInv'
  BY <1>3, UsersUnchanged DEF RowInv
<1>4. CASE Bootstrap
  <2>1. \A n \in Names : users'[n] = users[n] \/ users'[n].exists
    BY <1>4, <1>a DEF Bootstrap, Bootstrapped
  <2>2. provisioned' = provisioned
    BY <1>4 DEF Bootstrap, history
  <2>3. QED
    BY <2>1, <2>2 DEF RowInv
<1>5. CASE DeleteExpired \/ Crash \/ Tick \/ UNCHANGED vars
  BY <1>5 DEF DeleteExpired, Crash, Tick, vars, history, RowInv
<1>6. QED
  BY <1>1, <1>2, <1>3, <1>4, <1>5 DEF Next, RequestStep

\* CommitInv of one request, over any rows and sessions.
Fits(q, u, s) ==
    q.pc = "commit" =>
        /\ u[q.target].exists /\ q.row.exists
        /\ ActiveManagers([u EXCEPT ![q.target] = q.row]) # {}
        /\ q.act = "permissions" => q.row.active = u[q.target].active
        /\ q.act # "permissions" => q.row.perms = u[q.target].perms
                                    /\ q.row.active = (q.act = "activated")
        /\ q.act = "deactivated" =>
             \A t \in Tokens : s[t] # None /\ s[t].user = q.target => t \in q.dead

LEMMA CommitFits == /\ CommitInv <=> \A r \in Requests : Fits(req[r], users, sessions)
                    /\ CommitInv' <=> \A r \in Requests : Fits(req'[r], users', sessions')
  BY DEF CommitInv, Fits, SessionsOf, ActiveManagers

\* A transaction's result still fits when other rows come into being and when
\* sessions of its target go.
LEMMA StillFits ==
    ASSUME NEW q, NEW u \in [Names -> Row], NEW v \in [Names -> Row], NEW s, NEW z,
           q.pc = "commit" => q.target \in Names,
           Fits(q, u, s),
           \A n \in Names : v[n] = u[n] \/ u[n] = Absent,
           q.pc = "commit" =>
              \A t \in Tokens : z[t] # None /\ z[t].user = q.target => s[t] = z[t]
    PROVE  Fits(q, v, z)
<1> SUFFICES ASSUME q.pc = "commit" PROVE Fits(q, v, z)
  BY DEF Fits
<1> DEFINE n == q.target
<1>1. n \in Names /\ u[n].exists /\ ~Absent.exists
  BY DEF Fits, Absent
<1>2. v[n] = u[n]
  BY <1>1
<1>3. PICK m \in Names : /\ [u EXCEPT ![n] = q.row][m].active
                         /\ Manage \in [u EXCEPT ![n] = q.row][m].perms
  BY DEF Fits, ActiveManagers
<1>4. [v EXCEPT ![n] = q.row][m] = [u EXCEPT ![n] = q.row][m]
  <2>1. CASE m = n
    BY <1>1, <2>1
  <2>2. CASE m # n
    <3>1. u[m].active /\ ~Absent.active
      BY <1>1, <1>3, <2>2 DEF Absent
    <3>2. v[m] = u[m]
      BY <3>1
    <3>3. QED
      BY <2>2, <3>2
  <2>3. QED
    BY <2>1, <2>2
<1>5. ActiveManagers([v EXCEPT ![n] = q.row]) # {}
  BY <1>3, <1>4 DEF ActiveManagers
<1>6. QED
  BY <1>1, <1>2, <1>5 DEF Fits

\* Only a login creates a session; the other steps at most delete some.
LEMMA SessionsShrink ==
    ASSUME TypeOK, (\E r \in Requests : RequestStep(r) /\ ~CreateSession(r)) \/ DeleteExpired
    PROVE  \A t \in Tokens : sessions'[t] = sessions[t] \/ sessions'[t] = None
<1>a. sessions \in [Tokens -> Session \cup {None}]
  BY DEF TypeOK
<1>1. CASE DeleteExpired
  BY <1>1 DEF DeleteExpired
<1>2. ASSUME NEW r \in Requests, RequestStep(r), ~CreateSession(r)
      PROVE  \A t \in Tokens : sessions'[t] = sessions[t] \/ sessions'[t] = None
  <2>1. CASE LoadPrincipal(r) \/ Answer(r) \/ InternalError(r) \/ Logout(r) \/ SubmitLogin(r)
    BY <2>1, <1>a DEF LoadPrincipal, Answer, InternalError, Logout, SubmitLogin, Revoke
  <2>2. CASE ResolveSession(r)
    BY <2>2, <1>a DEF ResolveSession, FindValidSession, FindByID, RevokeUnauthenticated,
                      ListPermissionKeysForUser, Revoke
  <2>3. CASE Login(r)
    BY <1>2, <2>3 DEF Login, Blocked, Authenticate, FailLogin, ClearFailures, FindByUsername, CreateUser
  <2>4. CASE AccessChange(r)
    BY <2>4 DEF AccessChange, BeginChange, LockManagePermission, ReplacePermissions, SetUserActive,
                Statements, Rollback, Commit
  <2>5. QED
    BY <1>2, <2>1, <2>2, <2>3, <2>4 DEF RequestStep
<1>3. QED
  BY <1>1, <1>2

\* What the statements of ReplacePermissions and SetUserActive prepare fits.
LEMMA StatementsFit ==
    ASSUME TypeOK, PointInv, RowInv, ManagerRemains, NEW r \in Requests,
           ReplacePermissions(r) \/ SetUserActive(r)
    PROVE  Fits(req'[r], users', sessions')
<1> DEFINE n == req[r].target
<1>a. users \in [Names -> Row] /\ sessions \in [Tokens -> Session \cup {None}]
  BY DEF TypeOK
<1>b. req[r].pc = "tx" /\ phase = "serving"
  BY DEF ReplacePermissions, SetUserActive, Statements, At
<1>c. n \in Names /\ req[r].act \in Acts
  BY <1>b DEF PointInv, Changing
<1>d. ActiveManagers(users) # {} /\ users[n] \in Row
  BY <1>a, <1>b, <1>c DEF ManagerRemains
<1>e. ~Fits(req'[r], users', sessions') => req'[r] # Idle
  BY DEF Fits, Idle
<1> HIDE DEF n
<1>1. CASE ReplacePermissions(r)
  <2>1. PICK selected \in SUBSET Canonical :
            Statements(r, Replaced(users[n], selected), {}, users[n].active)
    BY <1>1 DEF ReplacePermissions, n
  <2> DEFINE row == Replaced(users[n], selected)
  <2>2. row.exists = users[n].exists /\ row.active = users[n].active /\ req[r].act = "permissions"
    BY <1>d, <1>1 DEF Replaced, Row, ReplacePermissions
  <2> HIDE DEF row
  <2>3. ~users[n].active => ActiveManagers([users EXCEPT ![n] = row]) # {}
    <3>1. SUFFICES ASSUME ~users[n].active PROVE ActiveManagers([users EXCEPT ![n] = row]) # {}
      OBVIOUS
    <3>2. PICK m \in Names : users[m].active /\ Manage \in users[m].perms
      BY <1>d DEF ActiveManagers
    <3>3. m # n /\ [users EXCEPT ![n] = row][m] = users[m]
      BY <1>a, <3>1, <3>2
    <3>4. QED
      BY <3>2, <3>3 DEF ActiveManagers
  <2>4. QED
    BY <2>1, <2>2, <2>3, <1>e, StatementSteps DEF Fits, row, n
<1>2. CASE SetUserActive(r)
  <2> DEFINE active == req[r].act = "activated"
             row == [users[n] EXCEPT !.active = active]
             dead == IF active THEN {} ELSE SessionsOf(n)
  <2>1. Statements(r, row, dead, ~active) /\ req[r].act # "permissions"
    BY <1>2 DEF SetUserActive, n
  <2>2. row.exists = users[n].exists /\ row.perms = users[n].perms /\ row.active = active
    BY <1>d DEF Row
  <2>3. req[r].act = "deactivated" =>
          \A t \in Tokens : sessions[t] # None /\ sessions[t].user = n => t \in dead
    BY DEF SessionsOf
  <2> HIDE DEF row, dead
  <2>4. active => ActiveManagers([users EXCEPT ![n] = row]) # {}
    <3>1. SUFFICES ASSUME active PROVE ActiveManagers([users EXCEPT ![n] = row]) # {}
      OBVIOUS
    <3>2. PICK m \in Names : users[m].active /\ Manage \in users[m].perms
      BY <1>d DEF ActiveManagers
    <3>3. [users EXCEPT ![n] = row][m].active /\ Manage \in [users EXCEPT ![n] = row][m].perms
      BY <1>a, <1>c, <2>2, <3>1, <3>2
    <3>4. QED
      BY <3>3 DEF ActiveManagers
  <2>5. UNCHANGED <<users, sessions>>
    BY <2>1, StatementSteps
  <2>6. SUFFICES ASSUME req'[r] # Idle PROVE Fits(req'[r], users', sessions')
    BY <1>e
  <2>7. /\ req'[r].pc = "commit" /\ req'[r].target = n /\ req'[r].act = req[r].act
        /\ req'[r].row = row /\ req'[r].dead = dead /\ users[n].exists
        /\ ~active => ActiveManagers([users EXCEPT ![n] = row]) # {}
    BY <2>1, <2>6, StatementSteps DEF n
  <2>8. row.active = (req[r].act = "activated")
    BY <2>2
  <2>9. QED
    BY <2>1, <2>2, <2>3, <2>4, <2>5, <2>7, <2>8 DEF Fits
<1>3. QED
  BY <1>1, <1>2

LEMMA CommitStep ==
    TypeOK /\ PointInv /\ LockInv /\ RowInv /\ CommitInv /\ ManagerRemains /\ [Next]_vars => CommitInv'
<1> SUFFICES ASSUME TypeOK, PointInv, LockInv, RowInv, CommitInv, ManagerRemains, [Next]_vars
             PROVE  CommitInv'
  OBVIOUS
<1>a. /\ users \in [Names -> Row] /\ users' \in [Names -> Row]
      /\ req \in [Requests -> Request] /\ sessions \in [Tokens -> Session \cup {None}]
  BY TypeStep DEF TypeOK
<1>b. \A q \in Requests : Fits(req[q], users, sessions)
  BY CommitFits
<1>c. \A q \in Requests : req[q].pc = "commit" => req[q].target \in Names
  BY DEF PointInv, Changing
<1>d. ASSUME NEW q \in Requests,
             \A n \in Names : users'[n] = users[n] \/ users[n] = Absent,
             req[q].pc = "commit" =>
                \A t \in Tokens : sessions'[t] # None /\ sessions'[t].user = req[q].target
                                  => sessions[t] = sessions'[t]
      PROVE  Fits(req[q], users', sessions')
  BY <1>a, <1>b, <1>c, <1>d, StillFits
<1>1. ASSUME NEW r \in Requests, RequestStep(r), ~Commit(r), ~CreateSession(r) PROVE CommitInv'
  <2>1. \A q \in Requests : q # r => req'[q] = req[q]
    BY <1>1, OthersUnchanged
  <2>2. \A t \in Tokens : sessions'[t] = sessions[t] \/ sessions'[t] = None
    BY <1>1, SessionsShrink
  <2>3. \A n \in Names : users'[n] = users[n] \/ users[n] = Absent
    <3>1. CASE CreateUser(r) /\ ~users[req[r].name].exists
      BY <3>1, <1>a, UserWrites DEF RowInv
    <3>2. QED
      BY <1>1, <3>1, UserWrites, UsersUnchanged
  <2>4. \A q \in Requests : Fits(req[q], users', sessions')
    BY <2>2, <2>3, <1>d
  <2>5. Fits(req'[r], users', sessions')
    <3>1. CASE PlainStep(r)
      BY <3>1, PlainSteps DEF Fits
    <3>2. CASE LockManagePermission(r) \/ Rollback(r)
      <4>1. req'[r].pc # "commit"
        BY <3>2, <1>a DEF LockManagePermission, Rollback, Goto, Respond, Idle, Request
      <4>2. QED
        BY <4>1 DEF Fits
    <3>3. CASE ReplacePermissions(r) \/ SetUserActive(r)
      BY <3>3, StatementsFit
    <3>4. QED
      BY <1>1, <3>1, <3>2, <3>3 DEF RequestStep, PlainStep, AccessChange
  <2>6. QED
    BY <2>1, <2>4, <2>5, CommitFits
<1>2. ASSUME NEW r \in Requests, CreateSession(r) PROVE CommitInv'
  <2>1. \A q \in Requests : q # r => req'[q] = req[q]
    BY <1>2, OthersUnchanged DEF RequestStep, Login
  <2>2. users' = users /\ req'[r].pc = "idle"
    BY <1>2, <1>a DEF CreateSession, Respond, Idle
  <2>3. PICK t \in Tokens, life \in Lifetimes :
            sessions' = [sessions EXCEPT ![t] = [user |-> req[r].name, expires |-> req[r].now + life,
                                                 epoch |-> epoch[req[r].name]]]
    BY <1>2 DEF CreateSession
  <2>4. sessions'[t].user = req[r].name /\ \A u \in Tokens : u # t => sessions'[u] = sessions[u]
    BY <1>a, <2>3
  <2>5. \A q \in Requests : req[q].pc = "commit" => req[q].target # req[r].name
    BY <1>2 DEF CreateSession
  <2>6. \A q \in Requests : Fits(req[q], users', sessions')
    BY <2>2, <2>4, <2>5, <1>d
  <2>7. QED
    BY <2>1, <2>2, <2>6, CommitFits DEF Fits
<1>3. ASSUME NEW r \in Requests, Commit(r) PROVE CommitInv'
  <2>1. \A q \in Requests : q # r => req'[q] = req[q]
    BY <1>3, OthersUnchanged DEF RequestStep, AccessChange
  <2>2. req[r].pc = "commit" /\ req'[r].pc = "idle"
    BY <1>3, <1>a DEF Commit, Respond, Idle, At
  <2>3. \A q \in Requests : q # r => req[q].pc # "commit"
    BY <2>2 DEF LockInv
  <2>4. QED
    BY <2>1, <2>2, <2>3, CommitFits DEF Fits
<1>4. CASE DeleteExpired
  <2>1. users' = users /\ req' = req
    BY <1>4 DEF DeleteExpired
  <2>2. \A t \in Tokens : sessions'[t] = sessions[t] \/ sessions'[t] = None
    BY <1>4, SessionsShrink
  <2>3. QED
    BY <2>1, <2>2, <1>d, CommitFits
<1>5. CASE Bootstrap \/ Crash
  <2>1. \A q \in Requests : req'[q] = Idle
    BY <1>5 DEF Bootstrap, Crash, LockInv
  <2>2. QED
    BY <2>1, CommitFits DEF Fits, Idle
<1>6. CASE Tick \/ UNCHANGED vars
  BY <1>6, CommitFits DEF Tick, vars
<1>7. QED
  BY <1>1, <1>2, <1>3, <1>4, <1>5, <1>6 DEF Next, RequestStep

\* No transaction, and no race of two, takes the last active manager away.
LEMMA ManagerStep ==
    TypeOK /\ PointInv /\ RowInv /\ CommitInv /\ ManagerRemains /\ [Next]_vars => ManagerRemains'
<1> SUFFICES ASSUME TypeOK, PointInv, RowInv, CommitInv, ManagerRemains, [Next]_vars, phase' = "serving"
             PROVE  ActiveManagers(users') # {}
  BY DEF ManagerRemains, ActiveManagers
<1>a. users \in [Names -> Row]
  BY DEF TypeOK
<1>1. ASSUME NEW r \in Requests, CreateUser(r) PROVE ActiveManagers(users') # {}
  <2>1. phase = "serving"
    BY <1>1 DEF CreateUser, At
  <2>2. PICK m \in Names : users[m].active /\ Manage \in users[m].perms
    BY <2>1 DEF ManagerRemains, ActiveManagers
  <2>3. users[m].exists
    BY <2>2 DEF RowInv, Absent
  <2>4. users'[m] = users[m]
    BY <1>1, <1>a, <2>3, UserWrites
  <2>5. QED
    BY <2>2, <2>4 DEF ActiveManagers
<1>2. ASSUME NEW r \in Requests, Commit(r) PROVE ActiveManagers(users') # {}
  BY <1>2, UserWrites DEF CommitInv
<1>3. ASSUME NEW r \in Requests, RequestStep(r), ~CreateUser(r), ~Commit(r)
      PROVE  ActiveManagers(users') # {}
  <2>1. phase' = phase
    <3>1. CASE PlainStep(r)
      BY <3>1, PlainSteps
    <3>2. CASE LockManagePermission(r) \/ Rollback(r) \/ ReplacePermissions(r) \/ SetUserActive(r)
      BY <3>2 DEF LockManagePermission, Rollback, ReplacePermissions, SetUserActive, Statements
    <3>3. QED
      BY <1>3, <3>1, <3>2 DEF RequestStep, PlainStep, AccessChange
  <2>2. QED
    BY <1>3, <2>1, UsersUnchanged DEF ManagerRemains
<1>4. CASE Bootstrap
  <2>1. CASE ActiveManagers(users) # {}
    <3>1. users' = [n \in Names |-> users[n]]
      BY <1>4, <2>1 DEF Bootstrap
    <3>2. QED
      BY <1>a, <2>1, <3>1 DEF ActiveManagers
  <2>2. CASE ActiveManagers(users) = {}
    <3>1. PICK n \in Managers : TRUE
      BY <1>4, <2>2 DEF Bootstrap
    <3>2. n \in Names /\ users'[n] = Bootstrapped(users[n])
      BY <1>4, <2>2, PortalAssumption DEF Bootstrap
    <3>3. QED
      BY <3>2 DEF ActiveManagers, Bootstrapped
  <2>3. QED
    BY <2>1, <2>2
<1>5. CASE DeleteExpired \/ Crash \/ Tick \/ UNCHANGED vars
  BY <1>5 DEF DeleteExpired, Crash, Tick, vars, ManagerRemains
<1>6. QED
  BY <1>1, <1>2, <1>3, <1>4, <1>5 DEF Next, RequestStep

-----------------------------------------------------------------------------
(* Sessions and the requests they serve.                                   *)

\* A commit: the epoch of a deactivated user moves on, and the sessions the
\* transaction found are gone.
LEMMA CommitEffect ==
    ASSUME TypeOK, PointInv, CommitInv, NEW r \in Requests, Commit(r)
    PROVE  /\ \A m \in Names :
                 m # req[r].target => epoch'[m] = epoch[m] /\ users'[m] = users[m]
           /\ epoch'[req[r].target] = epoch[req[r].target] + (IF req[r].act = "deactivated" THEN 1 ELSE 0)
           /\ users'[req[r].target] = req[r].row
           /\ \A t \in Tokens : sessions'[t] = IF t \in req[r].dead THEN None ELSE sessions[t]
<1>1. /\ req[r].target \in Names /\ users' = [users EXCEPT ![req[r].target] = req[r].row]
      /\ users \in [Names -> Row] /\ epoch \in [Names -> Nat]
  BY UserWrites DEF TypeOK
<1>2. epoch' = [epoch EXCEPT ![req[r].target] = IF req[r].act = "deactivated" THEN @ + 1 ELSE @]
  BY DEF Commit
<1>3. QED
  BY <1>1, <1>2 DEF Commit

\* CreateSession gives a new token to the user who logged in.
LEMMA CreateSessionEffect ==
    ASSUME TypeOK, PointInv, NEW r \in Requests, CreateSession(r)
    PROVE  \E t \in Tokens :
              /\ owner[t] = None /\ owner'[t] = req[r].name /\ req[r].name \in Names
              /\ sessions'[t].user = req[r].name /\ sessions'[t].epoch = epoch[req[r].name]
              /\ \A u \in Tokens : u # t => sessions'[u] = sessions[u] /\ owner'[u] = owner[u]
              /\ UNCHANGED <<users, epoch>> /\ req'[r] = Idle
<1>1. PICK t \in Tokens, life \in Lifetimes :
         /\ owner[t] = None
         /\ owner' = [owner EXCEPT ![t] = req[r].name]
         /\ sessions' = [sessions EXCEPT ![t] = [user |-> req[r].name, expires |-> req[r].now + life,
                                                 epoch |-> epoch[req[r].name]]]
  BY DEF CreateSession
<1>2. req[r].name \in Names /\ UNCHANGED <<users, epoch>> /\ req'[r] = Idle
  BY DEF CreateSession, history, At, PointInv, LoggingIn, Respond, TypeOK
<1>3. QED
  BY <1>1, <1>2 DEF TypeOK

\* Tokens are issued by logins only.
LEMMA OwnerUnchanged ==
    ASSUME NEW r \in Requests, RequestStep(r), ~CreateSession(r)
    PROVE  owner' = owner
<1>1. CASE LoadPrincipal(r) \/ Answer(r) \/ InternalError(r) \/ Logout(r) \/ SubmitLogin(r)
  BY <1>1 DEF LoadPrincipal, Answer, InternalError, Logout, SubmitLogin
<1>2. CASE ResolveSession(r)
  BY <1>2 DEF ResolveSession, FindValidSession, FindByID, RevokeUnauthenticated,
              ListPermissionKeysForUser
<1>3. CASE Login(r)
  BY <1>1, <1>3 DEF Login, Blocked, Authenticate, FailLogin, ClearFailures, FindByUsername, CreateUser
<1>4. CASE AccessChange(r)
  BY <1>4 DEF AccessChange, BeginChange, LockManagePermission, ReplacePermissions, SetUserActive,
              Statements, Rollback, Commit
<1>5. QED
  BY <1>1, <1>2, <1>3, <1>4 DEF RequestStep

\* SetUserActive and the foreign key: no session outlives a deactivation.
LEMMA RevokeStep ==
    TypeOK /\ PointInv /\ CommitInv /\ DeactivationRevokes /\ [Next]_vars => DeactivationRevokes'
<1> SUFFICES ASSUME TypeOK, PointInv, CommitInv, DeactivationRevokes, [Next]_vars
             PROVE  DeactivationRevokes'
  OBVIOUS
<1>a. sessions \in [Tokens -> Session \cup {None}] /\ epoch \in [Names -> Nat]
  BY DEF TypeOK
<1>1. ASSUME NEW r \in Requests, RequestStep(r), ~CreateSession(r), ~Commit(r)
      PROVE  DeactivationRevokes'
  <2>1. epoch' = epoch
    BY <1>1, UsersUnchanged, UserWrites
  <2>2. QED
    BY <1>1, <2>1, SessionsShrink DEF DeactivationRevokes
<1>2. ASSUME NEW r \in Requests, CreateSession(r) PROVE DeactivationRevokes'
  BY <1>2, CreateSessionEffect DEF DeactivationRevokes
<1>3. ASSUME NEW r \in Requests, Commit(r) PROVE DeactivationRevokes'
  <2> SUFFICES ASSUME NEW t \in Tokens, sessions'[t] # None
               PROVE  sessions'[t].epoch = epoch'[sessions'[t].user]
    BY DEF DeactivationRevokes
  <2> DEFINE n == req[r].target
             m == sessions[t].user
  <2>1. t \notin req[r].dead /\ sessions'[t] = sessions[t] /\ m \in Names
    BY <1>3, <1>a, CommitEffect DEF Session
  <2>2. sessions[t].epoch = epoch[m]
    BY <2>1 DEF DeactivationRevokes
  <2>3. m = n => req[r].act # "deactivated"
    BY <1>3, <2>1 DEF CommitInv, SessionsOf, Commit, At
  <2>4. n \in Names
    BY <1>3, UserWrites
  <2>5. epoch'[m] = epoch[m]
    BY <1>3, <1>a, <2>1, <2>3, <2>4, CommitEffect
  <2>6. QED
    BY <2>1, <2>2, <2>5
<1>4. CASE DeleteExpired
  BY <1>4, SessionsShrink DEF DeleteExpired, history, DeactivationRevokes
<1>5. CASE Bootstrap \/ Crash \/ Tick \/ UNCHANGED vars
  BY <1>5 DEF Bootstrap, Crash, Tick, vars, history, DeactivationRevokes
<1>6. QED
  BY <1>1, <1>2, <1>3, <1>4, <1>5 DEF Next, RequestStep

\* SessionInv of one request, over any owners and epochs.
Resolved(q, o, e) ==
    q.pc \in Resolving =>
        /\ o[q.tok] \in Names /\ q.seen <= e[o[q.tok]]
        /\ q.pc \in {"user", "perms", "serve"} => q.name = o[q.tok]

\* How a request gets to know whom it serves.
LEMMA ResolveSteps ==
    ASSUME TypeOK, PointInv, SessionInv, NEW r \in Requests, RequestStep(r)
    PROVE  Resolved(req'[r], owner, epoch)
<1>a. /\ req \in [Requests -> Request] /\ owner \in [Tokens -> Names \cup {None}]
      /\ epoch \in [Names -> Nat] /\ sessions \in [Tokens -> Session \cup {None}]
  BY DEF TypeOK
<1>b. Resolved(req[r], owner, epoch)
  BY DEF SessionInv, Resolved
<1>c. ASSUME NEW pc, Goto(r, pc)
      PROVE  /\ req'[r].pc = pc /\ req'[r].tok = req[r].tok /\ req'[r].seen = req[r].seen
             /\ req'[r].name = req[r].name
  BY <1>a, <1>c DEF Goto, Request
<1>d. Respond(r) => Resolved(req'[r], owner, epoch)
  BY <1>a DEF Respond, Resolved, Resolving, Idle
<1>e. ASSUME NEW pc \in Points \ Resolving, Goto(r, pc) PROVE Resolved(req'[r], owner, epoch)
  BY <1>e, <1>c DEF Resolved
<1>1. CASE LoadPrincipal(r)
  <2>1. ASSUME NEW t \in Tokens, owner[t] # None,
               req' = [req EXCEPT ![r] = [Idle EXCEPT !.pc = "session", !.tok = t, !.now = clock,
                                                      !.seen = epoch[owner[t]]]]
        PROVE  Resolved(req'[r], owner, epoch)
    <3>1. req'[r].pc = "session" /\ req'[r].tok = t /\ req'[r].seen = epoch[owner[t]]
      BY <2>1, <1>a DEF Idle
    <3>2. owner[t] \in Names /\ epoch[owner[t]] <= epoch[owner[t]]
      BY <2>1, <1>a
    <3>3. QED
      BY <3>1, <3>2 DEF Resolved
  <2>2. QED
    BY <1>1, <1>e, <2>1 DEF LoadPrincipal, Points, Resolving
<1>2. CASE FindValidSession(r)
  <2>1. req[r].pc = "session" /\ req[r].tok \in Tokens
    BY <1>2 DEF FindValidSession, At, PointInv, Resolving
  <2>2. CASE sessions[req[r].tok] # None
             /\ req' = [req EXCEPT ![r].pc = "user", ![r].name = sessions[req[r].tok].user]
    <3>1. /\ req'[r].pc = "user" /\ req'[r].tok = req[r].tok /\ req'[r].seen = req[r].seen
          /\ req'[r].name = sessions[req[r].tok].user
      BY <2>2, <1>a DEF Request
    <3>2. sessions[req[r].tok].user = owner[req[r].tok]
      BY <2>1, <2>2 DEF SessionInv
    <3>3. QED
      BY <1>b, <2>1, <3>1, <3>2 DEF Resolved, Resolving
  <2>3. QED
    BY <1>2, <1>e, <2>2 DEF FindValidSession, Points, Resolving
<1>3. CASE FindByID(r)
  <2>1. req[r].pc = "user" /\ \E pc \in {"perms", "revoke"} : Goto(r, pc)
    BY <1>3 DEF FindByID, At
  <2>2. QED
    BY <1>b, <1>c, <2>1 DEF Resolved, Resolving
<1>4. CASE RevokeUnauthenticated(r)
  <2>1. req'[r].pc = "guest"
    BY <1>4, <1>a DEF RevokeUnauthenticated, Request
  <2>2. QED
    BY <2>1 DEF Resolved, Resolving
<1>5. CASE ListPermissionKeysForUser(r)
  <2>1. /\ req[r].pc = "perms" /\ req'[r].pc = "serve" /\ req'[r].tok = req[r].tok
        /\ req'[r].seen = req[r].seen /\ req'[r].name = req[r].name
    BY <1>5, <1>a DEF ListPermissionKeysForUser, At, Request
  <2>2. QED
    BY <1>b, <2>1 DEF Resolved, Resolving
<1>6. CASE Answer(r) \/ InternalError(r) \/ Logout(r)
  BY <1>6, <1>d DEF Answer, InternalError, Logout
<1>7. CASE SubmitLogin(r)
  <2>1. ASSUME NEW n,
               req' = [req EXCEPT ![r] = [Idle EXCEPT !.pc = "blocked", !.name = n, !.now = clock]]
        PROVE  req'[r].pc = "blocked"
    BY <2>1, <1>a DEF Idle
  <2>2. QED
    BY <1>7, <2>1 DEF SubmitLogin, Resolved, Resolving
<1>8. CASE Login(r)
  <2>1. \/ Respond(r)
        \/ \E pc \in {"auth", "clear", "fail", "find", "create", "refind", "insert"} : Goto(r, pc)
    BY <1>8 DEF Login, Blocked, Authenticate, FailLogin, ClearFailures, FindByUsername, CreateUser,
                CreateSession
  <2>2. QED
    <3>1. {"auth", "clear", "fail", "find", "create", "refind", "insert"} \subseteq Points \ Resolving
      BY DEF Points, Resolving
    <3>2. QED
      BY <1>d, <1>e, <2>1, <3>1
<1>9. CASE BeginChange(r)
  <2>1. ASSUME NEW n, NEW act, req' = [req EXCEPT ![r].pc = "lock", ![r].act = act, ![r].target = n]
        PROVE  req'[r].pc = "lock"
    BY <2>1, <1>a DEF Request
  <2>2. QED
    BY <1>9, <2>1 DEF BeginChange, Resolved, Resolving
<1>10. CASE LockManagePermission(r) \/ Rollback(r) \/ Commit(r)
  BY <1>10, <1>d, <1>e DEF LockManagePermission, Rollback, Commit, Points, Resolving
<1>11. CASE ReplacePermissions(r) \/ SetUserActive(r)
  <2>1. PICK row, dead, checked : Statements(r, row, dead, checked)
    BY <1>11 DEF ReplacePermissions, SetUserActive
  <2>2. req'[r].pc \in {"commit", "idle"}
    <3>1. Idle.pc = "idle"
      BY DEF Idle
    <3>2. QED
      BY <2>1, <3>1, StatementSteps
  <2>3. QED
    BY <2>2 DEF Resolved, Resolving
<1>12. QED
  BY <1>1, <1>2, <1>3, <1>4, <1>5, <1>6, <1>7, <1>8, <1>9, <1>10, <1>11
  DEF RequestStep, ResolveSession, AccessChange

LEMMA SessionStep == TypeOK /\ PointInv /\ CommitInv /\ LockInv /\ SessionInv /\ [Next]_vars => SessionInv'
<1> SUFFICES ASSUME TypeOK, PointInv, CommitInv, LockInv, SessionInv, [Next]_vars PROVE SessionInv'
  OBVIOUS
<1>a. /\ req \in [Requests -> Request] /\ owner \in [Tokens -> Names \cup {None}]
      /\ epoch \in [Names -> Nat] /\ sessions \in [Tokens -> Session \cup {None}]
  BY DEF TypeOK
<1>b. \A q \in Requests : Resolved(req[q], owner, epoch)
  BY DEF SessionInv, Resolved
<1>c. ASSUME \A t \in Tokens : sessions'[t] # None => sessions'[t].user = owner'[t],
             \A q \in Requests : Resolved(req'[q], owner', epoch')
      PROVE  SessionInv'
  BY <1>c DEF SessionInv, Resolved
<1>d. ~(None \in Names)
  BY PortalAssumption
<1>1. ASSUME NEW r \in Requests, RequestStep(r), ~CreateSession(r) PROVE SessionInv'
  <2>1. \A q \in Requests : q # r => req'[q] = req[q]
    BY <1>1, OthersUnchanged
  <2>2. owner' = owner /\ \A t \in Tokens : sessions'[t] = sessions[t] \/ sessions'[t] = None
    BY <1>1, OwnerUnchanged, SessionsShrink
  <2>3. \A q \in Requests : Resolved(req'[q], owner, epoch)
    BY <1>1, <1>b, <2>1, ResolveSteps
  <2>4. \A m \in Names : epoch'[m] \in Nat /\ epoch[m] <= epoch'[m]
    <3>1. CASE ~Commit(r)
      <4>1. epoch' = epoch
        BY <1>1, <3>1, UsersUnchanged, UserWrites
      <4>2. QED
        BY <1>a, <4>1
    <3>2. CASE Commit(r)
      <4>1. /\ \A m \in Names : m # req[r].target => epoch'[m] = epoch[m]
            /\ epoch'[req[r].target] = epoch[req[r].target] + (IF req[r].act = "deactivated" THEN 1 ELSE 0)
        BY <3>2, CommitEffect
      <4>2. QED
        BY <1>a, <4>1
    <3>3. QED
      BY <3>1, <3>2
  <2>5. \A q \in Requests : req'[q].seen \in Nat
    BY <1>1, TypeStep DEF TypeOK, Request
  <2>6. \A q \in Requests : Resolved(req'[q], owner', epoch')
    <3> SUFFICES ASSUME NEW q \in Requests, req'[q].pc \in Resolving
                 PROVE  req'[q].seen <= epoch'[owner[req'[q].tok]]
      BY <2>2, <2>3 DEF Resolved
    <3>1. owner[req'[q].tok] \in Names /\ req'[q].seen <= epoch[owner[req'[q].tok]]
      BY <2>3 DEF Resolved
    <3>2. QED
      BY <1>a, <2>4, <2>5, <3>1
  <2>7. \A t \in Tokens : sessions'[t] # None => sessions'[t].user = owner'[t]
    BY <2>2 DEF SessionInv
  <2>8. QED
    BY <1>c, <2>6, <2>7
<1>2. ASSUME NEW r \in Requests, CreateSession(r) PROVE SessionInv'
  <2>1. \A q \in Requests : q # r => req'[q] = req[q]
    BY <1>2, OthersUnchanged DEF RequestStep, Login
  <2>2. PICK t \in Tokens :
              /\ owner[t] = None /\ owner'[t] = req[r].name
              /\ sessions'[t].user = req[r].name
              /\ \A u \in Tokens : u # t => sessions'[u] = sessions[u] /\ owner'[u] = owner[u]
              /\ epoch' = epoch /\ req'[r] = Idle
    BY <1>2, CreateSessionEffect
  <2>3. \A u \in Tokens : sessions'[u] # None => sessions'[u].user = owner'[u]
    BY <2>2 DEF SessionInv
  <2>4. ASSUME NEW q \in Requests PROVE Resolved(req'[q], owner', epoch')
    <3>1. CASE q = r
      BY <2>2, <3>1 DEF Resolved, Resolving, Idle
    <3>2. CASE q # r
      <4>1. SUFFICES ASSUME req[q].pc \in Resolving PROVE Resolved(req[q], owner', epoch')
        BY <2>1, <3>2 DEF Resolved
      <4>2. req[q].tok \in Tokens /\ owner[req[q].tok] \in Names
        BY <1>b, <4>1 DEF PointInv, Resolved
      <4>3. owner'[req[q].tok] = owner[req[q].tok]
        BY <1>d, <2>2, <4>2
      <4>4. QED
        BY <1>b, <2>2, <4>3 DEF Resolved
    <3>3. QED
      BY <3>1, <3>2
  <2>5. QED
    BY <1>c, <2>3, <2>4
<1>3. CASE DeleteExpired
  <2>1. \A t \in Tokens : sessions'[t] = sessions[t] \/ sessions'[t] = None
    BY <1>3, SessionsShrink
  <2>2. UNCHANGED <<req, owner, epoch>>
    BY <1>3 DEF DeleteExpired, history
  <2>3. QED
    BY <1>b, <1>c, <2>1, <2>2 DEF SessionInv
<1>4. CASE Bootstrap \/ Crash
  <2>1. UNCHANGED <<sessions, owner, epoch>> /\ \A q \in Requests : req'[q] = Idle
    BY <1>4 DEF Bootstrap, Crash, LockInv, history
  <2>2. QED
    BY <1>c, <2>1 DEF SessionInv, Resolved, Resolving, Idle
<1>5. CASE Tick \/ UNCHANGED vars
  BY <1>5 DEF Tick, vars, history, SessionInv
<1>6. QED
  BY <1>1, <1>2, <1>3, <1>4, <1>5 DEF Next, RequestStep

\* A user who was inactive before a request began is not served by it.
LEMMA ServedStep ==
    TypeOK /\ PointInv /\ CommitInv /\ LockInv /\ SessionInv /\ InactiveNotServed /\ [Next]_vars
    => InactiveNotServed'
<1> SUFFICES ASSUME TypeOK, PointInv, CommitInv, LockInv, SessionInv, InactiveNotServed, [Next]_vars
             PROVE  InactiveNotServed'
  OBVIOUS
<1> DEFINE Served(q, u, e) ==
        q.pc \in {"perms", "serve"} /\ ~u[q.name].active => e[q.name] > q.seen
<1>a. /\ req \in [Requests -> Request] /\ epoch \in [Names -> Nat] /\ users \in [Names -> Row]
  BY DEF TypeOK
<1>b. \A q \in Requests : Served(req[q], users, epoch)
  BY DEF InactiveNotServed
<1>c. InactiveNotServed' <=> \A q \in Requests : Served(req'[q], users', epoch')
  BY DEF InactiveNotServed
<1>1. ASSUME NEW r \in Requests, RequestStep(r) PROVE Served(req'[r], users, epoch)
  <2>1. CASE FindByID(r)
    <3>1. CASE users[req[r].name].active
      <4>1. req'[r].name = req[r].name
        BY <2>1, <1>a DEF FindByID, Goto, Request
      <4>2. QED
        BY <3>1, <4>1
    <3>2. CASE ~users[req[r].name].active
      <4>1. req'[r].pc = "revoke"
        BY <2>1, <3>2, <1>a DEF FindByID, Goto, Request
      <4>2. QED
        BY <4>1
    <3>3. QED
      BY <3>1, <3>2
  <2>2. CASE ListPermissionKeysForUser(r)
    <3>1. /\ req[r].pc = "perms" /\ req'[r].pc = "serve"
          /\ req'[r].seen = req[r].seen /\ req'[r].name = req[r].name
      BY <2>2, <1>a DEF ListPermissionKeysForUser, At, Request
    <3>2. QED
      BY <1>b, <3>1
  <2>3. CASE ~FindByID(r) /\ ~ListPermissionKeysForUser(r)
    <3> DEFINE Elsewhere == req'[r].pc \notin {"perms", "serve"}
    <3>a. /\ Respond(r) => Elsewhere
          /\ \A pc \in Points \ {"perms", "serve"} : Goto(r, pc) => Elsewhere
      BY <1>a DEF Respond, Goto, Idle, Request
    <3>b. SUFFICES Elsewhere
      OBVIOUS
    <3>1. CASE LoadPrincipal(r)
      <4>1. ASSUME NEW t, NEW e,
                   req' = [req EXCEPT ![r] = [Idle EXCEPT !.pc = "session", !.tok = t, !.now = clock,
                                                          !.seen = e]]
            PROVE  req'[r].pc = "session"
        BY <4>1, <1>a DEF Idle
      <4>2. QED
        BY <3>1, <3>a, <4>1 DEF LoadPrincipal, Points
    <3>2. CASE FindValidSession(r)
      <4>1. ASSUME NEW n, req' = [req EXCEPT ![r].pc = "user", ![r].name = n]
            PROVE  req'[r].pc = "user"
        BY <4>1, <1>a DEF Request
      <4>2. QED
        BY <3>2, <3>a, <4>1 DEF FindValidSession, Points
    <3>3. CASE RevokeUnauthenticated(r)
      BY <3>3, <1>a DEF RevokeUnauthenticated, Request
    <3>4. CASE Answer(r) \/ InternalError(r) \/ Logout(r)
      BY <3>4, <3>a DEF Answer, InternalError, Logout
    <3>5. CASE SubmitLogin(r)
      <4>1. ASSUME NEW n,
                   req' = [req EXCEPT ![r] = [Idle EXCEPT !.pc = "blocked", !.name = n, !.now = clock]]
            PROVE  req'[r].pc = "blocked"
        BY <4>1, <1>a DEF Idle
      <4>2. QED
        BY <3>5, <4>1 DEF SubmitLogin
    <3>6. CASE Login(r)
      <4>1. \/ Respond(r)
            \/ \E pc \in {"auth", "clear", "fail", "find", "create", "refind", "insert"} : Goto(r, pc)
        BY <3>6 DEF Login, Blocked, Authenticate, FailLogin, ClearFailures, FindByUsername, CreateUser,
                    CreateSession
      <4>2. {"auth", "clear", "fail", "find", "create", "refind", "insert"} \subseteq Points \ {"perms", "serve"}
        BY DEF Points
      <4>3. QED
        BY <3>a, <4>1, <4>2
    <3>7. CASE BeginChange(r)
      <4>1. ASSUME NEW n, NEW act,
                   req' = [req EXCEPT ![r].pc = "lock", ![r].act = act, ![r].target = n]
            PROVE  req'[r].pc = "lock"
        BY <4>1, <1>a DEF Request
      <4>2. QED
        BY <3>7, <4>1 DEF BeginChange
    <3>8. CASE LockManagePermission(r) \/ Rollback(r) \/ Commit(r)
      BY <3>8, <3>a DEF LockManagePermission, Rollback, Commit, Points
    <3>9. CASE ReplacePermissions(r) \/ SetUserActive(r)
      <4>1. PICK row, dead, checked : Statements(r, row, dead, checked)
        BY <3>9 DEF ReplacePermissions, SetUserActive
      <4>2. req'[r].pc \in {"commit", "idle"}
        <5>1. Idle.pc = "idle"
          BY DEF Idle
        <5>2. QED
          BY <4>1, <5>1, StatementSteps
      <4>3. QED
        BY <4>2
    <3>10. QED
      BY <1>1, <2>3, <3>1, <3>2, <3>3, <3>4, <3>5, <3>6, <3>7, <3>8, <3>9
      DEF RequestStep, ResolveSession, AccessChange
  <2>4. QED
    BY <2>1, <2>2, <2>3
<1>2. ASSUME NEW r \in Requests, RequestStep(r) PROVE InactiveNotServed'
  <2>1. \A q \in Requests : Served(req'[q], users, epoch)
    BY <1>1, <1>2, <1>b, OthersUnchanged
  <2>2. PointInv' /\ SessionInv' /\ TypeOK'
    BY <1>2, PointStep, SessionStep, TypeStep
  <2>3. \A q \in Requests : req'[q].pc \in {"perms", "serve"} =>
            /\ req'[q].name \in Names /\ req'[q].seen \in Nat
            /\ req'[q].seen <= epoch'[req'[q].name] /\ epoch'[req'[q].name] \in Nat
    BY <2>2 DEF PointInv, SessionInv, Resolving, TypeOK, Request
  <2>4. CASE ~Commit(r)
    <3>1. epoch' = epoch /\ \A m \in Names : users'[m].active \/ users'[m] = users[m]
      <4>1. CASE CreateUser(r) /\ ~users[req[r].name].exists
        <5>1. epoch' = epoch /\ users' = [users EXCEPT ![req[r].name] = Provisioned]
          BY <4>1, UserWrites
        <5>2. QED
          BY <1>a, <5>1 DEF Provisioned
      <4>2. CASE ~(CreateUser(r) /\ ~users[req[r].name].exists)
        BY <1>2, <2>4, <4>2, UsersUnchanged, UserWrites
      <4>3. QED
        BY <4>1, <4>2
    <3>2. QED
      BY <1>c, <2>1, <2>3, <3>1
  <2>5. CASE Commit(r)
    <3> DEFINE n == req[r].target
    <3>1. /\ \A m \in Names : m # n => epoch'[m] = epoch[m] /\ users'[m] = users[m]
          /\ epoch'[n] = epoch[n] + (IF req[r].act = "deactivated" THEN 1 ELSE 0)
          /\ users'[n] = req[r].row
          /\ n \in Names /\ req[r].act \in Acts /\ req[r].pc = "commit" /\ epoch[n] \in Nat
      BY <2>5, <1>a, CommitEffect, UserWrites
    <3>2. \/ users'[n].active
          \/ ~users[n].active /\ epoch'[n] >= epoch[n]
          \/ epoch'[n] = epoch[n] + 1
      <4>1. /\ req[r].act = "permissions" => req[r].row.active = users[n].active
            /\ req[r].act # "permissions" => req[r].row.active = (req[r].act = "activated")
        BY <3>1 DEF CommitInv
      <4>2. CASE req[r].act = "deactivated"
        BY <3>1, <4>2
      <4>3. CASE req[r].act = "activated"
        BY <3>1, <4>1, <4>3
      <4>4. CASE req[r].act = "permissions"
        BY <3>1, <4>1, <4>4
      <4>5. QED
        BY <3>1, <4>2, <4>3, <4>4 DEF Acts
    <3>3. \A q \in Requests : Resolved(req'[q], owner, epoch)
      BY <1>2, ResolveSteps, OthersUnchanged DEF SessionInv, Resolved
    <3>4. \A q \in Requests : req'[q].pc \in {"perms", "serve"} => req'[q].seen <= epoch[req'[q].name]
      BY <3>3 DEF Resolved, Resolving
    <3> HIDE DEF n
    <3>5. ASSUME NEW q \in Requests PROVE Served(req'[q], users', epoch')
      <4>1. SUFFICES ASSUME req'[q].pc \in {"perms", "serve"}, ~users'[req'[q].name].active
                     PROVE  epoch'[req'[q].name] > req'[q].seen
        OBVIOUS
      <4>2. CASE req'[q].name # n
        BY <2>1, <2>3, <3>1, <4>1, <4>2
      <4>3. CASE req'[q].name = n
        BY <2>1, <2>3, <3>1, <3>2, <3>4, <4>1, <4>3
      <4>4. QED
        BY <4>2, <4>3
    <3>6. QED
      BY <1>c, <3>5
  <2>6. QED
    BY <2>4, <2>5
<1>3. CASE Bootstrap \/ Crash
  <2>1. \A q \in Requests : req'[q] = Idle
    BY <1>3 DEF Bootstrap, Crash, LockInv
  <2>2. QED
    BY <1>c, <2>1 DEF Idle
<1>4. CASE DeleteExpired \/ Tick \/ UNCHANGED vars
  BY <1>4, <1>b, <1>c DEF DeleteExpired, Tick, vars, history
<1>5. QED
  BY <1>2, <1>3, <1>4 DEF Next, RequestStep

-----------------------------------------------------------------------------
(* The audit trail.                                                        *)

\* g lists the rows of n as the events are replayed one after the other.
Replayed(g, events, n, first) ==
    /\ g \in [0..Len(events) -> Row] /\ g[0] = first
    /\ \A i \in 1..Len(events) :
         g[i] = IF events[i].user = n THEN Apply(g[i - 1], events[i]) ELSE g[i - 1]

\* An event turns a row into a row.
LEMMA ApplyType ==
    ASSUME NEW row \in Row, NEW e \in AuditEvent
    PROVE  Apply(row, e) \in Row
<1>1. e.added \in SUBSET Permissions /\ e.act \in {"bootstrap"} \cup Acts
  BY DEF AuditEvent
<1>2. Bootstrapped(row) \in Row
  BY PortalAssumption DEF Bootstrapped, Row
<1>3. [row EXCEPT !.active = TRUE] \in Row /\ [row EXCEPT !.active = FALSE] \in Row
  BY DEF Row
<1>4. [row EXCEPT !.perms = (@ \cup e.added) \ e.removed] \in Row
  BY <1>1 DEF Row
<1>5. CASE e.act = "bootstrap"
  BY <1>2, <1>5 DEF Apply
<1>6. CASE e.act = "activated"
  BY <1>3, <1>6 DEF Apply
<1>7. CASE e.act = "deactivated"
  BY <1>3, <1>7 DEF Apply
<1>8. CASE e.act = "permissions"
  BY <1>4, <1>8 DEF Apply
<1>9. QED
  BY <1>1, <1>5, <1>6, <1>7, <1>8 DEF Acts

\* The rows of a replay exist ...
LEMMA ReplayExists ==
    ASSUME NEW events \in Seq(AuditEvent), NEW n, NEW first \in Row
    PROVE  \E g : Replayed(g, events, n, first)
<1> DEFINE step == [i \in 1..Len(events) |-> [row \in Row |->
                      IF events[i].user = n THEN Apply(row, events[i]) ELSE row]]
<1>1. Len(events) \in Nat /\ \A i \in 1..Len(events) : events[i] \in AuditEvent
  OBVIOUS
<1>2. step \in [1..Len(events) -> [Row -> Row]]
  BY <1>1, ApplyType
<1>3. \A i \in 1..Len(events), row \in Row :
         step[i][row] = IF events[i].user = n THEN Apply(row, events[i]) ELSE row
  OBVIOUS
<1> HIDE DEF step
<1>4. PICK g \in [0..Len(events) -> Row] :
          g[0] = first /\ \A i \in 1..Len(events) : g[i] = step[i][g[i - 1]]
  <2>1. StepsOn(step, Len(events), Row)
    BY <1>2 DEF StepsOn
  <2>2. \E g \in [0..Len(events) -> Row] : g[0] = first /\ Follows(g, step, Len(events))
    BY <1>1, <2>1, StepsExist
  <2>3. QED
    BY <2>2 DEF Follows
<1>5. \A i \in 1..Len(events) : g[i - 1] \in Row
  BY <1>1, <1>4
<1>6. QED
  BY <1>3, <1>4, <1>5 DEF Replayed

\* ... and the last of them is what Replay computes.
LEMMA ReplayIs ==
    ASSUME NEW events \in Seq(AuditEvent), NEW n, NEW first \in Row, NEW g,
           Replayed(g, events, n, first)
    PROVE  Replay(events, n, first) = g[Len(events)]
<1> DEFINE N == Len(events)
           F(f) == [i \in 0..N |-> IF i = 0 THEN first
                                   ELSE IF events[i].user = n THEN Apply(f[i - 1], events[i]) ELSE f[i - 1]]
           h == CHOOSE f : f = F(f)
           step == [i \in 1..N |-> [row \in Row \cup {h[j] : j \in 0..N} |->
                      IF events[i].user = n THEN Apply(row, events[i]) ELSE row]]
<1>1. N \in Nat
  OBVIOUS
<1>2. Replay(events, n, first) = h[N]
  BY DEF Replay
<1>3. g = F(g)
  BY <1>1 DEF Replayed
<1>4. h = F(h)
  <2> HIDE DEF F
  <2>1. QED
    BY <1>3
<1> HIDE DEF h
<1>5. h[0] = first /\ g[0] = first
  BY <1>1, <1>4 DEF Replayed
<1>6. ASSUME NEW i \in 1..N PROVE g[i] = step[i][g[i - 1]] /\ h[i] = step[i][h[i - 1]]
  <2>1. i \in 0..N /\ i # 0 /\ i - 1 \in 0..N /\ g[i - 1] \in Row
    BY <1>1 DEF Replayed
  <2>2. h[i] = IF events[i].user = n THEN Apply(h[i - 1], events[i]) ELSE h[i - 1]
    BY <1>4, <2>1
  <2>3. g[i] = IF events[i].user = n THEN Apply(g[i - 1], events[i]) ELSE g[i - 1]
    BY DEF Replayed
  <2>4. h[i - 1] \in {h[j] : j \in 0..N}
    BY <2>1
  <2>5. QED
    BY <2>1, <2>2, <2>3, <2>4
<1> HIDE DEF step, N
<1>7. \A i \in 0..N : g[i] = h[i]
  <2>1. Follows(g, step, N) /\ Follows(h, step, N)
    BY <1>6 DEF Follows
  <2>2. QED
    BY <1>1, <1>5, <2>1, StepsAgree
<1>8. QED
  BY <1>1, <1>2, <1>7 DEF N

\* Events appended to the trail replay over what the trail before them gives:
\* those of other users change nothing, and the only one of n is applied once.
LEMMA ReplayMore ==
    ASSUME NEW events \in Seq(AuditEvent), NEW t \in Seq(AuditEvent), NEW n, NEW first \in Row
    PROVE  /\ (\A i \in DOMAIN t : t[i].user # n) =>
                Replay(events \o t, n, first) = Replay(events, n, first)
           /\ \A k \in DOMAIN t : (\A i \in DOMAIN t : t[i].user = n => i = k) /\ t[k].user = n =>
                Replay(events \o t, n, first) = Apply(Replay(events, n, first), t[k])
<1> DEFINE all == events \o t
           N == Len(events)
           M == Len(t)
<1>1. /\ all \in Seq(AuditEvent) /\ N \in Nat /\ M \in Nat /\ Len(all) = N + M /\ DOMAIN t = 1..M
      /\ \A i \in 1..N : all[i] = events[i]
      /\ \A i \in 1..M : all[N + i] = t[i]
  OBVIOUS
<1> HIDE DEF all, N, M
<1>2. PICK g : Replayed(g, all, n, first)
  BY <1>1, ReplayExists
<1>3. Replay(all, n, first) = g[N + M]
  BY <1>1, <1>2, ReplayIs
<1>4. Replay(events, n, first) = g[N]
  <2> DEFINE f == [i \in 0..N |-> g[i]]
  <2>1. \A i \in 0..N : i \in 0..(N + M) /\ g[i] \in Row
    BY <1>1, <1>2 DEF Replayed
  <2>2. f \in [0..N -> Row] /\ f[0] = first
    BY <1>1, <1>2, <2>1 DEF Replayed
  <2>3. \A i \in 1..N : f[i] = IF events[i].user = n THEN Apply(f[i - 1], events[i]) ELSE f[i - 1]
    BY <1>1, <1>2 DEF Replayed
  <2>4. f[N] = g[N]
    BY <1>1
  <2> HIDE DEF f
  <2>5. Replayed(f, events, n, first)
    BY <2>2, <2>3 DEF Replayed, N
  <2>6. QED
    BY <2>4, <2>5, ReplayIs DEF N
<1>5. ASSUME NEW j \in (N + 1)..(N + M)
      PROVE  /\ j - N \in 1..M
             /\ t[j - N].user # n => g[j] = g[j - 1]
             /\ t[j - N].user = n => g[j] = Apply(g[j - 1], t[j - N])
  <2>1. j - N \in 1..M /\ N + (j - N) = j /\ j \in 1..Len(all)
    BY <1>1
  <2>2. all[j] = t[j - N]
    BY <1>1, <2>1
  <2>3. g[j] = IF all[j].user = n THEN Apply(g[j - 1], all[j]) ELSE g[j - 1]
    BY <1>2, <2>1 DEF Replayed
  <2>4. QED
    BY <2>1, <2>2, <2>3
<1>6. ASSUME NEW a \in N..(N + M), NEW b \in N..(N + M), a <= b,
             \A j \in (a + 1)..b : t[j - N].user # n
      PROVE  g[b] = g[a]
  <2>1. ASSUME NEW j \in (a + 1)..b PROVE g[j] = g[j - 1]
    <3>1. j \in (N + 1)..(N + M)
      BY <1>1, <1>6
    <3>2. QED
      BY <1>5, <1>6, <3>1
  <2>2. a \in Nat /\ b \in Nat /\ b \in a..b
    BY <1>1, <1>6
  <2>3. QED
    BY <2>1, <2>2, SameThroughout
<1>7. ASSUME \A i \in DOMAIN t : t[i].user # n
      PROVE  g[N + M] = g[N]
  <2>1. \A j \in (N + 1)..(N + M) : t[j - N].user # n
    BY <1>1, <1>5, <1>7
  <2>2. N \in N..(N + M) /\ N + M \in N..(N + M) /\ N <= N + M
    BY <1>1
  <2>3. QED
    BY <1>6, <2>1, <2>2
<1>8. ASSUME NEW k \in DOMAIN t, \A i \in DOMAIN t : t[i].user = n => i = k, t[k].user = n
      PROVE  g[N + M] = Apply(g[N], t[k])
  <2> DEFINE m == N + k
  <2>1. m \in (N + 1)..(N + M) /\ m - N = k /\ m - 1 \in N..(N + M) /\ N <= m - 1 /\ (m - 1) + 1 = m
    BY <1>1
  <2>2. \A j \in (N + 1)..(N + M) : j # m => t[j - N].user # n
    <3>1. \A j \in (N + 1)..(N + M) : j # m => j - N # k
      BY <1>1
    <3>2. \A j \in (N + 1)..(N + M) : j - N \in DOMAIN t
      BY <1>1, <1>5
    <3>3. QED
      BY <1>8, <3>1, <3>2
  <2> HIDE DEF m
  <2>3. g[m] = Apply(g[m - 1], t[k])
    BY <1>5, <1>8, <2>1
  <2>4. g[m - 1] = g[N]
    <3>1. \A j \in (N + 1)..(m - 1) : j \in (N + 1)..(N + M) /\ j # m
      BY <1>1, <2>1
    <3>2. N \in N..(N + M)
      BY <1>1
    <3>3. QED
      BY <1>6, <2>1, <2>2, <3>1, <3>2
  <2>5. g[N + M] = g[m]
    <3>1. \A j \in (m + 1)..(N + M) : j \in (N + 1)..(N + M) /\ j # m
      BY <1>1, <2>1
    <3>2. m \in N..(N + M) /\ N + M \in N..(N + M) /\ m <= N + M
      BY <1>1, <2>1
    <3>3. QED
      BY <1>6, <2>2, <3>1, <3>2
  <2>6. QED
    BY <2>3, <2>4, <2>5
<1>9. QED
  BY <1>3, <1>4, <1>7, <1>8 DEF all

\* A trail without events of n leaves the row as it was.
LEMMA ReplayNothing ==
    ASSUME NEW events \in Seq(AuditEvent), NEW n, NEW first \in Row,
           \A i \in DOMAIN events : events[i].user # n
    PROVE  Replay(events, n, first) = first
<1> DEFINE g == [i \in 0..Len(events) |-> first]
<1>1. g[Len(events)] = first /\ Replayed(g, events, n, first)
  BY DEF Replayed
<1> HIDE DEF g
<1>2. QED
  BY <1>1, ReplayIs

\* TrailInv over any rows, trail and provisioning history.
First(n, p) == IF InitialUsers[n].exists THEN InitialUsers[n]
               ELSE IF p[n] > 0 THEN Provisioned ELSE Absent
Trail(u, l, p) == /\ \A i \in DOMAIN l : u[l[i].user].exists
                  /\ \A n \in Names : u[n] = Replay(l, n, First(n, p))

LEMMA TrailOver == /\ TrailInv <=> Trail(users, log, provisioned)
                   /\ TrailInv' <=> Trail(users', log', provisioned')
  BY DEF TrailInv, Trail, TrailReplays, FirstRow, First

LEMMA FirstType == \A n \in Names : \A p : First(n, p) \in Row
  BY PortalAssumption, IdleType DEF First

\* The event of a commit says what the transaction did to the row.
LEMMA CommitApplies ==
    ASSUME TypeOK, PointInv, CommitInv, NEW r \in Requests, Commit(r)
    PROVE  \E e \in AuditEvent :
              /\ log' = Append(log, e) /\ e.user = req[r].target
              /\ Apply(users[req[r].target], e) = req[r].row
<1> DEFINE n == req[r].target
           old == users[n]
           new == req[r].row
           act == req[r].act
           e == Event(act, n, old, new)
<1>1. n \in Names /\ act \in Acts /\ new \in Row /\ new.exists /\ req[r].pc = "commit"
  BY UserWrites
<1>2. old \in Row /\ old.exists
  BY <1>1 DEF TypeOK, CommitInv
<1>3. /\ act = "permissions" => new.active = old.active
      /\ act # "permissions" => new.perms = old.perms /\ new.active = (act = "activated")
  BY <1>1 DEF CommitInv
<1>4. log' = Append(log, e)
  BY DEF Commit
<1>5. e = [act |-> act, user |-> n, added |-> new.perms \ old.perms, removed |-> old.perms \ new.perms]
  BY DEF Event
<1> HIDE DEF n, old, new, act, e
<1>6. e \in AuditEvent /\ e.user = n /\ e.act = act
  BY <1>1, <1>2, <1>5 DEF AuditEvent, Row
<1>7. \A x, y \in Row : (x.exists <=> y.exists) /\ (x.active <=> y.active) /\ x.perms = y.perms => x = y
  BY DEF Row
<1>8. ASSUME act = "permissions" PROVE Apply(old, e) = new
  <2>1. (old.perms \cup e.added) \ e.removed = new.perms
    BY <1>1, <1>2, <1>5 DEF Row
  <2>2. Apply(old, e) = [old EXCEPT !.perms = new.perms]
    BY <1>6, <1>8, <2>1 DEF Apply
  <2>3. [old EXCEPT !.perms = new.perms] \in Row
    BY <1>1, <1>2 DEF Row
  <2> DEFINE y == [old EXCEPT !.perms = new.perms]
  <2>4. (y.exists <=> new.exists) /\ (y.active <=> new.active) /\ y.perms = new.perms
    BY <1>1, <1>2, <1>3, <1>8 DEF Row
  <2> HIDE DEF y
  <2>5. y = new
    BY <1>1, <1>7, <2>3, <2>4 DEF y
  <2>6. Apply(old, e) = y
    BY <2>2 DEF y
  <2>7. QED
    BY <2>5, <2>6
<1>9. ASSUME act \in {"activated", "deactivated"} PROVE Apply(old, e) = new
  <2>1. Apply(old, e) = [old EXCEPT !.active = (act = "activated")]
    BY <1>6, <1>9 DEF Apply
  <2> DEFINE y == [old EXCEPT !.active = (act = "activated")]
  <2>2. /\ y \in Row /\ (y.exists <=> new.exists) /\ (y.active <=> new.active) /\ y.perms = new.perms
    BY <1>1, <1>2, <1>3, <1>9 DEF Row
  <2> HIDE DEF y
  <2>3. y = new
    BY <1>1, <1>7, <2>2
  <2>4. Apply(old, e) = y
    BY <2>1 DEF y
  <2>5. QED
    BY <2>3, <2>4
<1>10. QED
  BY <1>1, <1>4, <1>6, <1>8, <1>9 DEF Acts, n, old, new

\* Of the steps of requests only a commit writes the trail.
LEMMA LogUnchanged ==
    ASSUME TypeOK, NEW r \in Requests, RequestStep(r), ~Commit(r)
    PROVE  log' = log
<1>1. CASE PlainStep(r)
  BY <1>1, PlainSteps
<1>2. CASE AccessChange(r)
  BY <1>2 DEF AccessChange, BeginChange, LockManagePermission, ReplacePermissions, SetUserActive,
              Statements, Rollback
<1>3. QED
  BY <1>1, <1>2 DEF RequestStep, PlainStep

\* The trail tells the users table.
LEMMA TrailStep == TypeOK /\ PointInv /\ CommitInv /\ RowInv /\ TrailInv /\ [Next]_vars => TrailInv'
<1> SUFFICES ASSUME TypeOK, PointInv, CommitInv, RowInv, TrailInv, [Next]_vars PROVE TrailInv'
  OBVIOUS
<1>a. /\ users \in [Names -> Row] /\ provisioned \in [Names -> Nat] /\ InitialUsers \in [Names -> Row]
      /\ log \in Seq(AuditEvent)
  BY PortalAssumption DEF TypeOK
<1>b. \A n \in Names : First(n, provisioned) \in Row
  BY FirstType
<1>c. Trail(users, log, provisioned)
  BY TrailOver
<1>e. \A i \in DOMAIN log : log[i].user \in Names
  <2>1. \A i \in DOMAIN log : log[i] \in AuditEvent
    BY <1>a
  <2>2. QED
    BY <2>1 DEF AuditEvent
<1>d. SUFFICES Trail(users', log', provisioned')
  BY TrailOver
<1>1. ASSUME NEW r \in Requests, CreateUser(r) PROVE Trail(users', log', provisioned')
  <2>1. log' = log
    BY <1>1 DEF CreateUser
  <2>2. CASE users[req[r].name].exists
    BY <1>1, <1>c, <2>1, <2>2, UserWrites
  <2>3. CASE ~users[req[r].name].exists
    <3> DEFINE n == req[r].name
    <3>1. /\ n \in Names
          /\ users' = [users EXCEPT ![n] = Provisioned]
          /\ provisioned' = [provisioned EXCEPT ![n] = provisioned[n] + 1]
      BY <1>1, <2>3, UserWrites
    <3>2. ~users[n].exists
      BY <2>3
    <3> HIDE DEF n
    <3>3. ~InitialUsers[n].exists /\ provisioned[n] + 1 > 0
      BY <1>a, <3>1, <3>2 DEF RowInv
    <3>4. /\ users'[n] = Provisioned /\ provisioned'[n] = provisioned[n] + 1
          /\ \A m \in Names : m # n => users'[m] = users[m] /\ provisioned'[m] = provisioned[m]
      BY <1>a, <3>1
    <3>5. \A i \in DOMAIN log : log[i].user # n /\ log[i].user \in Names
      BY <1>c, <1>e, <3>2 DEF Trail
    <3>6. First(n, provisioned') = Provisioned /\ Provisioned \in Row
      BY <3>3, <3>4, IdleType DEF First
    <3>7. users'[n] = Replay(log, n, First(n, provisioned'))
      BY <1>a, <3>4, <3>5, <3>6, ReplayNothing
    <3>8. \A m \in Names : m # n => First(m, provisioned') = First(m, provisioned)
      BY <3>4 DEF First
    <3>9. QED
      BY <1>c, <2>1, <3>4, <3>5, <3>7, <3>8 DEF Trail
  <2>4. QED
    BY <2>2, <2>3
<1>2. ASSUME NEW r \in Requests, Commit(r) PROVE Trail(users', log', provisioned')
  <2> DEFINE n == req[r].target
             row == req[r].row
  <2>1. /\ n \in Names /\ users[n].exists /\ row \in Row /\ row.exists
        /\ users' = [users EXCEPT ![n] = row] /\ provisioned' = provisioned
    BY <1>2, UserWrites
  <2>2. PICK e \in AuditEvent : log' = Append(log, e) /\ e.user = n /\ Apply(users[n], e) = row
    BY <1>2, CommitApplies
  <2> HIDE DEF n, row
  <2> DEFINE t == <<e>>
  <2>3. t \in Seq(AuditEvent) /\ log' = log \o t /\ DOMAIN t = {1} /\ t[1] = e
    BY <1>a, <2>2
  <2> HIDE DEF t
  <2>4. /\ users'[n] = row
        /\ \A m \in Names : m # n => users'[m] = users[m]
    BY <1>a, <2>1
  <2>5. ASSUME NEW m \in Names PROVE users'[m] = Replay(log', m, First(m, provisioned))
    <3>1. users[m] = Replay(log, m, First(m, provisioned))
      BY <1>c DEF Trail
    <3>2. CASE m = n
      <4>0. 1 \in DOMAIN t /\ (\A i \in DOMAIN t : t[i].user = m => i = 1) /\ t[1].user = m
        BY <2>2, <2>3, <3>2
      <4>1. Replay(log \o t, m, First(m, provisioned)) = Apply(users[m], e)
        BY <1>a, <1>b, <2>3, <3>1, <4>0, ReplayMore
      <4>2. QED
        BY <2>2, <2>3, <2>4, <3>2, <4>1
    <3>3. CASE m # n
      <4>1. Replay(log \o t, m, First(m, provisioned)) = users[m]
        BY <1>a, <1>b, <2>2, <2>3, <3>1, <3>3, ReplayMore
      <4>2. QED
        BY <2>3, <2>4, <3>3, <4>1
    <3>4. QED
      BY <3>2, <3>3
  <2>6. ASSUME NEW i \in DOMAIN log' PROVE users'[log'[i].user].exists
    <3>1. (i \in DOMAIN log /\ log'[i] = log[i]) \/ log'[i] = e
      BY <1>a, <2>2
    <3>2. CASE log'[i] = e
      BY <2>1, <2>2, <2>4, <3>2
    <3>3. CASE i \in DOMAIN log /\ log'[i] = log[i]
      <4>1. log[i].user \in Names /\ users[log[i].user].exists
        BY <1>c, <1>e, <3>3 DEF Trail
      <4>2. QED
        BY <2>1, <2>4, <3>3, <4>1
    <3>4. QED
      BY <3>1, <3>2, <3>3
  <2>7. QED
    BY <2>1, <2>5, <2>6 DEF Trail
<1>3. ASSUME NEW r \in Requests, RequestStep(r), ~CreateUser(r), ~Commit(r)
      PROVE  Trail(users', log', provisioned')
  BY <1>3, <1>c, UsersUnchanged, LogUnchanged
<1>4. CASE Bootstrap
  <2>1. PICK t \in Seq(AuditEvent) :
            /\ log' = log \o t
            /\ \A i \in DOMAIN t : t[i].act = "bootstrap" /\ Booted(t[i].user)
            /\ \A i, j \in DOMAIN t : t[i].user = t[j].user => i = j
            /\ \A n \in Names : Booted(n) => \E i \in DOMAIN t : t[i].user = n
    BY <1>4, BootstrapEvents
  <2>2. /\ \A n \in Names : users'[n] = IF Booted(n) THEN Bootstrapped(users[n]) ELSE users[n]
        /\ provisioned' = provisioned
    BY <1>4 DEF Bootstrap, Booted, history
  <2>3. ASSUME NEW m \in Names PROVE users'[m] = Replay(log', m, First(m, provisioned))
    <3>1. users[m] = Replay(log, m, First(m, provisioned))
      BY <1>c DEF Trail
    <3>2. CASE Booted(m)
      <4>1. PICK k \in DOMAIN t : t[k].user = m
        BY <2>1, <3>2
      <4>2. \A i \in DOMAIN t : t[i].user = m => i = k
        BY <2>1, <4>1
      <4>3. Replay(log \o t, m, First(m, provisioned)) = Apply(users[m], t[k])
        BY <1>a, <1>b, <3>1, <4>1, <4>2, ReplayMore
      <4>4. Apply(users[m], t[k]) = Bootstrapped(users[m])
        BY <2>1, <4>1 DEF Apply
      <4>5. QED
        BY <2>1, <2>2, <3>2, <4>3, <4>4
    <3>3. CASE ~Booted(m)
      <4>1. \A i \in DOMAIN t : t[i].user # m
        BY <2>1, <3>3
      <4>2. Replay(log \o t, m, First(m, provisioned)) = users[m]
        BY <1>a, <1>b, <3>1, <4>1, ReplayMore
      <4>3. QED
        BY <2>1, <2>2, <3>3, <4>2
    <3>4. QED
      BY <3>2, <3>3
  <2>4. ASSUME NEW i \in DOMAIN log' PROVE users'[log'[i].user].exists
    <3>1. \A n \in Names : users[n].exists \/ Booted(n) => users'[n].exists
      <4>1. \A row : Bootstrapped(row).exists
        BY DEF Bootstrapped
      <4>2. QED
        BY <2>2, <4>1
    <3>2. \/ i \in DOMAIN log /\ log'[i] = log[i]
          \/ i - Len(log) \in DOMAIN t /\ log'[i] = t[i - Len(log)]
      BY <1>a, <2>1
    <3>3. CASE i \in DOMAIN log /\ log'[i] = log[i]
      <4>1. log[i].user \in Names /\ users[log[i].user].exists
        BY <1>c, <1>e, <3>3 DEF Trail
      <4>2. QED
        BY <3>1, <3>3, <4>1
    <3>4. CASE i - Len(log) \in DOMAIN t /\ log'[i] = t[i - Len(log)]
      <4>1. t[i - Len(log)].user \in Names /\ Booted(t[i - Len(log)].user)
        BY <2>1, <3>4, PortalAssumption DEF Booted
      <4>2. QED
        BY <3>1, <3>4, <4>1
    <3>5. QED
      BY <3>2, <3>3, <3>4
  <2>5. QED
    BY <2>2, <2>3, <2>4 DEF Trail
<1>5. CASE DeleteExpired \/ Crash \/ Tick \/ UNCHANGED vars
  BY <1>5, <1>c DEF DeleteExpired, Crash, Tick, vars, history
<1>6. QED
  BY <1>1, <1>2, <1>3, <1>4, <1>5 DEF Next, RequestStep

-----------------------------------------------------------------------------
(* The theorems.                                                           *)

LEMMA InitialInv == Init => PInv
<1> SUFFICES ASSUME Init PROVE PInv
  OBVIOUS
<1> USE DEF Init
<1>a. /\ InitialUsers \in [Names -> Row] /\ MaxTime \in Nat \ {0} /\ None \notin Requests
      /\ \A n \in Names : InitialUsers[n].exists \/ InitialUsers[n] = Absent
  BY PortalAssumption
<1>b. \A r \in Requests : req[r] = Idle
  OBVIOUS
<1>c. Idle.pc = "idle"
  BY DEF Idle
<1>1. TypeOK
  <2>1. clock \in Time /\ guesses \in [Keys -> [Time -> Nat]]
    BY <1>a DEF Time
  <2>2. failures \in Failures /\ req \in [Requests -> Request]
    BY NewFailuresType, IdleType
  <2>3. log \in Seq(AuditEvent)
    OBVIOUS
  <2>4. QED
    BY <1>a, <2>1, <2>2, <2>3 DEF TypeOK
<1>2. PointInv /\ SessionInv
  BY <1>b, <1>c DEF PointInv, SessionInv, Resolving, LoggingIn, Changing
<1>3. LockInv
  BY <1>a, <1>b, <1>c DEF LockInv
<1>4. RowInv
  BY <1>a DEF RowInv
<1>5. CommitInv /\ InactiveNotServed
  BY <1>b, <1>c DEF CommitInv, InactiveNotServed
<1>6. ManagerRemains /\ DeactivationRevokes
  BY DEF ManagerRemains, DeactivationRevokes
<1>7. TrailInv
  <2>1. log \in Seq(AuditEvent) /\ DOMAIN log = {}
    OBVIOUS
  <2>2. ASSUME NEW n \in Names PROVE users[n] = Replay(log, n, First(n, provisioned))
    <3>1. First(n, provisioned) = InitialUsers[n]
      BY <1>a DEF First
    <3>2. Replay(log, n, InitialUsers[n]) = InitialUsers[n]
      BY <1>a, <2>1, ReplayNothing
    <3>3. QED
      BY <3>1, <3>2
  <2>3. QED
    BY <2>1, <2>2, TrailOver DEF Trail
<1>8. QED
  BY <1>1, <1>2, <1>3, <1>4, <1>5, <1>6, <1>7 DEF PInv

LEMMA Inductive == PInv /\ [Next]_vars => PInv'
  BY TypeStep, PointStep, LockStep, RowStep, CommitStep, ManagerStep, SessionStep, RevokeStep,
     ServedStep, TrailStep DEF PInv

LEMMA PortalInvariant == Spec => []PInv
<1>1. Init => PInv
  BY InitialInv
<1>2. PInv /\ [Next]_vars => PInv'
  BY Inductive
<1>3. QED
  BY <1>1, <1>2, PTL DEF Spec

\* The tables, the throttle, the requests in flight and the audit trail keep
\* their types, however many users, requests and tokens there are.
THEOREM TypeCorrect == Spec => []TypeOK
<1>1. PInv => TypeOK
  BY DEF PInv
<1>2. QED
  BY <1>1, PortalInvariant, PTL

\* Once access.Bootstrap has committed there is an active access manager,
\* whatever administrators do to each other and to themselves, and whatever
\* rolls back or crashes in between.
THEOREM AManagerRemains == Spec => []ManagerRemains
<1>1. PInv => ManagerRemains
  BY DEF PInv
<1>2. QED
  BY <1>1, PortalInvariant, PTL

\* Replaying the audit trail over the rows that were there gives the users
\* table, for trails of any length.
THEOREM TheTrailReplays == Spec => []TrailReplays
<1>1. PInv => TrailReplays
  BY DEF PInv, TrailInv
<1>2. QED
  BY <1>1, PortalInvariant, PTL

\* No session outlives the deactivation of its user (users.SetUserActive).
THEOREM DeactivationRevokesSessions == Spec => []DeactivationRevokes
<1>1. PInv => DeactivationRevokes
  BY DEF PInv
<1>2. QED
  BY <1>1, PortalInvariant, PTL

\* ResolveSession serves an inactive user only in a request the deactivation
\* overtook.
THEOREM InactiveAreNotServed == Spec => []InactiveNotServed
<1>1. PInv => InactiveNotServed
  BY DEF PInv
<1>2. QED
  BY <1>1, PortalInvariant, PTL

\* The first logins of a name, however many run at once, create one user.
THEOREM ANameIsProvisionedOnce == Spec => []ProvisionedOnce
<1>1. PInv => ProvisionedOnce
  BY DEF PInv, RowInv, ProvisionedOnce
<1>2. QED
  BY <1>1, PortalInvariant, PTL

-----------------------------------------------------------------------------
(***************************************************************************)
(* The throttle: at most GuessLimit rejected attempts in a span.           *)
(***************************************************************************)
LEMMA LimitFacts ==
    /\ Window \in Nat \ {0} /\ Lockout \in Nat \ {0} /\ MaxFailures \in Nat \ {0}
    /\ Patience \in Nat /\ Patience < Window /\ Patience < Lockout
    /\ Leftover \in Nat /\ (MaxFailures > 1 => Leftover = MaxFailures - 2) /\ (MaxFailures = 1 => Leftover = 0)
    /\ Cardinality(Requests) \in Nat
    /\ GuessLimit \in Nat /\ GuessLimit = Leftover + MaxFailures - 1 + Cardinality(Requests)
<1>1. Cardinality(Requests) \in Nat
  BY PortalAssumption, FS_CardinalityType
<1>2. MaxFailures \in Nat \ {0} /\ Window \in Nat \ {0} /\ Lockout \in Nat \ {0}
  BY LockoutAssumption
<1>3. /\ Leftover \in Nat /\ (MaxFailures > 1 => Leftover = MaxFailures - 2)
      /\ (MaxFailures = 1 => Leftover = 0)
  BY <1>2 DEF Leftover
<1>4. QED
  BY <1>1, <1>2, <1>3, PortalAssumption DEF GuessLimit

\* How many of the attempts g counts by the time they began fall in a span.
InSpan(g, t) == [u \in Time |-> IF u \in Span(t) THEN g[u] ELSE 0]
Within(g, t) == Total(InSpan(g, t))

LEMMA GuessesWithin ==
    /\ \A k \in Keys, t \in Time : GuessesIn(k, t) = Within(guesses[k], t)
    /\ \A k \in Keys, t \in Time : GuessesIn(k, t)' = Within(guesses'[k], t)
  BY DEF GuessesIn, Within, InSpan, Span

LEMMA InSpanType ==
    ASSUME NEW g \in [Time -> Nat], NEW t \in Time
    PROVE  InSpan(g, t) \in Seq(Int) /\ Len(InSpan(g, t)) = MaxTime
<1>1. MaxTime \in Nat
  BY PortalAssumption
<1>2. InSpan(g, t) \in [1..MaxTime -> Int]
  BY DEF InSpan, Time
<1>3. QED
  BY <1>1, <1>2

\* One more attempt counts in the spans it began in.
LEMMA OneMoreWithin ==
    ASSUME NEW g \in [Time -> Nat], NEW t \in Time, NEW u \in Time
    PROVE  /\ Within(g, t) \in Int
           /\ Within([g EXCEPT ![u] = @ + 1], t) = Within(g, t) + (IF u \in Span(t) THEN 1 ELSE 0)
<1> DEFINE h == [g EXCEPT ![u] = @ + 1]
<1>1. h \in [Time -> Nat] /\ h[u] = g[u] + 1 /\ g[u] \in Nat /\ \A v \in Time : v # u => h[v] = g[v]
  OBVIOUS
<1> HIDE DEF h
<1>2. /\ InSpan(g, t) \in Seq(Int) /\ Len(InSpan(g, t)) = MaxTime
      /\ InSpan(h, t) \in Seq(Int) /\ Len(InSpan(h, t)) = MaxTime
  BY <1>1, InSpanType
<1>3. /\ InSpan(g, t)[u] = (IF u \in Span(t) THEN g[u] ELSE 0)
      /\ InSpan(h, t)[u] = (IF u \in Span(t) THEN g[u] + 1 ELSE 0)
      /\ \A v \in Time : v # u => InSpan(h, t)[v] = InSpan(g, t)[v]
  BY <1>1 DEF InSpan
<1>4. /\ Total(InSpan(h, t)) = Total(InSpan(g, t)) - InSpan(g, t)[u] + InSpan(h, t)[u]
      /\ Total(InSpan(g, t)) \in Int
  BY <1>2, <1>3, TotalChange DEF Time
<1>5. QED
  BY <1>1, <1>3, <1>4 DEF Within, h

\* No attempt that began in the span, none within it.
LEMMA NothingWithin ==
    ASSUME NEW g \in [Time -> Nat], NEW t \in Time, \A u \in Span(t) : g[u] = 0
    PROVE  Within(g, t) = 0
<1>1. InSpan(g, t) \in Seq(Int) /\ Len(InSpan(g, t)) = MaxTime
  BY InSpanType
<1>2. \A u \in Time : InSpan(g, t)[u] = 0
  BY DEF InSpan
<1>3. QED
  BY <1>1, <1>2, TotalZero DEF Within, Time

\* PaceInv for one key and one span: the key's entry, the attempts n within
\* the span, the x requests of the span that are past the check, the clock c.
Pace(e, n, x, c, t) ==
    /\ n <= GuessLimit
    /\ c + Patience < t + Window /\ c + Patience < t + Lockout =>
         /\ e = NoEntry => n <= Leftover
         /\ e # NoEntry /\ e.lockedUntil = Never =>
              n <= IF e.first + Patience < t THEN e.count - 1 ELSE Leftover + e.count
         /\ e.lockedUntil # Never =>
              IF e.lockedUntil + Patience < t + Lockout THEN n = 0 /\ x = 0 ELSE n + x <= GuessLimit
Short(e) == e # NoEntry => /\ e.count > 0 /\ e.first # Never
                           /\ e.lockedUntil = Never => e.count < MaxFailures

LEMMA EntryFields ==
    /\ NoEntry \in Entry /\ NoEntry.count = 0 /\ NoEntry.first = 0 /\ NoEntry.lockedUntil = 0
    /\ Never = 0
    /\ \A e \in Entry : e.count \in Nat /\ e.first \in Nat /\ e.lockedUntil \in Nat
  BY DEF Entry, NoEntry, Never

\* Requests that leave do no harm, and time only closes spans.
LEMMA PaceEases ==
    ASSUME NEW e \in Entry, NEW n \in Int, NEW x \in Nat, NEW c \in Nat, NEW t \in Nat, Pace(e, n, x, c, t),
           NEW y \in Nat, y <= x, NEW d \in Nat, c <= d
    PROVE  Pace(e, n, y, d, t)
  BY LimitFacts, EntryFields DEF Pace

\* Nothing counts requests past the check while the entry is no lock.
LEMMA PaceUnlocked ==
    ASSUME NEW e \in Entry, NEW n \in Int, NEW x, NEW c \in Nat, NEW t \in Nat, Pace(e, n, x, c, t),
           e.lockedUntil = Never, NEW y
    PROVE  Pace(e, n, y, c, t)
  BY DEF Pace

\* A window or a lock that is over had at most Leftover attempts in a span
\* that is still open: its first attempt, or its lock, came before the span.
LEMMA PaceReset ==
    ASSUME NEW e \in Entry, Short(e), NEW n \in Int, NEW x \in Nat, NEW c \in Nat, NEW t \in Nat,
           Pace(e, n, x, c, t), NEW now \in Nat, now <= c, Stale(e, now), NEW y
    PROVE  Pace(NoEntry, n, y, c, t)
<1>1. CASE ~(c + Patience < t + Window /\ c + Patience < t + Lockout)
  BY <1>1 DEF Pace
<1>2. CASE c + Patience < t + Window /\ c + Patience < t + Lockout
  <2>1. CASE e = NoEntry
    BY <1>2, <2>1, EntryFields DEF Pace
  <2>2. CASE e # NoEntry /\ e.lockedUntil = Never
    <3>1. e.first + Window <= now /\ e.count > 0 /\ e.count < MaxFailures
      BY <2>2 DEF Stale, Short
    <3>2. e.first + Patience < t
      BY <1>2, <3>1, LimitFacts, EntryFields
    <3>3. n <= e.count - 1
      BY <1>2, <2>2, <3>2 DEF Pace
    <3>4. n <= Leftover
      BY <3>1, <3>3, LimitFacts, EntryFields
    <3>5. QED
      BY <3>4, EntryFields DEF Pace
  <2>3. CASE e.lockedUntil # Never
    <3>1. e.lockedUntil <= now
      BY <2>3 DEF Stale
    <3>2. e.lockedUntil + Patience < t + Lockout
      BY <1>2, <3>1, LimitFacts, EntryFields
    <3>3. n = 0
      BY <1>2, <2>3, <3>2 DEF Pace
    <3>4. QED
      BY <3>3, LimitFacts, EntryFields DEF Pace
  <2>4. QED
    BY <2>1, <2>2, <2>3
<1>3. QED
  BY <1>1, <1>2

\* A rejected attempt that finds the account locked was past the check.
LEMMA PaceLocked ==
    ASSUME NEW e \in Entry, NEW n \in Int, NEW x \in Nat, NEW c \in Nat, NEW t \in Nat,
           Pace(e, n, x, c, t), e.lockedUntil # Never, NEW d \in {0, 1}, d <= x,
           d = 1 => c + Patience < t + Window /\ c + Patience < t + Lockout
    PROVE  Pace(e, n + d, x - d, c, t)
<1>1. CASE ~(c + Patience < t + Window /\ c + Patience < t + Lockout)
  <2>1. d = 0 /\ n + d = n /\ x - d = x
    BY <1>1
  <2>2. QED
    BY <2>1
<1>2. CASE c + Patience < t + Window /\ c + Patience < t + Lockout
  <2>1. CASE e.lockedUntil + Patience < t + Lockout
    <3>1. n = 0 /\ x = 0
      BY <1>2, <2>1 DEF Pace
    <3>2. n + d = n /\ x - d = x
      BY <3>1
    <3>3. QED
      BY <3>2
  <2>2. CASE ~(e.lockedUntil + Patience < t + Lockout)
    <3>1. n + x <= GuessLimit
      BY <1>2, <2>2 DEF Pace
    <3>2. (n + d) + (x - d) <= GuessLimit /\ n + d <= GuessLimit
      BY <3>1, LimitFacts
    <3>3. e # NoEntry
      BY EntryFields
    <3>4. QED
      BY <2>2, <3>2, <3>3 DEF Pace
  <2>3. QED
    BY <2>1, <2>2
<1>3. QED
  BY <1>1, <1>2

\* An attempt that is counted: it opens a window, adds to the one there is, or
\* makes it a lock, and then all who are still past the check fit the limit.
LEMMA PaceCounted ==
    ASSUME NEW e \in Entry, Short(e), NEW n \in Int, NEW x \in Nat, NEW c \in Nat, NEW t \in Nat,
           Pace(e, n, x, c, t), NEW now \in Nat \ {0}, now <= c, c <= now + Patience, ~(e.lockedUntil > now),
           NEW d \in {0, 1}, d = 1 => t <= now /\ c + Patience < t + Window /\ c + Patience < t + Lockout,
           NEW y \in Nat, y + 1 <= Cardinality(Requests), c < t => n = 0 /\ y = 0
    PROVE  Pace(Counted(Opened(e, now), now), n + d, y, c, t) /\ Short(Counted(Opened(e, now), now))
<1> DEFINE o == Opened(e, now)
           z == Counted(o, now)
           IsOpen == c + Patience < t + Window /\ c + Patience < t + Lockout
<1>1. \/ /\ o \in Entry /\ o.count = 0 /\ o.first = now /\ o.lockedUntil = Never
         /\ Pace(NoEntry, n, x, c, t)
      \/ o = e /\ e # NoEntry /\ e.lockedUntil = Never
  <2>1. CASE e.first = Never \/ e.first + Window <= now \/ e.lockedUntil # Never
    <3>1. o = [NoEntry EXCEPT !.first = now]
      BY <2>1 DEF Opened
    <3>2. o \in Entry /\ o.count = 0 /\ o.first = now /\ o.lockedUntil = Never
      BY <3>1, EntryFields DEF NoEntry, Entry
    <3>3. CASE e = NoEntry
      BY <3>2, <3>3
    <3>4. CASE e # NoEntry
      <4>1. e.first # Never
        BY <3>4 DEF Short
      <4>2. Stale(e, now)
        BY <2>1, <4>1, EntryFields DEF Stale
      <4>3. Pace(NoEntry, n, x, c, t)
        BY <4>2, PaceReset
      <4>4. QED
        BY <3>2, <4>3
    <3>5. QED
      BY <3>3, <3>4
  <2>2. CASE ~(e.first = Never \/ e.first + Window <= now \/ e.lockedUntil # Never)
    <3>1. o = e /\ e.lockedUntil = Never /\ e # NoEntry
      BY <2>2, EntryFields DEF Opened
    <3>2. QED
      BY <3>1
  <2>3. QED
    BY <2>1, <2>2
<1>2. o \in Entry /\ o.lockedUntil = Never
  BY <1>1
<1> HIDE DEF o
<1>3. /\ z.count = o.count + 1 /\ z.first = o.first /\ z.count > 0 /\ z # NoEntry /\ z \in Entry
      /\ z.lockedUntil = IF o.count + 1 >= MaxFailures THEN now + Lockout ELSE Never
  <2>1. /\ z.count = o.count + 1 /\ z.first = o.first
        /\ z.lockedUntil = IF o.count + 1 >= MaxFailures THEN now + Lockout ELSE Never
    BY <1>2 DEF Counted, Entry
  <2>2. z.count > 0 /\ z # NoEntry
    BY <1>2, <2>1, EntryFields
  <2>3. z \in Entry
    <3>1. o.count + 1 \in Nat /\ (IF o.count + 1 >= MaxFailures THEN now + Lockout ELSE o.lockedUntil) \in Nat
      BY <1>2, LimitFacts, EntryFields
    <3>2. QED
      BY <1>2, <3>1 DEF Counted, Entry
  <2>4. QED
    BY <2>1, <2>2, <2>3
<1>4. o.count < MaxFailures /\ o.first # Never
  BY <1>1, LimitFacts, EntryFields DEF Short
<1> HIDE DEF z
<1>5. Short(z)
  <2>1. z.first # Never
    BY <1>3, <1>4
  <2>2. z.lockedUntil = Never => z.count < MaxFailures
    BY <1>2, <1>3, LimitFacts, EntryFields
  <2>3. QED
    BY <1>3, <2>1, <2>2 DEF Short
<1>6. CASE ~IsOpen
  <2>1. d = 0 /\ n + d = n
    BY <1>6
  <2>2. QED
    BY <1>5, <1>6, <2>1 DEF Pace, z, o
<1>7. CASE IsOpen
  <2>1. n <= IF o.first + Patience < t /\ o.count > 0 THEN o.count - 1 ELSE Leftover + o.count
    <3>1. CASE o = e /\ e # NoEntry /\ e.lockedUntil = Never
      <4>1. e.count > 0
        BY <3>1 DEF Short
      <4>2. QED
        BY <1>7, <3>1, <4>1 DEF Pace
    <3>2. CASE o.count = 0 /\ Pace(NoEntry, n, x, c, t)
      <4>1. n <= Leftover
        BY <1>7, <3>2 DEF Pace
      <4>2. QED
        BY <3>2, <4>1, LimitFacts
    <3>3. QED
      BY <1>1, <3>1, <3>2
  <2>2. n <= Leftover + MaxFailures - 1
    BY <1>2, <1>4, <2>1, LimitFacts, EntryFields
  <2>3. n + d <= GuessLimit /\ (n + d) + y <= GuessLimit
    BY <2>2, LimitFacts
  <2>4. now + Patience < t => n = 0 /\ y = 0 /\ d = 0
    BY LimitFacts
  <2>5. CASE z.lockedUntil = Never
    <3>1. n + d <= IF z.first + Patience < t THEN z.count - 1 ELSE Leftover + z.count
      <4>1. CASE o.count > 0
        BY <1>2, <1>3, <2>1, <4>1, LimitFacts, EntryFields
      <4>2. CASE o.count = 0
        <5>1. o.first = now
          BY <1>1, <4>2 DEF Short
        <5>2. QED
          BY <1>2, <1>3, <2>1, <2>4, <4>2, <5>1, LimitFacts, EntryFields
      <4>3. QED
        BY <1>2, <4>1, <4>2, EntryFields
    <3>2. QED
      BY <1>3, <1>5, <2>3, <2>5, <3>1 DEF Pace, z, o
  <2>6. CASE z.lockedUntil # Never
    <3>1. z.lockedUntil = now + Lockout
      BY <1>3, <2>6
    <3>2. IF z.lockedUntil + Patience < t + Lockout THEN n + d = 0 /\ y = 0 ELSE (n + d) + y <= GuessLimit
      BY <2>3, <2>4, <3>1, LimitFacts
    <3>3. QED
      BY <1>3, <1>5, <2>3, <2>6, <3>2 DEF Pace, z, o
  <2>7. QED
    BY <2>5, <2>6
<1>8. QED
  BY <1>6, <1>7

\* cleanup drops stale entries and keeps the others.
LEMMA CleanupEntry ==
    ASSUME NEW f \in Failures, NEW now \in Nat, NEW k \in Keys
    PROVE  /\ f.entries[k] \in Entry /\ Cleanup(f, now).entries[k] \in Entry
           /\ \/ Cleanup(f, now).entries[k] = f.entries[k]
              \/ Cleanup(f, now).entries[k] = NoEntry /\ Stale(f.entries[k], now)
<1>1. f.entries \in [Keys -> Entry]
  BY DEF Failures
<1>2. Cleanup(f, now) \in Failures
  BY CleanupType
<1>3. Cleanup(f, now).entries \in [Keys -> Entry]
  BY <1>2 DEF Failures
<1>4. \/ Cleanup(f, now) = f
      \/ Cleanup(f, now).entries
           = [j \in Keys |-> IF Stale(f.entries[j], now) THEN NoEntry ELSE f.entries[j]]
  BY DEF Cleanup
<1>5. QED
  BY <1>1, <1>3, <1>4

\* blocked drops stale entries too, and lets through only who is not locked.
LEMMA BlockedEntry ==
    ASSUME NEW f \in Failures, NEW now \in Nat, NEW k \in Keys, NEW j \in Keys
    PROVE  /\ \/ AfterBlocked(f, j, now).entries[k] = f.entries[k]
              \/ AfterBlocked(f, j, now).entries[k] = NoEntry /\ Stale(f.entries[k], now)
           /\ k = j /\ ~IsBlocked(f, j, now) => AfterBlocked(f, j, now).entries[k].lockedUntil = Never
<1> DEFINE g == Cleanup(f, now)
           e == g.entries[k]
<1>1. g \in Failures
  BY CleanupType
<1>2. e \in Entry /\ f.entries[k] \in Entry /\ (e = f.entries[k] \/ (e = NoEntry /\ Stale(f.entries[k], now)))
  BY CleanupEntry
<1>3. AfterBlocked(f, j, now).entries[k]
        = IF k = j /\ e.lockedUntil # Never /\ e.lockedUntil <= now THEN NoEntry ELSE e
  BY <1>1 DEF AfterBlocked, Failures
<1>4. k = j => (IsBlocked(f, j, now) <=> e.lockedUntil > now)
  BY DEF IsBlocked
<1> HIDE DEF g, e
<1>5. CASE k = j /\ e.lockedUntil # Never /\ e.lockedUntil <= now
  <2>1. e = f.entries[k]
    BY <1>2, <1>5, EntryFields
  <2>2. Stale(f.entries[k], now)
    BY <1>5, <2>1 DEF Stale
  <2>3. QED
    BY <1>3, <1>5, <2>2, EntryFields
<1>6. CASE ~(k = j /\ e.lockedUntil # Never /\ e.lockedUntil <= now)
  BY <1>2, <1>3, <1>4, <1>6, EntryFields
<1>7. QED
  BY <1>5, <1>6

\* fail counts an attempt in the entry of its key, unless it is locked.
LEMMA FailEntry ==
    ASSUME NEW f \in Failures, NEW now \in Nat, NEW k \in Keys, NEW j \in Keys
    PROVE  LET g == Cleanup(f, now).entries[k]
               h == AfterFail(f, j, now).entries[k]
           IN  /\ k # j => h = g
               /\ k = j /\ Full(f, j, now) => h = g /\ g = NoEntry
               /\ k = j /\ ~Full(f, j, now) =>
                    h = IF g.lockedUntil > now THEN g ELSE Counted(Opened(g, now), now)
<1> DEFINE c == Cleanup(f, now)
<1>1. c \in Failures
  BY CleanupType
<1>2. AfterFail(f, j, now) = IF c.entries[j].lockedUntil > now \/ Full(f, j, now) THEN c
                             ELSE [c EXCEPT !.entries[j] = Counted(Opened(@, now), now)]
  BY DEF AfterFail
<1>3. Full(f, j, now) => c.entries[j] = NoEntry
  BY DEF Full, Known
<1> HIDE DEF c
<1>4. [c EXCEPT !.entries[j] = Counted(Opened(@, now), now)].entries[k]
        = IF k = j THEN Counted(Opened(c.entries[j], now), now) ELSE c.entries[k]
  BY <1>1 DEF Failures
<1>5. QED
  BY <1>2, <1>3, <1>4 DEF c

\* The steps that touch neither the throttle nor what it counts: who is past
\* the check was past it before, and an attempt takes the time it begins at.
QuietStep(r) ==
    \/ LoadPrincipal(r) \/ ResolveSession(r) \/ Answer(r) \/ InternalError(r) \/ Logout(r)
    \/ SubmitLogin(r) \/ Authenticate(r) \/ FindByUsername(r) \/ CreateUser(r) \/ CreateSession(r)
    \/ AccessChange(r)
Stays(r) == req'[r].pc \in {"auth", "fail"} => /\ req[r].pc \in {"auth", "fail"}
                                               /\ req'[r].name = req[r].name /\ req'[r].now = req[r].now

LEMMA QuietSteps ==
    ASSUME TypeOK, NEW r \in Requests, QuietStep(r)
    PROVE  /\ UNCHANGED <<clock, failures, guesses>> /\ Stays(r)
           /\ req'[r].pc = "blocked" => req'[r].now = clock
<1>a. req \in [Requests -> Request]
  BY DEF TypeOK
<1>b. /\ Respond(r) => req'[r].pc = "idle"
      /\ \A pc : Goto(r, pc) => req'[r].pc = pc /\ req'[r].name = req[r].name /\ req'[r].now = req[r].now
  BY <1>a DEF Respond, Goto, Idle, Request
<1> USE DEF At, history, Stays
<1>1. CASE LoadPrincipal(r) \/ Answer(r) \/ InternalError(r) \/ Logout(r)
  <2>1. ASSUME NEW t, NEW e,
               req' = [req EXCEPT ![r] = [Idle EXCEPT !.pc = "session", !.tok = t, !.now = clock,
                                                      !.seen = e]]
        PROVE  req'[r].pc = "session"
    BY <2>1, <1>a DEF Idle
  <2>2. CASE LoadPrincipal(r)
    <3>1. req'[r].pc \in {"guest", "session"}
      <4>1. CASE Goto(r, "guest")
        BY <1>b, <4>1
      <4>2. CASE ~Goto(r, "guest")
        <5>1. PICK t \in Tokens :
                 req' = [req EXCEPT ![r] = [Idle EXCEPT !.pc = "session", !.tok = t, !.now = clock,
                                                        !.seen = epoch[owner[t]]]]
          BY <2>2, <4>2 DEF LoadPrincipal
        <5>2. QED
          BY <2>1, <5>1
      <4>3. QED
        BY <4>1, <4>2
    <3>2. QED
      BY <2>2, <3>1 DEF LoadPrincipal
  <2>3. CASE Answer(r) \/ InternalError(r) \/ Logout(r)
    BY <2>3, <1>b DEF Answer, InternalError, Logout
  <2>4. QED
    BY <1>1, <2>2, <2>3
<1>2. CASE SubmitLogin(r)
  <2>1. ASSUME NEW n,
               req' = [req EXCEPT ![r] = [Idle EXCEPT !.pc = "blocked", !.name = n, !.now = clock]]
        PROVE  req'[r].pc = "blocked" /\ req'[r].now = clock
    BY <2>1, <1>a DEF Idle
  <2>2. QED
    BY <1>2, <2>1 DEF SubmitLogin
<1>3. CASE FindValidSession(r)
  <2>1. ASSUME NEW n, req' = [req EXCEPT ![r].pc = "user", ![r].name = n]
        PROVE  req'[r].pc = "user"
    BY <2>1, <1>a DEF Request
  <2>2. QED
    BY <1>3, <1>b, <2>1 DEF FindValidSession
<1>4. CASE FindByID(r) \/ RevokeUnauthenticated(r) \/ ListPermissionKeysForUser(r)
  <2>1. RevokeUnauthenticated(r) => req'[r].pc = "guest"
    BY <1>a DEF RevokeUnauthenticated, Request
  <2>2. ListPermissionKeysForUser(r) => req'[r].pc = "serve"
    BY <1>a DEF ListPermissionKeysForUser, Request
  <2>3. QED
    BY <1>4, <1>b, <2>1, <2>2 DEF FindByID, RevokeUnauthenticated, ListPermissionKeysForUser
<1>5. CASE Authenticate(r)
  BY <1>5, <1>b DEF Authenticate
<1>6. CASE FindByUsername(r) \/ CreateUser(r) \/ CreateSession(r)
  BY <1>6, <1>b DEF FindByUsername, CreateUser, CreateSession
<1>7. CASE BeginChange(r)
  <2>1. ASSUME NEW n, NEW act, req' = [req EXCEPT ![r].pc = "lock", ![r].act = act, ![r].target = n]
        PROVE  req'[r].pc = "lock"
    BY <2>1, <1>a DEF Request
  <2>2. QED
    BY <1>7, <2>1 DEF BeginChange
<1>8. CASE LockManagePermission(r) \/ Commit(r) \/ Rollback(r)
  BY <1>8, <1>b DEF LockManagePermission, Commit, Rollback
<1>9. CASE ReplacePermissions(r) \/ SetUserActive(r)
  <2>1. PICK row, dead, checked : Statements(r, row, dead, checked)
    BY <1>9 DEF ReplacePermissions, SetUserActive
  <2>2. req'[r].pc = "commit" \/ req'[r] = Idle
    BY <2>1, StatementSteps
  <2>3. QED
    BY <2>1, <2>2 DEF Statements, Idle
<1>10. QED
  BY <1>1, <1>2, <1>3, <1>4, <1>5, <1>6, <1>7, <1>8, <1>9 DEF QuietStep, ResolveSession, AccessChange

\* The requests rq in flight that are past the check for k and began in the span.
Past(rq, k, t) == {r \in Requests : /\ rq[r].pc \in {"auth", "fail"}
                                    /\ Fold[rq[r].name] = k /\ rq[r].now \in Span(t)}

LEMMA PastFinite ==
    ASSUME NEW rq, NEW k, NEW t
    PROVE  /\ Past(rq, k, t) \subseteq Requests /\ IsFiniteSet(Past(rq, k, t))
           /\ Cardinality(Past(rq, k, t)) \in Nat
           /\ Past(rq, k, t) = {} <=> Cardinality(Past(rq, k, t)) = 0
<1>1. Past(rq, k, t) \subseteq Requests
  BY DEF Past
<1>2. IsFiniteSet(Past(rq, k, t))
  BY <1>1, PortalAssumption, FS_Subset
<1>3. QED
  BY <1>1, <1>2, FS_CardinalityType, FS_EmptySet

LEMMA PaceIs ==
    /\ PaceInv <=> \A k \in Keys, t \in Time :
                     Pace(failures.entries[k], Within(guesses[k], t), Cardinality(Past(req, k, t)), clock, t)
    /\ PaceInv' <=> \A k \in Keys, t \in Time :
                      Pace(failures'.entries[k], Within(guesses'[k], t), Cardinality(Past(req', k, t)), clock', t)
<1>1. \A k, t : PastCheck(k, t) = Past(req, k, t)
  BY DEF PastCheck, Past, KeyOf
<1>2. \A k, t : PastCheck(k, t)' = Past(req', k, t)
  BY DEF PastCheck, Past, KeyOf, Span
<1>3. ASSUME NEW k \in Keys, NEW t \in Time
      PROVE  Past(req, k, t) = {} <=> Cardinality(Past(req, k, t)) = 0
  BY PastFinite
<1>4. ASSUME NEW k \in Keys, NEW t \in Time
      PROVE  Past(req', k, t) = {} <=> Cardinality(Past(req', k, t)) = 0
  BY PastFinite
<1>5. PaceInv <=> \A k \in Keys, t \in Time :
                    Pace(failures.entries[k], Within(guesses[k], t), Cardinality(Past(req, k, t)), clock, t)
  BY <1>1, <1>3, GuessesWithin DEF PaceInv, Pace, Open
<1>6. PaceInv' <=> \A k \in Keys, t \in Time :
                     Pace(failures'.entries[k], Within(guesses'[k], t), Cardinality(Past(req', k, t)), clock', t)
  <2>1. PaceInv' <=> \A k \in Keys, t \in Time :
          LET e == failures'.entries[k]
              n == Within(guesses'[k], t)
          IN  /\ n <= GuessLimit
              /\ clock' + Patience < t + Window /\ clock' + Patience < t + Lockout =>
                   /\ e = NoEntry => n <= Leftover
                   /\ e # NoEntry /\ e.lockedUntil = Never =>
                        n <= IF e.first + Patience < t THEN e.count - 1 ELSE Leftover + e.count
                   /\ e.lockedUntil # Never =>
                        IF e.lockedUntil + Patience < t + Lockout
                        THEN n = 0 /\ Past(req', k, t) = {}
                        ELSE n + Cardinality(Past(req', k, t)) <= GuessLimit
    BY <1>2, GuessesWithin DEF PaceInv, Open, NoEntry, Leftover, GuessLimit, Never
  <2>2. QED
    BY <2>1, <1>4 DEF Pace
<1>7. QED
  BY <1>5, <1>6

LEMMA EntryIs ==
    /\ EntryInv <=> \A k \in Keys : Short(failures.entries[k])
    /\ EntryInv' <=> \A k \in Keys : Short(failures'.entries[k])
  BY DEF EntryInv, Short, NoEntry, Never

\* Types, as the steps below need them.
LEMMA ThrottleFields ==
    ASSUME TypeOK
    PROVE  /\ clock \in Nat /\ clock \in Time /\ MaxTime \in Nat /\ Time \subseteq Nat \ {0}
           /\ \A k \in Keys : guesses[k] \in [Time -> Nat] /\ failures.entries[k] \in Entry
           /\ \A k \in Keys, t \in Time : Within(guesses[k], t) \in Int
           /\ failures \in Failures /\ req \in [Requests -> Request]
<1>1. clock \in Nat /\ clock \in Time /\ MaxTime \in Nat /\ Time \subseteq Nat \ {0}
  BY PortalAssumption DEF TypeOK, Time
<1>2. \A k \in Keys : guesses[k] \in [Time -> Nat] /\ failures.entries[k] \in Entry
  BY DEF TypeOK, Failures
<1>3. \A k \in Keys, t \in Time : Within(guesses[k], t) \in Int
  BY <1>2, OneMoreWithin
<1>4. QED
  BY <1>1, <1>2, <1>3 DEF TypeOK

\* Before a span begins nothing is in it.
LEMMA TooEarly ==
    ASSUME TypeOK, AgeInv, NEW k \in Keys, NEW t \in Time, clock < t
    PROVE  Within(guesses[k], t) = 0 /\ Past(req, k, t) = {}
<1>1. \A u \in Span(t) : u \in Time /\ u > clock
  BY ThrottleFields DEF Span
<1>2. \A u \in Span(t) : guesses[k][u] = 0
  BY <1>1 DEF AgeInv
<1>3. Within(guesses[k], t) = 0
  BY <1>2, ThrottleFields, NothingWithin
<1>4. Past(req, k, t) = {}
  <2>1. ASSUME NEW r \in Requests, req[r].pc \in {"auth", "fail"}, req[r].now \in Span(t) PROVE FALSE
    <3>1. req[r].now <= clock
      BY <2>1 DEF AgeInv
    <3>2. QED
      BY <1>1, <2>1, <3>1, ThrottleFields
  <2>2. QED
    BY <2>1 DEF Past
<1>5. QED
  BY <1>3, <1>4

\* While a request is judged the spans it began in are open.
LEMMA StillOpen ==
    ASSUME TypeOK, AgeInv, NEW r \in Requests, req[r].pc \in {"blocked", "auth", "fail"},
           NEW t \in Time, req[r].now \in Span(t)
    PROVE  t <= req[r].now /\ clock + Patience < t + Window /\ clock + Patience < t + Lockout
<1>1. clock <= req[r].now + Patience
  BY DEF AgeInv
<1>2. /\ req[r].now \in Time /\ t <= req[r].now
      /\ req[r].now + 2 * Patience < t + Window /\ req[r].now + 2 * Patience < t + Lockout
  BY DEF Span
<1>3. QED
  BY <1>1, <1>2, ThrottleFields, LimitFacts

\* What the throttled steps do to the request they belong to.
LEMMA ThrottledSteps ==
    ASSUME TypeOK, PointInv, NEW r \in Requests, Blocked(r) \/ FailLogin(r) \/ ClearFailures(r)
    PROVE  /\ clock' = clock /\ KeyOf(r) \in Keys /\ req[r].now \in Time
           /\ \A q \in Requests : q # r => req'[q] = req[q]
           /\ Blocked(r) => /\ req[r].pc = "blocked" /\ guesses' = guesses
                            /\ failures' = AfterBlocked(failures, KeyOf(r), req[r].now)
                            /\ \/ req'[r] = Idle
                               \/ /\ ~IsBlocked(failures, KeyOf(r), req[r].now) /\ req'[r].pc = "auth"
                                  /\ req'[r].name = req[r].name /\ req'[r].now = req[r].now
           /\ FailLogin(r) => req[r].pc = "fail" /\ req'[r] = Idle
           /\ ClearFailures(r) => req[r].pc = "clear" /\ req'[r].pc = "find"
<1>a. req \in [Requests -> Request]
  BY DEF TypeOK
<1>b. /\ Respond(r) => req'[r] = Idle
      /\ \A pc : Goto(r, pc) => req'[r].pc = pc /\ req'[r].name = req[r].name /\ req'[r].now = req[r].now
  BY <1>a DEF Respond, Goto, Idle, Request
<1>1. \A q \in Requests : q # r => req'[q] = req[q]
  BY OthersUnchanged DEF RequestStep, Login
<1>2. req[r].pc \in {"blocked", "fail", "clear"}
  BY DEF Blocked, FailLogin, ClearFailures, At
<1>3. req[r].name \in Names /\ req[r].now \in Time
  BY <1>2 DEF PointInv, LoggingIn
<1>4. KeyOf(r) \in Keys
  BY <1>3, PortalAssumption DEF KeyOf
<1>5. clock' = clock
  BY DEF Blocked, FailLogin, ClearFailures
<1>6. ASSUME Blocked(r)
      PROVE  /\ req[r].pc = "blocked" /\ guesses' = guesses
             /\ failures' = AfterBlocked(failures, KeyOf(r), req[r].now)
             /\ \/ req'[r] = Idle
                \/ /\ ~IsBlocked(failures, KeyOf(r), req[r].now) /\ req'[r].pc = "auth"
                   /\ req'[r].name = req[r].name /\ req'[r].now = req[r].now
  BY <1>6, <1>b DEF Blocked, At, history
<1>7. FailLogin(r) => req[r].pc = "fail" /\ req'[r] = Idle
  BY <1>b DEF FailLogin, At
<1>8. ClearFailures(r) => req[r].pc = "clear" /\ req'[r].pc = "find"
  BY <1>b DEF ClearFailures, At
<1>9. QED
  BY <1>1, <1>3, <1>4, <1>5, <1>6, <1>7, <1>8

\* The Fincloud client's timeout keeps an attempt young until it is judged.
LEMMA AgeStep == TypeOK /\ PointInv /\ AgeInv /\ [Next]_vars => AgeInv'
<1> SUFFICES ASSUME TypeOK, PointInv, AgeInv, [Next]_vars PROVE AgeInv'
  OBVIOUS
<1> DEFINE Young(q, c) == q.pc \in {"blocked", "auth", "fail"} => q.now <= c /\ c <= q.now + Patience
           NoneAhead(g, c) == \A k \in Keys, u \in Time : u > c => g[k][u] = 0
<1>a. /\ AgeInv <=> (\A r \in Requests : Young(req[r], clock)) /\ NoneAhead(guesses, clock)
      /\ AgeInv' <=> (\A r \in Requests : Young(req'[r], clock')) /\ NoneAhead(guesses', clock')
  BY DEF AgeInv, Time
<1>b. Idle.pc = "idle"
  BY DEF Idle
<1>1. ASSUME NEW r \in Requests, QuietStep(r) PROVE AgeInv'
  <2>1. \A q \in Requests : q # r => req'[q] = req[q]
    BY <1>1, OthersUnchanged DEF QuietStep, RequestStep, Login
  <2>2. /\ clock' = clock /\ guesses' = guesses /\ Stays(r)
        /\ req'[r].pc = "blocked" => req'[r].now = clock
    BY <1>1, QuietSteps
  <2>3. Young(req'[r], clock)
    BY <1>a, <2>2, ThrottleFields, LimitFacts DEF Stays
  <2>4. QED
    BY <1>a, <2>1, <2>2, <2>3
<1>2. ASSUME NEW r \in Requests, Blocked(r) \/ FailLogin(r) \/ ClearFailures(r) PROVE AgeInv'
  <2>1. /\ clock' = clock /\ KeyOf(r) \in Keys /\ req[r].now \in Time
        /\ \A q \in Requests : q # r => req'[q] = req[q]
    BY <1>2, ThrottledSteps
  <2>2. Young(req'[r], clock)
    BY <1>2, <1>a, <1>b, ThrottledSteps
  <2>3. NoneAhead(guesses', clock)
    <3>0. guesses \in [Keys -> [Time -> Nat]]
      BY DEF TypeOK
    <3>1. CASE Blocked(r)
      BY <3>1, <1>a, ThrottledSteps
    <3>2. CASE FailLogin(r)
      <4>1. req[r].now <= clock
        BY <3>2, ThrottledSteps DEF AgeInv
      <4>2. guesses' = guesses \/ guesses' = [guesses EXCEPT ![KeyOf(r)][req[r].now] = @ + 1]
        BY <3>2 DEF FailLogin
      <4>3. \A u \in Time : u > clock => u # req[r].now
        BY <2>1, <4>1, ThrottleFields
      <4>4. QED
        BY <1>a, <2>1, <3>0, <4>2, <4>3
    <3>3. CASE ClearFailures(r)
      <4>1. guesses' = [guesses EXCEPT ![KeyOf(r)] = [t \in Time |-> 0]]
        BY <3>3 DEF ClearFailures
      <4>2. QED
        BY <1>a, <2>1, <3>0, <4>1
    <3>4. QED
      BY <1>2, <3>1, <3>2, <3>3
  <2>4. QED
    BY <1>a, <2>1, <2>2, <2>3
<1>3. CASE Crash
  <2>1. /\ clock' = clock /\ req' = [r \in Requests |-> Idle]
        /\ guesses' = [k \in Keys |-> [t \in Time |-> 0]]
    BY <1>3 DEF Crash
  <2>2. QED
    BY <1>a, <1>b, <2>1
<1>4. CASE Tick
  <2>1. /\ clock' = clock + 1 /\ UNCHANGED <<req, guesses>>
        /\ \A r \in Requests : req[r].pc \in {"blocked", "auth", "fail"} => clock < req[r].now + Patience
    BY <1>4 DEF Tick, history
  <2>2. ASSUME NEW r \in Requests, req[r].pc \in {"blocked", "auth", "fail"}
        PROVE  req[r].now <= clock + 1 /\ clock + 1 <= req[r].now + Patience
    <3>1. req[r].now \in Time
      BY <2>2 DEF PointInv, LoggingIn
    <3>2. req[r].now <= clock /\ clock < req[r].now + Patience
      BY <1>a, <2>1, <2>2
    <3>3. QED
      BY <3>1, <3>2, ThrottleFields, LimitFacts
  <2>3. \A u \in Time : u > clock + 1 => u > clock
    BY ThrottleFields
  <2>4. QED
    BY <1>a, <2>1, <2>2, <2>3
<1>5. CASE Bootstrap \/ DeleteExpired \/ UNCHANGED vars
  <2>1. UNCHANGED <<req, guesses, clock>>
    BY <1>5 DEF Bootstrap, DeleteExpired, vars, history
  <2>2. QED
    BY <1>a, <2>1
<1>6. QED
  BY <1>1, <1>2, <1>3, <1>4, <1>5 DEF Next, QuietStep, Login

\* Where the throttle is not touched and nobody passes the check, the pace is kept.
LEMMA QuietPace ==
    ASSUME TypeOK, TypeOK', EntryInv, PaceInv, UNCHANGED <<failures, guesses>>, clock <= clock',
           \A q \in Requests : Stays(q)
    PROVE  EntryInv' /\ PaceInv'
<1>1. EntryInv'
  BY EntryIs
<1>2. ASSUME NEW k \in Keys, NEW t \in Time
      PROVE  Pace(failures'.entries[k], Within(guesses'[k], t), Cardinality(Past(req', k, t)), clock', t)
  <2>1. Past(req', k, t) \subseteq Past(req, k, t)
    BY DEF Past, Stays
  <2>2. Cardinality(Past(req', k, t)) <= Cardinality(Past(req, k, t))
    BY <2>1, PastFinite, FS_Subset
  <2>3. Cardinality(Past(req, k, t)) \in Nat /\ Cardinality(Past(req', k, t)) \in Nat
    BY PastFinite
  <2>4. clock \in Nat /\ clock' \in Nat /\ t \in Nat
    BY ThrottleFields DEF TypeOK, Time
  <2>5. Pace(failures.entries[k], Within(guesses[k], t), Cardinality(Past(req, k, t)), clock, t)
    BY PaceIs
  <2>6. failures.entries[k] \in Entry /\ Within(guesses[k], t) \in Int
    BY ThrottleFields
  <2>7. Pace(failures.entries[k], Within(guesses[k], t), Cardinality(Past(req', k, t)), clock', t)
    BY <2>2, <2>3, <2>4, <2>5, <2>6, PaceEases
  <2>8. QED
    BY <2>7
<1>3. QED
  BY <1>1, <1>2, PaceIs

\* Who passes the check leaves an entry without a lock behind.
LEMMA BlockedPace ==
    ASSUME TypeOK, PointInv, AgeInv, EntryInv, PaceInv, NEW r \in Requests, Blocked(r)
    PROVE  EntryInv' /\ PaceInv'
<1> DEFINE j == KeyOf(r)
           now == req[r].now
<1>1. /\ clock' = clock /\ j \in Keys /\ now \in Time /\ \A q \in Requests : q # r => req'[q] = req[q]
      /\ req[r].pc = "blocked" /\ guesses' = guesses /\ failures' = AfterBlocked(failures, j, now)
      /\ \/ req'[r] = Idle
         \/ /\ ~IsBlocked(failures, j, now) /\ req'[r].pc = "auth"
            /\ req'[r].name = req[r].name /\ req'[r].now = now
  BY ThrottledSteps
<1>2. now \in Nat /\ now <= clock /\ clock \in Nat
  BY <1>1, ThrottleFields DEF AgeInv
<1>3. Idle.pc = "idle" /\ Fold[req[r].name] = j
  BY DEF Idle, KeyOf
<1> HIDE DEF j, now
<1>4. ASSUME NEW k \in Keys, NEW t \in Time
      PROVE  /\ Short(failures'.entries[k])
             /\ Pace(failures'.entries[k], Within(guesses'[k], t), Cardinality(Past(req', k, t)), clock', t)
  <2> DEFINE e == failures.entries[k]
             h == failures'.entries[k]
             n == Within(guesses[k], t)
             x == Cardinality(Past(req, k, t))
             y == Cardinality(Past(req', k, t))
  <2>1. /\ e \in Entry /\ n \in Int /\ t \in Nat /\ Short(e) /\ Pace(e, n, x, clock, t)
        /\ x \in Nat /\ y \in Nat
    BY ThrottleFields, PaceIs, EntryIs, PastFinite
  <2>2. (h = e \/ (h = NoEntry /\ Stale(e, now))) /\ (k = j /\ ~IsBlocked(failures, j, now) => h.lockedUntil = Never)
    BY <1>1, <1>2, ThrottleFields, BlockedEntry
  <2>3. y <= x \/ h.lockedUntil = Never
    <3>1. CASE req'[r] = Idle \/ k # j
      <4>1. Past(req', k, t) \subseteq Past(req, k, t)
        BY <1>1, <1>3, <3>1 DEF Past
      <4>2. QED
        BY <4>1, PastFinite, FS_Subset
    <3>2. QED
      BY <1>1, <2>2, <3>1
  <2> HIDE DEF e, h, n, x, y
  <2>4. h \in Entry /\ Short(h) /\ Pace(h, n, x, clock, t)
    <3>1. CASE h = e
      BY <2>1, <3>1
    <3>2. CASE h = NoEntry /\ Stale(e, now)
      <4>1. Pace(NoEntry, n, x, clock, t)
        BY <1>2, <2>1, <3>2, PaceReset
      <4>2. QED
        BY <3>2, <4>1, EntryFields DEF Short
    <3>3. QED
      BY <2>2, <3>1, <3>2
  <2>5. Pace(h, n, y, clock, t)
    <3>1. CASE y <= x
      BY <1>2, <2>1, <2>4, <3>1, PaceEases
    <3>2. CASE h.lockedUntil = Never
      BY <1>2, <2>1, <2>4, <3>2, PaceUnlocked
    <3>3. QED
      BY <2>3, <3>1, <3>2
  <2>6. QED
    BY <1>1, <2>4, <2>5 DEF h, n, y
<1>5. Time # {}
  BY ThrottleFields
<1>6. QED
  BY <1>4, <1>5, PaceIs, EntryIs

\* A rejected attempt is no longer past the check, and it is counted.
LEMMA FailPace ==
    ASSUME TypeOK, PointInv, AgeInv, EntryInv, PaceInv, NEW r \in Requests, FailLogin(r)
    PROVE  EntryInv' /\ PaceInv'
<1> DEFINE j == KeyOf(r)
           now == req[r].now
<1>1. /\ clock' = clock /\ j \in Keys /\ now \in Time /\ \A q \in Requests : q # r => req'[q] = req[q]
      /\ req[r].pc = "fail" /\ req'[r] = Idle
  BY ThrottledSteps
<1>2. /\ failures' = AfterFail(failures, j, now)
      /\ guesses' = IF Full(failures, j, now) THEN guesses ELSE [guesses EXCEPT ![j][now] = @ + 1]
  BY DEF FailLogin
<1>3. now \in Nat \ {0} /\ now <= clock /\ clock <= now + Patience /\ clock \in Nat
  BY <1>1, ThrottleFields DEF AgeInv
<1>4. Idle.pc = "idle" /\ Fold[req[r].name] = j
  BY DEF Idle, KeyOf
<1>a. \A t \in Time : now \in Span(t) =>
        t <= now /\ clock + Patience < t + Window /\ clock + Patience < t + Lockout
  BY <1>1, StillOpen
<1>b. ASSUME NEW t \in Time PROVE r \in Past(req, j, t) <=> now \in Span(t)
  BY <1>1, <1>4 DEF Past, now
<1>c. \A k, t : r \notin Past(req', k, t)
  BY <1>1, <1>4 DEF Past
<1>d. \A k, t : Past(req', k, t) = Past(req, k, t) \ {r}
  BY <1>1, <1>c DEF Past
<1> HIDE DEF j, now
<1>5. ASSUME NEW k \in Keys, NEW t \in Time
      PROVE  /\ Short(failures'.entries[k])
             /\ Pace(failures'.entries[k], Within(guesses'[k], t), Cardinality(Past(req', k, t)), clock', t)
  <2> DEFINE e == failures.entries[k]
             g == Cleanup(failures, now).entries[k]
             h == failures'.entries[k]
             n == Within(guesses[k], t)
             x == Cardinality(Past(req, k, t))
             y == Cardinality(Past(req', k, t))
             d == IF now \in Span(t) THEN 1 ELSE 0
  <2>1. /\ e \in Entry /\ n \in Int /\ t \in Nat /\ Short(e) /\ Pace(e, n, x, clock, t)
        /\ x \in Nat /\ y \in Nat
    BY ThrottleFields, PaceIs, EntryIs, PastFinite
  <2>2. g \in Entry /\ (g = e \/ (g = NoEntry /\ Stale(e, now)))
    BY <1>3, ThrottleFields, CleanupEntry
  <2>3. /\ k # j => h = g
        /\ k = j /\ Full(failures, j, now) => h = g /\ g = NoEntry
        /\ k = j /\ ~Full(failures, j, now) =>
             h = IF g.lockedUntil > now THEN g ELSE Counted(Opened(g, now), now)
    BY <1>1, <1>2, <1>3, ThrottleFields, FailEntry
  <2>4. y <= x
    BY <1>d, PastFinite, FS_Subset
  <2>5. k = j => x - d = y /\ d <= x
    <3>1. SUFFICES ASSUME k = j PROVE x - d = y /\ d <= x
      OBVIOUS
    <3>2. CASE now \in Span(t)
      <4>1. y = x - 1
        BY <1>b, <1>d, <3>1, <3>2, PastFinite, FS_RemoveElement
      <4>2. QED
        BY <2>1, <3>2, <4>1
    <3>3. CASE now \notin Span(t)
      <4>1. Past(req', k, t) = Past(req, k, t)
        BY <1>b, <1>d, <3>1, <3>3
      <4>2. QED
        BY <2>1, <3>3, <4>1
    <3>4. QED
      BY <3>2, <3>3
  <2>6. y + 1 <= Cardinality(Requests)
    <3>1. Past(req', k, t) \subseteq Requests \ {r}
      BY <1>c, PastFinite
    <3>2. IsFiniteSet(Requests \ {r}) /\ Cardinality(Requests \ {r}) = Cardinality(Requests) - 1
      BY PortalAssumption, FS_RemoveElement
    <3>3. y <= Cardinality(Requests \ {r})
      BY <3>1, <3>2, FS_Subset
    <3>4. QED
      BY <2>1, <3>2, <3>3, LimitFacts
  <2>7. clock < t => n = 0 /\ y = 0
    <3>1. clock < t => n = 0 /\ Past(req, k, t) = {}
      BY TooEarly
    <3>2. clock < t => x = 0
      BY <3>1, PastFinite
    <3>3. QED
      BY <2>1, <2>4, <3>1, <3>2
  <2>8. /\ k # j \/ Full(failures, j, now) => Within(guesses'[k], t) = n
        /\ k = j /\ ~Full(failures, j, now) => Within(guesses'[k], t) = n + d
    <3>1. guesses \in [Keys -> [Time -> Nat]]
      BY DEF TypeOK
    <3>2. k # j \/ Full(failures, j, now) => guesses'[k] = guesses[k]
      BY <1>1, <1>2, <3>1
    <3>3. k = j /\ ~Full(failures, j, now) => guesses'[k] = [guesses[k] EXCEPT ![now] = @ + 1]
      BY <1>1, <1>2, <3>1
    <3>4. Within([guesses[k] EXCEPT ![now] = @ + 1], t) = n + d
      BY <1>1, ThrottleFields, OneMoreWithin
    <3>5. QED
      BY <3>2, <3>3, <3>4
  <2>9. d \in {0, 1} /\ (d = 1 => t <= now /\ clock + Patience < t + Window /\ clock + Patience < t + Lockout)
    BY <1>a
  <2> HIDE DEF e, g, h, n, x, y, d
  <2>10. Short(g) /\ Pace(g, n, x, clock, t)
    <3>1. CASE g = e
      BY <2>1, <3>1
    <3>2. CASE g = NoEntry /\ Stale(e, now)
      <4>1. Pace(NoEntry, n, x, clock, t)
        BY <1>3, <2>1, <3>2, PaceReset
      <4>2. QED
        BY <3>2, <4>1, EntryFields DEF Short
    <3>3. QED
      BY <2>2, <3>1, <3>2
  <2>11. CASE k # j
    <3>1. Pace(g, n, y, clock, t)
      BY <1>3, <2>1, <2>2, <2>4, <2>10, PaceEases
    <3>2. QED
      BY <1>1, <2>3, <2>8, <2>10, <2>11, <3>1 DEF h, y
  <2>12. CASE k = j /\ Full(failures, j, now)
    <3>1. g = NoEntry /\ h = g /\ g.lockedUntil = Never
      BY <2>3, <2>12, EntryFields
    <3>2. Pace(g, n, y, clock, t)
      BY <1>3, <2>1, <2>2, <2>10, <3>1, PaceUnlocked
    <3>3. QED
      BY <1>1, <2>8, <2>10, <2>12, <3>1, <3>2 DEF h, y
  <2>13. CASE k = j /\ ~Full(failures, j, now) /\ g.lockedUntil > now
    <3>1. h = g /\ g.lockedUntil # Never
      BY <1>3, <2>2, <2>3, <2>13, EntryFields
    <3>2. Pace(g, n + d, x - d, clock, t)
      BY <1>3, <2>1, <2>2, <2>5, <2>9, <2>10, <2>13, <3>1, PaceLocked
    <3>3. QED
      BY <1>1, <2>5, <2>8, <2>10, <2>13, <3>1, <3>2 DEF h, y
  <2>14. CASE k = j /\ ~Full(failures, j, now) /\ ~(g.lockedUntil > now)
    <3>1. h = Counted(Opened(g, now), now)
      BY <2>3, <2>14
    <3>2. Pace(h, n + d, y, clock, t) /\ Short(h)
      BY <1>3, <2>1, <2>2, <2>6, <2>7, <2>9, <2>10, <2>14, <3>1, PaceCounted
    <3>3. QED
      BY <1>1, <2>8, <2>14, <3>2 DEF h, y
  <2>15. QED
    BY <2>11, <2>12, <2>13, <2>14
<1>6. Time # {}
  BY ThrottleFields
<1>7. QED
  BY <1>5, <1>6, PaceIs, EntryIs

\* An entry that is dropped with everything counted for its key.
LEMMA PaceFresh ==
    ASSUME NEW g \in [Time -> Nat], \A u \in Time : g[u] = 0, NEW x, NEW c, NEW t \in Time
    PROVE  Short(NoEntry) /\ Pace(NoEntry, Within(g, t), x, c, t)
<1>1. Within(g, t) = 0
  BY NothingWithin DEF Span
<1>2. QED
  BY <1>1, LimitFacts, EntryFields DEF Short, Pace

\* A login that succeeds starts over for its key and no other.
LEMMA ClearPace ==
    ASSUME TypeOK, PointInv, EntryInv, PaceInv, NEW r \in Requests, ClearFailures(r)
    PROVE  EntryInv' /\ PaceInv'
<1> DEFINE j == KeyOf(r)
           zero == [u \in Time |-> 0]
<1>1. /\ clock' = clock /\ j \in Keys /\ \A q \in Requests : q # r => req'[q] = req[q]
      /\ req'[r].pc = "find"
  BY ThrottledSteps
<1>2. failures' = AfterClear(failures, j) /\ guesses' = [guesses EXCEPT ![j] = zero]
  BY DEF ClearFailures
<1> HIDE DEF j
<1>3. ASSUME NEW k \in Keys, NEW t \in Time
      PROVE  /\ Short(failures'.entries[k])
             /\ Pace(failures'.entries[k], Within(guesses'[k], t), Cardinality(Past(req', k, t)), clock', t)
  <2>1. failures'.entries[k] = (IF k = j THEN NoEntry ELSE failures.entries[k])
    BY <1>1, <1>2, ThrottleFields DEF AfterClear, Failures
  <2>2. guesses'[k] = (IF k = j THEN zero ELSE guesses[k])
    BY <1>1, <1>2 DEF TypeOK
  <2>3. CASE k = j
    <3>1. zero \in [Time -> Nat] /\ \A u \in Time : zero[u] = 0
      OBVIOUS
    <3>2. Short(NoEntry) /\ Pace(NoEntry, Within(zero, t), Cardinality(Past(req', k, t)), clock', t)
      BY <3>1, PaceFresh
    <3>3. QED
      BY <2>1, <2>2, <2>3, <3>2
  <2>4. CASE k # j
    <3>1. Past(req', k, t) \subseteq Past(req, k, t)
      BY <1>1 DEF Past
    <3>2. Cardinality(Past(req', k, t)) <= Cardinality(Past(req, k, t))
      BY <3>1, PastFinite, FS_Subset
    <3>3. Cardinality(Past(req, k, t)) \in Nat /\ Cardinality(Past(req', k, t)) \in Nat
      BY PastFinite
    <3>4. /\ Pace(failures.entries[k], Within(guesses[k], t), Cardinality(Past(req, k, t)), clock, t)
          /\ Short(failures.entries[k])
      BY PaceIs, EntryIs
    <3>5. /\ failures.entries[k] \in Entry /\ Within(guesses[k], t) \in Int /\ clock \in Nat /\ t \in Nat
          /\ clock <= clock
      BY ThrottleFields
    <3>6. Pace(failures.entries[k], Within(guesses[k], t), Cardinality(Past(req', k, t)), clock, t)
      BY <3>2, <3>3, <3>4, <3>5, PaceEases
    <3>7. QED
      BY <1>1, <2>1, <2>2, <2>4, <3>4, <3>6
  <2>5. QED
    BY <2>3, <2>4
<1>4. Time # {}
  BY ThrottleFields
<1>5. QED
  BY <1>3, <1>4, PaceIs, EntryIs

LEMMA ThrottleStep ==
    TypeOK /\ TypeOK' /\ PointInv /\ ThrottleInv /\ [Next]_vars => ThrottleInv'
<1> SUFFICES ASSUME TypeOK, TypeOK', PointInv, AgeInv, EntryInv, PaceInv, [Next]_vars
             PROVE  ThrottleInv'
  BY DEF ThrottleInv
<1>a. AgeInv'
  BY AgeStep
<1>1. ASSUME NEW r \in Requests, QuietStep(r) PROVE EntryInv' /\ PaceInv'
  <2>1. \A q \in Requests : q # r => req'[q] = req[q]
    BY <1>1, OthersUnchanged DEF QuietStep, RequestStep, Login
  <2>2. UNCHANGED <<clock, failures, guesses>> /\ Stays(r)
    BY <1>1, QuietSteps
  <2>3. \A q \in Requests : Stays(q)
    BY <2>1, <2>2 DEF Stays
  <2>4. clock <= clock'
    BY <2>2, ThrottleFields
  <2>5. QED
    BY <2>2, <2>3, <2>4, QuietPace
<1>2. ASSUME NEW r \in Requests, Blocked(r) \/ FailLogin(r) \/ ClearFailures(r) PROVE EntryInv' /\ PaceInv'
  BY <1>2, BlockedPace, FailPace, ClearPace
<1>3. ASSUME Crash PROVE EntryInv' /\ PaceInv'
  <2>1. /\ failures' = NewFailures /\ guesses' = [k \in Keys |-> [t \in Time |-> 0]]
    BY <1>3 DEF Crash
  <2>2. \A k \in Keys : failures'.entries[k] = NoEntry /\ guesses'[k] = [t \in Time |-> 0]
    BY <2>1 DEF NewFailures
  <2>3. ASSUME NEW k \in Keys, NEW t \in Time
        PROVE  /\ Short(failures'.entries[k])
               /\ Pace(failures'.entries[k], Within(guesses'[k], t), Cardinality(Past(req', k, t)), clock', t)
    <3>1. [u \in Time |-> 0] \in [Time -> Nat] /\ \A v \in Time : [u \in Time |-> 0][v] = 0
      OBVIOUS
    <3>2. QED
      BY <2>2, <3>1, PaceFresh
  <2>4. Time # {}
    BY ThrottleFields
  <2>5. QED
    BY <2>3, <2>4, PaceIs, EntryIs
<1>4. ASSUME Tick \/ Bootstrap \/ DeleteExpired \/ UNCHANGED vars PROVE EntryInv' /\ PaceInv'
  <2>1. UNCHANGED <<req, failures, guesses>> /\ clock' \in {clock, clock + 1}
    BY <1>4 DEF Tick, Bootstrap, DeleteExpired, vars, history
  <2>2. clock <= clock'
    BY <2>1, ThrottleFields
  <2>3. \A q \in Requests : Stays(q)
    BY <2>1 DEF Stays
  <2>4. QED
    BY <2>1, <2>2, <2>3, QuietPace
<1>5. EntryInv' /\ PaceInv'
  BY <1>1, <1>2, <1>3, <1>4 DEF Next, QuietStep, Login
<1>6. QED
  BY <1>a, <1>5 DEF ThrottleInv

LEMMA InitialThrottle == Init => ThrottleInv
<1> SUFFICES ASSUME Init PROVE ThrottleInv
  OBVIOUS
<1>1. AgeInv
  BY DEF Init, AgeInv, Idle
<1>2. TypeOK
  BY InitialInv DEF PInv
<1>3. \A k \in Keys : failures.entries[k] = NoEntry /\ guesses[k] = [t \in Time |-> 0]
  BY DEF Init, NewFailures
<1>4. ASSUME NEW k \in Keys, NEW t \in Time
      PROVE  /\ Short(failures.entries[k])
             /\ Pace(failures.entries[k], Within(guesses[k], t), Cardinality(Past(req, k, t)), clock, t)
  <2>1. [u \in Time |-> 0] \in [Time -> Nat] /\ \A v \in Time : [u \in Time |-> 0][v] = 0
    OBVIOUS
  <2>2. QED
    BY <1>3, <2>1, PaceFresh
<1>5. Time # {}
  BY <1>2, ThrottleFields
<1>6. EntryInv /\ PaceInv
  BY <1>4, <1>5, PaceIs, EntryIs
<1>7. QED
  BY <1>1, <1>6 DEF ThrottleInv

\* However many requests guess at an account at once, and whatever windows and
\* locks run out in between, at most GuessLimit of the attempts that begin
\* within a span of time are rejected with the table counting them
\* (loginFailures.blocked and fail).
THEOREM GuessesAreBounded == Spec => []GuessesBounded
<1>1. Init => ThrottleInv
  BY InitialThrottle
<1>2. PInv /\ PInv' /\ ThrottleInv /\ [Next]_vars => ThrottleInv'
  BY ThrottleStep DEF PInv
<1>3. ThrottleInv => GuessesBounded
  BY DEF ThrottleInv, PaceInv, GuessesBounded
<1>4. QED
  BY <1>1, <1>2, <1>3, PortalInvariant, PTL DEF Spec

=============================================================================
