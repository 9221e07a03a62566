--------------------------- MODULE FincloudSession ---------------------------
(***************************************************************************)
(* The central Fincloud system session of internal/fincloud: the session   *)
(* manager shared by every goroutine (session.go) and the retry of a call  *)
(* that the server rejected (client.go do), against a server that may end  *)
(* or refuse sessions and a network that may lose answers.                 *)
(***************************************************************************)
EXTENDS Naturals

CONSTANTS
    Callers,        \* goroutines inside Client.do
    FaultKinds,     \* what the server and the network may do wrong
    MaxFaults       \* bound on the number of faults of a behaviour

NoSession == 0
AllFaults == {"expire", "deny", "refuse", "timeout", "lost", "cancel", "reuse"}

ASSUME FaultsAssumption == FaultKinds \subseteq AllFaults /\ MaxFaults \in Nat

VARIABLES
    session, retired,     \* SessionManager.session and .retired
    loginEnd,             \* SessionManager.loginEnd # nil
    loginErr,             \* SessionManager.loginErr: "nil", "ctx" or "err"
    pc, attempt, have, old, canceled, outcome,  \* one call per caller
    closing, closingHave, \* Close, after everything else was stopped
    issued,               \* session identifiers the server handed out
    valid,                \* sessions that are logged in at the server
    ended,                \* sessions the server ended by itself
    faults                \* the number and the kinds of the faults so far

managerVars == <<session, retired, loginEnd, loginErr>>
serverVars  == <<issued, valid, ended>>
closeVars   == <<closing, closingHave>>
callVars    == <<pc, attempt, have, old, canceled, outcome>>
vars == <<managerVars, callVars, closeVars, serverVars, faults>>

Points   == {"idle", "acquire", "wait", "woken", "login", "granted", "logout", "send", "rejected"}
Leading(c) == pc[c] \in {"login", "granted"}

Fault(k) ==
    /\ k \in FaultKinds /\ faults.count < MaxFaults
    /\ faults' = [count |-> faults.count + 1, kinds |-> faults.kinds \cup {k}]
NoFault == UNCHANGED faults

\* None of these faults has happened so far.
Spared(kinds) == \A k \in kinds : k \notin faults.kinds

Goto(c, point) == pc' = [pc EXCEPT ![c] = point]

\* do returns to its caller.
Return(c, result) ==
    /\ Goto(c, "idle")
    /\ outcome' = [outcome EXCEPT ![c] = result]
    /\ attempt' = [attempt EXCEPT ![c] = 0]
    /\ have' = [have EXCEPT ![c] = NoSession]
    /\ old' = [old EXCEPT ![c] = NoSession]
    /\ canceled' = [canceled EXCEPT ![c] = FALSE]

(***************************************************************************)
(* Definitions named Bug_... are plausible mistakes in the definition that *)
(* follows them.  Nothing uses them: they show that the properties notice. *)
(***************************************************************************)
-----------------------------------------------------------------------------
\* A request, the scheduler or a SLIK worker calls do.
Begin(c) ==
    /\ pc[c] = "idle" /\ closing = "open"
    /\ Goto(c, "acquire")
    /\ outcome' = [outcome EXCEPT ![c] = "none"]
    /\ UNCHANGED <<managerVars, attempt, have, old, canceled, closeVars, serverVars, faults>>

\* The context of a call ends: its client is gone or its deadline passed.
CancelCall(c) ==
    /\ pc[c] # "idle" /\ ~canceled[c] /\ Fault("cancel")
    /\ canceled' = [canceled EXCEPT ![c] = TRUE]
    /\ UNCHANGED <<managerVars, pc, attempt, have, old, outcome, closeVars, serverVars>>

(***************************************************************************)
(* Session: use the session, or wait for the login in progress, or log in. *)
(***************************************************************************)
UseSession(c) ==
    /\ pc[c] = "acquire" /\ session # NoSession
    /\ have' = [have EXCEPT ![c] = session]
    /\ Goto(c, "send")
    /\ UNCHANGED <<managerVars, attempt, old, canceled, outcome, closeVars, serverVars, faults>>

WaitForLogin(c) ==
    /\ pc[c] = "acquire" /\ session = NoSession /\ loginEnd
    /\ Goto(c, "wait")
    /\ UNCHANGED <<managerVars, attempt, have, old, canceled, outcome, closeVars, serverVars, faults>>

\* A login in progress is not noticed.
Bug_Stampede(c) ==
    /\ pc[c] = "acquire" /\ session = NoSession
    /\ loginEnd' = TRUE /\ loginErr' = "nil"
    /\ Goto(c, "login")
    /\ UNCHANGED <<session, retired, attempt, have, old, canceled, outcome, closeVars,
                   serverVars, faults>>

Lead(c) ==
    /\ pc[c] = "acquire" /\ session = NoSession /\ ~loginEnd
    /\ loginEnd' = TRUE /\ loginErr' = "nil"
    /\ Goto(c, "login")
    /\ UNCHANGED <<session, retired, attempt, have, old, canceled, outcome, closeVars,
                   serverVars, faults>>

\* The waiter's context ends first; both may be ready, and select picks one.
WaitCanceled(c) ==
    /\ pc[c] \in {"wait", "woken"} /\ canceled[c]
    /\ Return(c, "failed")
    /\ UNCHANGED <<managerVars, closeVars, serverVars, faults>>

\* A woken waiter reads the error of the latest login, not of the one it
\* waited for; the end of another caller's context is no reason to give up.
Woken(c) ==
    /\ pc[c] = "woken"
    /\ \/ /\ loginErr = "nil" \/ (loginErr = "ctx" /\ ~canceled[c])
          /\ Goto(c, "acquire") /\ UNCHANGED <<attempt, have, old, canceled, outcome>>
       \/ /\ loginErr = "err" \/ (loginErr = "ctx" /\ canceled[c])
          /\ Return(c, "failed")
    /\ UNCHANGED <<managerVars, closeVars, serverVars, faults>>

-----------------------------------------------------------------------------
(***************************************************************************)
(* The login of the leader: the server's side and the critical section     *)
(* that publishes the result.                                              *)
(***************************************************************************)
\* The server grants a session: a fresh one, or one it handed out before.
ServerLogin(c) ==
    /\ pc[c] = "login" /\ ~canceled[c]
    /\ \/ NoFault /\ issued' = issued + 1 /\ have' = [have EXCEPT ![c] = issued + 1]
       \/ \E s \in 1..issued :
             Fault("reuse") /\ have' = [have EXCEPT ![c] = s] /\ UNCHANGED issued
    /\ valid' = valid \cup {have'[c]}
    /\ Goto(c, "granted")
    /\ UNCHANGED <<managerVars, attempt, old, canceled, outcome, closeVars, ended>>

Bug_NobodyWoken(c, point) == Goto(c, point)

\* close(done) wakes everybody who waits on this login.
WakeWaiters(c, point) ==
    pc' = [d \in Callers |-> IF d = c THEN point ELSE IF pc[d] = "wait" THEN "woken" ELSE pc[d]]

Bug_NeverRetire(c) == NoSession

\* The session that the leader has to log out, if any.
ToRetire(c) == IF retired # have[c] THEN retired ELSE NoSession

LoginSucceeds(c) ==
    /\ pc[c] = "granted"
    /\ session' = have[c] /\ retired' = NoSession
    /\ loginErr' = "nil" /\ loginEnd' = FALSE
    /\ old' = [old EXCEPT ![c] = ToRetire(c)]
    /\ WakeWaiters(c, IF ToRetire(c) # NoSession THEN "logout" ELSE "send")
    /\ UNCHANGED <<attempt, have, canceled, outcome, closeVars, serverVars, faults>>

\* The login ends with the leader's context or a timeout ("ctx"), possibly
\* after the server granted a session, or it is refused or unreachable ("err").
LoginFails(c) ==
    /\ Leading(c)
    /\ \/ canceled[c] /\ NoFault /\ loginErr' = "ctx"
       \/ pc[c] = "login" /\ Fault("timeout") /\ loginErr' = "ctx"
       \/ pc[c] = "granted" /\ Fault("lost") /\ loginErr' \in {"ctx", "err"}
       \/ pc[c] = "login" /\ Fault("refuse") /\ loginErr' = "err"
    /\ loginEnd' = FALSE
    /\ WakeWaiters(c, "idle")
    /\ outcome' = [outcome EXCEPT ![c] = "failed"]
    /\ attempt' = [attempt EXCEPT ![c] = 0]
    /\ have' = [have EXCEPT ![c] = NoSession]
    /\ canceled' = [canceled EXCEPT ![c] = FALSE]
    /\ UNCHANGED <<session, retired, old, closeVars, serverVars>>

\* _ = manager.logout(cleanupContext, retired)
LogoutRetired(c) ==
    /\ pc[c] = "logout"
    /\ \/ ~canceled[c] /\ NoFault /\ valid' = valid \ {old[c]}
       \/ ((canceled[c] /\ NoFault) \/ Fault("lost")) /\ UNCHANGED valid
    /\ old' = [old EXCEPT ![c] = NoSession]
    /\ Goto(c, "send")
    /\ UNCHANGED <<managerVars, attempt, have, canceled, outcome, closeVars, issued, ended>>

-----------------------------------------------------------------------------
(***************************************************************************)
(* do: send the request, and once more when the session was rejected.      *)
(***************************************************************************)
Answered(c) ==
    /\ pc[c] = "send"
    /\ \/ /\ ~canceled[c] /\ have[c] \in valid /\ NoFault
          /\ Return(c, "ok")
       \* 401, 403 or an authentication message; 403 also for a live session
       \/ /\ ~canceled[c] /\ ((have[c] \notin valid /\ NoFault) \/ Fault("deny"))
          /\ Goto(c, "rejected") /\ UNCHANGED <<attempt, have, old, canceled, outcome>>
       \/ /\ (canceled[c] /\ NoFault) \/ Fault("timeout")
          /\ Return(c, "failed")
    /\ UNCHANGED <<managerVars, closeVars, serverVars>>

\* The rejected session is not compared with the current one.
Bug_InvalidateCurrent(c) ==
    IF session # NoSession
      THEN retired' = session /\ session' = NoSession
      ELSE UNCHANGED <<session, retired>>

Invalidate(c) ==
    IF session = have[c]
      THEN retired' = session /\ session' = NoSession
      ELSE UNCHANGED <<session, retired>>

Bug_NoRetry(c) ==
    /\ pc[c] = "rejected"
    /\ Invalidate(c)
    /\ Return(c, "session")
    /\ UNCHANGED <<loginEnd, loginErr, closeVars, serverVars, faults>>

Rejected(c) ==
    /\ pc[c] = "rejected"
    /\ Invalidate(c)
    /\ \/ /\ attempt[c] = 0
          /\ attempt' = [attempt EXCEPT ![c] = 1]
          /\ have' = [have EXCEPT ![c] = NoSession]
          /\ Goto(c, "acquire")
          /\ UNCHANGED <<old, canceled, outcome>>
       \/ attempt[c] = 1 /\ Return(c, "session")
    /\ UNCHANGED <<loginEnd, loginErr, closeVars, serverVars, faults>>

-----------------------------------------------------------------------------
\* The server ends a session by itself.
Expire(s) ==
    /\ Fault("expire")
    /\ valid' = valid \ {s} /\ ended' = ended \cup {s}
    /\ UNCHANGED <<managerVars, callVars, closeVars, issued>>

(***************************************************************************)
(* Close, the last deferred step of the application: nobody calls do.      *)
(***************************************************************************)
Bug_CloseKeeps ==
    /\ closing = "open" /\ \A c \in Callers : pc[c] = "idle"
    /\ closing' = "closed"
    /\ UNCHANGED <<managerVars, callVars, closingHave, serverVars, faults>>

Close ==
    /\ closing = "open" /\ \A c \in Callers : pc[c] = "idle"
    /\ closingHave' = session /\ session' = NoSession
    /\ closing' = IF session = NoSession THEN "closed" ELSE "logout"
    /\ UNCHANGED <<retired, loginEnd, loginErr, callVars, serverVars, faults>>

CloseLogout ==
    /\ closing = "logout" /\ closing' = "closed"
    /\ \/ NoFault /\ valid' = valid \ {closingHave}
       \/ Fault("lost") /\ UNCHANGED valid
    /\ UNCHANGED <<managerVars, callVars, closingHave, issued, ended>>

Stopped == closing = "closed" /\ UNCHANGED vars

-----------------------------------------------------------------------------
Init ==
    /\ session = NoSession /\ retired = NoSession
    /\ loginEnd = FALSE /\ loginErr = "nil"
    /\ pc = [c \in Callers |-> "idle"]
    /\ attempt = [c \in Callers |-> 0]
    /\ have = [c \in Callers |-> NoSession]
    /\ old = [c \in Callers |-> NoSession]
    /\ canceled = [c \in Callers |-> FALSE]
    /\ outcome = [c \in Callers |-> "none"]
    /\ closing = "open" /\ closingHave = NoSession
    /\ issued = 0 /\ valid = {} /\ ended = {}
    /\ faults = [count |-> 0, kinds |-> {}]

\* The steps of the goroutine that executes do and Session.
CallStep(c) ==
    \/ UseSession(c) \/ WaitForLogin(c) \/ Lead(c) \/ WaitCanceled(c) \/ Woken(c)
    \/ ServerLogin(c) \/ LoginSucceeds(c) \/ LoginFails(c) \/ LogoutRetired(c)
    \/ Answered(c) \/ Rejected(c)

Next ==
    \/ \E c \in Callers : Begin(c) \/ CancelCall(c) \/ CallStep(c)
    \/ \E s \in valid : Expire(s)
    \/ Close \/ CloseLogout \/ Stopped

Spec == Init /\ [][Next]_vars

\* Every HTTP request carries a timeout, so every step of a call is taken.
FairSpec == Spec /\ \A c \in Callers : WF_vars(CallStep(c))

-----------------------------------------------------------------------------
(***************************************************************************)
(* Properties                                                              *)
(***************************************************************************)
\* Type correctness of the session manager and of the calls
\* (session.go SessionManager, client.go do).
TypeOK ==
    /\ session \in Nat /\ retired \in Nat
    /\ loginEnd \in BOOLEAN /\ loginErr \in {"nil", "ctx", "err"}
    /\ pc \in [Callers -> Points]
    /\ attempt \in [Callers -> {0, 1}]
    /\ have \in [Callers -> Nat] /\ old \in [Callers -> Nat]
    /\ canceled \in [Callers -> BOOLEAN]
    /\ outcome \in [Callers -> {"none", "ok", "failed", "session"}]
    /\ closing \in {"open", "logout", "closed"} /\ closingHave \in Nat
    /\ issued \in Nat /\ valid \subseteq 1..issued /\ ended \subseteq 1..issued
    /\ faults \in [count : 0..MaxFaults, kinds : SUBSET FaultKinds]

\* At most one login is in progress however many callers find no session,
\* also after canceled and failed logins (session.go Session, loginEnd).
SingleFlight == \A c, d \in Callers : Leading(c) /\ Leading(d) => c = d

\* A late rejection of an old session never drops a newer one: while the
\* server denies nobody a live session and hands no identifier out twice,
\* only a session that is dead at the server leaves the manager, except at
\* shutdown (session.go Invalidate).
OnlyDeadDropped ==
    [][Spared({"deny", "reuse"}) =>
         (session # NoSession /\ session' # session => session \notin valid \/ closing' # "open")]_vars

\* Every session alive at the server is the current one, the retired one, or
\* in the hands of the caller that logs in, logs out, or closes: none is
\* forgotten while no answer is lost (session.go Session, the retired field).
NoSessionForgotten ==
    Spared({"lost", "cancel"}) =>
       \A s \in valid :
          \/ s \in {session, retired}
          \/ \E c \in Callers : (pc[c] = "granted" /\ have[c] = s) \/ (pc[c] = "logout" /\ old[c] = s)
          \/ closing = "logout" /\ closingHave = s

\* One retry is enough: a call reports ErrFincloudSession only when the server
\* ended two different sessions, whatever else failed and whatever the other
\* callers do in between, provided that the server denies nobody a live
\* session and hands no identifier out twice (client.go do).
RetrySuffices ==
    Spared({"deny", "reuse"}) =>
       \A c \in Callers : outcome[c] = "session" => \E s, t \in ended : s # t

\* After Close no session is left alive at the server (session.go Close).
ClosedMeansLoggedOut == closing = "closed" => valid = {}

\* After Close no session is left alive at the server, unless a live session
\* was denied or handed out twice, or an answer or a caller got lost
\* (session.go Close).
CloseLogsEverythingOut == Spared({"deny", "reuse", "lost", "cancel"}) => ClosedMeansLoggedOut

\* Every call ends: no waiter misses the end of the login it waits for, and
\* no failed login leaves the others waiting (session.go Session).
EveryCallEnds == \A c \in Callers : pc[c] # "idle" ~> pc[c] = "idle"

-----------------------------------------------------------------------------
(***************************************************************************)
(* The inductive invariant behind the safety properties.                   *)
(***************************************************************************)
Uses(c) == pc[c] \in {"granted", "logout", "send", "rejected"}

\* A login in progress is marked, alone, and there is no session meanwhile.
FlightInv ==
    \A c \in Callers : Leading(c) =>
       loginEnd /\ session = NoSession /\ \A d \in Callers : Leading(d) => d = c

\* The retired field is free whenever a session could be retired; identifiers
\* in use were handed out; Close finds nobody.
IdInv ==
    /\ session = NoSession \/ retired = NoSession
    /\ session <= issued /\ retired <= issued
    /\ \A c \in Callers : Uses(c) => have[c] \in 1..issued
    /\ \A c \in Callers : pc[c] = "logout" => old[c] \in 1..issued
    /\ closing # "open" => session = NoSession /\ \A c \in Callers : pc[c] = "idle"

\* While nobody gives up and no answer is lost every live session is known.
ForgottenInv ==
    /\ Spared({"cancel"}) => \A c \in Callers : ~canceled[c]
    /\ NoSessionForgotten

\* While no live session is denied and no identifier handed out twice, what a
\* caller was rejected for, what is retired and what is logged out is dead,
\* and a session being granted is younger than every session in use.
DeadInv ==
    Spared({"deny", "reuse"}) =>
       /\ retired \notin valid
       /\ \A c \in Callers :
             /\ pc[c] = "rejected" => have[c] \notin valid
             /\ pc[c] = "logout" => old[c] \notin valid
             /\ pc[c] = "granted" => \A d \in Callers : d # c /\ Uses(d) => have[d] # have[c]

\* ... so every dead session is one the server ended, and a caller in its
\* second attempt has left one behind.
LeftBehind(c, s) ==
    /\ s \in 1..issued /\ s \notin valid /\ session # s
    /\ Uses(c) => have[c] # s
    /\ \A d \in Callers : pc[d] = "granted" => have[d] # s

DeadEnded ==
    Spared({"deny", "reuse"}) /\ closing = "open" => (1..issued) \ valid \subseteq ended

SecondAttempt ==
    Spared({"deny", "reuse"}) =>
       \A c \in Callers : attempt[c] = 1 => \E s \in 1..issued : LeftBehind(c, s)

RetryInv == DeadEnded /\ SecondAttempt /\ RetrySuffices

FInv == TypeOK /\ FlightInv /\ IdInv /\ ForgottenInv /\ DeadInv /\ RetryInv
=============================================================================
