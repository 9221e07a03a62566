--------------------------- MODULE FincloudProofs ---------------------------
(***************************************************************************)
(* Proofs about FincloudSession, for every number of callers and faults.   *)
(***************************************************************************)
EXTENDS FincloudSession, TLAPS

\* What a call leaves behind when do returns (client.go do).
LEMMA ReturnTypes ==
    ASSUME TypeOK, NEW c \in Callers, NEW r \in {"ok", "failed", "session"}, Return(c, r)
    PROVE  /\ pc' \in [Callers -> Points] /\ attempt' \in [Callers -> {0, 1}]
           /\ have' \in [Callers -> Nat] /\ old' \in [Callers -> Nat]
           /\ canceled' \in [Callers -> BOOLEAN]
           /\ outcome' \in [Callers -> {"none", "ok", "failed", "session"}]
<1>1. canceled' \in [Callers -> BOOLEAN]
  BY DEF TypeOK, Return
<1>2. QED
  BY <1>1 DEF TypeOK, Return, Goto, Points, NoSession

\* Every step of session.go and of client.go do preserves the types.
LEMMA TypeStep == TypeOK /\ IdInv /\ [Next]_vars => TypeOK'
<1> SUFFICES ASSUME TypeOK, IdInv, [Next]_vars PROVE TypeOK'
  OBVIOUS
<1> USE FaultsAssumption DEF TypeOK, managerVars, callVars, closeVars, serverVars, Goto, Fault, NoFault,
        NoSession, Points
<1>1. ASSUME NEW c \in Callers, Begin(c) PROVE TypeOK'
  BY <1>1 DEF Begin
<1>2. ASSUME NEW c \in Callers, CancelCall(c) PROVE TypeOK'
  BY <1>2 DEF CancelCall
<1>3. ASSUME NEW c \in Callers, UseSession(c) PROVE TypeOK'
  BY <1>3 DEF UseSession
<1>4. ASSUME NEW c \in Callers, WaitForLogin(c) PROVE TypeOK'
  BY <1>4 DEF WaitForLogin
<1>5. ASSUME NEW c \in Callers, Lead(c) PROVE TypeOK'
  BY <1>5 DEF Lead
<1>6. ASSUME NEW c \in Callers, WaitCanceled(c) PROVE TypeOK'
  <2>1. pc' \in [Callers -> Points] /\ attempt' \in [Callers -> {0, 1}]
        /\ have' \in [Callers -> Nat] /\ old' \in [Callers -> Nat]
        /\ canceled' \in [Callers -> BOOLEAN]
        /\ outcome' \in [Callers -> {"none", "ok", "failed", "session"}]
    BY <1>6, ReturnTypes DEF WaitCanceled
  <2>2. faults' \in [count : 0..MaxFaults, kinds : SUBSET FaultKinds]
    BY <1>6 DEF WaitCanceled
  <2>3. issued' \in Nat /\ valid' \subseteq 1..issued' /\ ended' \subseteq 1..issued'
    BY <1>6 DEF WaitCanceled
  <2>4. QED
    BY <1>6, <2>1, <2>2, <2>3 DEF WaitCanceled
<1>7. ASSUME NEW c \in Callers, Woken(c) PROVE TypeOK'
  <2>1. pc' \in [Callers -> Points] /\ attempt' \in [Callers -> {0, 1}]
        /\ have' \in [Callers -> Nat] /\ old' \in [Callers -> Nat]
        /\ canceled' \in [Callers -> BOOLEAN]
        /\ outcome' \in [Callers -> {"none", "ok", "failed", "session"}]
    BY <1>7, ReturnTypes DEF Woken
  <2>2. faults' \in [count : 0..MaxFaults, kinds : SUBSET FaultKinds]
    BY <1>7 DEF Woken
  <2>3. issued' \in Nat /\ valid' \subseteq 1..issued' /\ ended' \subseteq 1..issued'
    BY <1>7 DEF Woken
  <2>4. QED
    BY <1>7, <2>1, <2>2, <2>3 DEF Woken
<1>8. ASSUME NEW c \in Callers, ServerLogin(c) PROVE TypeOK'
  <2>1. /\ issued' \in Nat /\ have' \in [Callers -> Nat] /\ have'[c] \in 1..issued'
        /\ 1..issued \subseteq 1..issued'
    BY <1>8 DEF ServerLogin
  <2>2. valid' = valid \cup {have'[c]}
    BY <1>8 DEF ServerLogin
  <2>3. valid' \subseteq 1..issued' /\ ended' \subseteq 1..issued'
    BY <1>8, <2>1, <2>2 DEF ServerLogin
  <2>4. QED
    BY <1>8, <2>1, <2>3 DEF ServerLogin
<1>9. ASSUME NEW c \in Callers, LoginSucceeds(c) PROVE TypeOK'
  BY <1>9 DEF LoginSucceeds, WakeWaiters, ToRetire
<1>10. ASSUME NEW c \in Callers, LoginFails(c) PROVE TypeOK'
  <2>1. pc' \in [Callers -> Points] /\ attempt' \in [Callers -> {0, 1}]
        /\ have' \in [Callers -> Nat] /\ old' \in [Callers -> Nat]
        /\ canceled' \in [Callers -> BOOLEAN]
        /\ outcome' \in [Callers -> {"none", "ok", "failed", "session"}]
    BY <1>10 DEF LoginFails, WakeWaiters, Leading
  <2>2. faults' \in [count : 0..MaxFaults, kinds : SUBSET FaultKinds]
    BY <1>10 DEF LoginFails, WakeWaiters, Leading
  <2>3. issued' \in Nat /\ valid' \subseteq 1..issued' /\ ended' \subseteq 1..issued'
    BY <1>10 DEF LoginFails, WakeWaiters, Leading
  <2>4. QED
    BY <1>10, <2>1, <2>2, <2>3 DEF LoginFails, WakeWaiters, Leading
<1>11. ASSUME NEW c \in Callers, LogoutRetired(c) PROVE TypeOK'
  <2>1. pc' \in [Callers -> Points] /\ attempt' \in [Callers -> {0, 1}]
        /\ have' \in [Callers -> Nat] /\ old' \in [Callers -> Nat]
        /\ canceled' \in [Callers -> BOOLEAN]
        /\ outcome' \in [Callers -> {"none", "ok", "failed", "session"}]
    BY <1>11 DEF LogoutRetired
  <2>2. faults' \in [count : 0..MaxFaults, kinds : SUBSET FaultKinds]
    BY <1>11 DEF LogoutRetired
  <2>3. issued' \in Nat /\ valid' \subseteq 1..issued' /\ ended' \subseteq 1..issued'
    BY <1>11 DEF LogoutRetired
  <2>4. QED
    BY <1>11, <2>1, <2>2, <2>3 DEF LogoutRetired
<1>12. ASSUME NEW c \in Callers, Answered(c) PROVE TypeOK'
  <2>1. pc' \in [Callers -> Points] /\ attempt' \in [Callers -> {0, 1}]
        /\ have' \in [Callers -> Nat] /\ old' \in [Callers -> Nat]
        /\ canceled' \in [Callers -> BOOLEAN]
        /\ outcome' \in [Callers -> {"none", "ok", "failed", "session"}]
    BY <1>12, ReturnTypes DEF Answered
  <2>2. faults' \in [count : 0..MaxFaults, kinds : SUBSET FaultKinds]
    BY <1>12 DEF Answered
  <2>3. issued' \in Nat /\ valid' \subseteq 1..issued' /\ ended' \subseteq 1..issued'
    BY <1>12 DEF Answered
  <2>4. QED
    BY <1>12, <2>1, <2>2, <2>3 DEF Answered
<1>13. ASSUME NEW c \in Callers, Rejected(c) PROVE TypeOK'
  <2>1. pc' \in [Callers -> Points] /\ attempt' \in [Callers -> {0, 1}]
        /\ have' \in [Callers -> Nat] /\ old' \in [Callers -> Nat]
        /\ canceled' \in [Callers -> BOOLEAN]
        /\ outcome' \in [Callers -> {"none", "ok", "failed", "session"}]
    BY <1>13, ReturnTypes DEF Rejected, Invalidate
  <2>2. faults' \in [count : 0..MaxFaults, kinds : SUBSET FaultKinds]
    BY <1>13 DEF Rejected, Invalidate
  <2>3. issued' \in Nat /\ valid' \subseteq 1..issued' /\ ended' \subseteq 1..issued'
    BY <1>13 DEF Rejected, Invalidate
  <2>4. QED
    BY <1>13, <2>1, <2>2, <2>3 DEF Rejected, Invalidate
<1>14. ASSUME NEW s \in valid, Expire(s) PROVE TypeOK'
  BY <1>14 DEF Expire
<1>15. CASE Close
  BY <1>15 DEF Close
<1>16. CASE CloseLogout
  <2>1. pc' \in [Callers -> Points] /\ attempt' \in [Callers -> {0, 1}]
        /\ have' \in [Callers -> Nat] /\ old' \in [Callers -> Nat]
        /\ canceled' \in [Callers -> BOOLEAN]
        /\ outcome' \in [Callers -> {"none", "ok", "failed", "session"}]
    BY <1>16 DEF CloseLogout
  <2>2. faults' \in [count : 0..MaxFaults, kinds : SUBSET FaultKinds]
    BY <1>16 DEF CloseLogout
  <2>3. issued' \in Nat /\ valid' \subseteq 1..issued' /\ ended' \subseteq 1..issued'
    BY <1>16 DEF CloseLogout
  <2>4. QED
    BY <1>16, <2>1, <2>2, <2>3 DEF CloseLogout
<1>17. CASE Stopped \/ UNCHANGED vars
  BY <1>17 DEF Stopped, vars
<1>18. QED
  BY <1>1, <1>2, <1>3, <1>4, <1>5, <1>6, <1>7, <1>8, <1>9, <1>10, <1>11, <1>12, <1>13, <1>14, <1>15, <1>16, <1>17
  DEF Next, CallStep

\* A login in progress stays marked and alone (session.go Session).
LEMMA FlightStep == TypeOK /\ FlightInv /\ IdInv /\ [Next]_vars => FlightInv'
<1> SUFFICES ASSUME TypeOK, FlightInv, IdInv, [Next]_vars PROVE FlightInv'
  OBVIOUS
<1>a. /\ pc \in [Callers -> Points] /\ have \in [Callers -> Nat] /\ old \in [Callers -> Nat]
      /\ session \in Nat /\ retired \in Nat /\ issued \in Nat
  BY DEF TypeOK
<1> USE DEF managerVars, callVars, closeVars, serverVars, Goto, NoSession, FlightInv, Leading
<1>1. ASSUME NEW c \in Callers, Begin(c) PROVE FlightInv'
  BY <1>1, <1>a DEF Begin
<1>2. ASSUME NEW c \in Callers, CancelCall(c) PROVE FlightInv'
  BY <1>2, <1>a DEF CancelCall
<1>3. ASSUME NEW c \in Callers, UseSession(c) PROVE FlightInv'
  BY <1>3, <1>a DEF UseSession
<1>4. ASSUME NEW c \in Callers, WaitForLogin(c) PROVE FlightInv'
  BY <1>4, <1>a DEF WaitForLogin
<1>5. ASSUME NEW c \in Callers, Lead(c) PROVE FlightInv'
  BY <1>5, <1>a DEF Lead
<1>6. ASSUME NEW c \in Callers, WaitCanceled(c) PROVE FlightInv'
  BY <1>6, <1>a DEF WaitCanceled, Return
<1>7. ASSUME NEW c \in Callers, Woken(c) PROVE FlightInv'
  BY <1>7, <1>a DEF Woken, Return
<1>8. ASSUME NEW c \in Callers, ServerLogin(c) PROVE FlightInv'
  BY <1>8, <1>a DEF ServerLogin
<1>9. ASSUME NEW c \in Callers, LoginSucceeds(c) PROVE FlightInv'
  BY <1>9, <1>a DEF LoginSucceeds, WakeWaiters, ToRetire
<1>10. ASSUME NEW c \in Callers, LoginFails(c) PROVE FlightInv'
  BY <1>10, <1>a DEF LoginFails, WakeWaiters, Leading
<1>11. ASSUME NEW c \in Callers, LogoutRetired(c) PROVE FlightInv'
  BY <1>11, <1>a DEF LogoutRetired
<1>12. ASSUME NEW c \in Callers, Answered(c) PROVE FlightInv'
  BY <1>12, <1>a DEF Answered, Return
<1>13. ASSUME NEW c \in Callers, Rejected(c) PROVE FlightInv'
  BY <1>13, <1>a DEF Rejected, Return, Invalidate
<1>14. ASSUME NEW s \in valid, Expire(s) PROVE FlightInv'
  BY <1>14, <1>a DEF Expire
<1>15. CASE Close
  BY <1>15, <1>a DEF Close
<1>16. CASE CloseLogout
  BY <1>16, <1>a DEF CloseLogout
<1>17. CASE Stopped \/ UNCHANGED vars
  BY <1>17, <1>a DEF Stopped, vars
<1>18. QED
  BY <1>1, <1>2, <1>3, <1>4, <1>5, <1>6, <1>7, <1>8, <1>9, <1>10, <1>11, <1>12, <1>13, <1>14, <1>15, <1>16, <1>17
  DEF Next, CallStep

\* Identifiers in use were handed out and at most one of session and retired is
\* set (session.go Session, Invalidate).
LEMMA IdStep == TypeOK /\ FlightInv /\ IdInv /\ [Next]_vars => IdInv'
<1> SUFFICES ASSUME TypeOK, FlightInv, IdInv, [Next]_vars PROVE IdInv'
  OBVIOUS
<1>a. /\ pc \in [Callers -> Points] /\ have \in [Callers -> Nat] /\ old \in [Callers -> Nat]
      /\ session \in Nat /\ retired \in Nat /\ issued \in Nat
  BY DEF TypeOK
<1> USE DEF managerVars, callVars, closeVars, serverVars, Goto, NoSession, IdInv, Uses
<1>1. ASSUME NEW c \in Callers, Begin(c) PROVE IdInv'
  BY <1>1, <1>a DEF Begin, FlightInv, Leading
<1>2. ASSUME NEW c \in Callers, CancelCall(c) PROVE IdInv'
  BY <1>2, <1>a DEF CancelCall, FlightInv, Leading
<1>3. ASSUME NEW c \in Callers, UseSession(c) PROVE IdInv'
  BY <1>3, <1>a DEF UseSession, FlightInv, Leading
<1>4. ASSUME NEW c \in Callers, WaitForLogin(c) PROVE IdInv'
  BY <1>4, <1>a DEF WaitForLogin, FlightInv, Leading
<1>5. ASSUME NEW c \in Callers, Lead(c) PROVE IdInv'
  BY <1>5, <1>a DEF Lead, FlightInv, Leading
<1>6. ASSUME NEW c \in Callers, WaitCanceled(c) PROVE IdInv'
  BY <1>6, <1>a DEF WaitCanceled, Return, FlightInv, Leading
<1>7. ASSUME NEW c \in Callers, Woken(c) PROVE IdInv'
  BY <1>7, <1>a DEF Woken, Return, FlightInv, Leading
<1>8. ASSUME NEW c \in Callers, ServerLogin(c) PROVE IdInv'
  BY <1>8, <1>a DEF ServerLogin, FlightInv, Leading
<1>9. ASSUME NEW c \in Callers, LoginSucceeds(c) PROVE IdInv'
  BY <1>9, <1>a DEF LoginSucceeds, WakeWaiters, ToRetire, FlightInv, Leading
<1>10. ASSUME NEW c \in Callers, LoginFails(c) PROVE IdInv'
  BY <1>10, <1>a DEF LoginFails, WakeWaiters, Leading, FlightInv
<1>11. ASSUME NEW c \in Callers, LogoutRetired(c) PROVE IdInv'
  BY <1>11, <1>a DEF LogoutRetired, FlightInv, Leading
<1>12. ASSUME NEW c \in Callers, Answered(c) PROVE IdInv'
  BY <1>12, <1>a DEF Answered, Return, FlightInv, Leading
<1>13. ASSUME NEW c \in Callers, Rejected(c) PROVE IdInv'
  BY <1>13, <1>a DEF Rejected, Return, Invalidate, FlightInv, Leading
<1>14. ASSUME NEW s \in valid, Expire(s) PROVE IdInv'
  BY <1>14, <1>a DEF Expire, FlightInv, Leading
<1>15. CASE Close
  BY <1>15, <1>a DEF Close, FlightInv, Leading
<1>16. CASE CloseLogout
  BY <1>16, <1>a DEF CloseLogout, FlightInv, Leading
<1>17. CASE Stopped \/ UNCHANGED vars
  BY <1>17, <1>a DEF Stopped, vars, FlightInv, Leading
<1>18. QED
  BY <1>1, <1>2, <1>3, <1>4, <1>5, <1>6, <1>7, <1>8, <1>9, <1>10, <1>11, <1>12, <1>13, <1>14, <1>15, <1>16, <1>17
  DEF Next, CallStep

\* While nobody gives up no context is canceled, and while moreover no answer is
\* lost no live session is forgotten (session.go, the retired field).
LEMMA ForgottenStep == TypeOK /\ FlightInv /\ IdInv /\ ForgottenInv /\ [Next]_vars => ForgottenInv'
<1> SUFFICES ASSUME TypeOK, FlightInv, IdInv, ForgottenInv, [Next]_vars PROVE ForgottenInv'
  OBVIOUS
<1>a. /\ pc \in [Callers -> Points] /\ have \in [Callers -> Nat] /\ old \in [Callers -> Nat]
      /\ session \in Nat /\ retired \in Nat /\ issued \in Nat /\ valid \subseteq 1..issued
      /\ canceled \in [Callers -> BOOLEAN] /\ attempt \in [Callers -> {0, 1}]
      /\ faults.count \in Nat /\ outcome \in [Callers -> {"none", "ok", "failed", "session"}]
  BY FaultsAssumption DEF TypeOK
<1> USE DEF managerVars, callVars, closeVars, serverVars, Goto, NoSession, Fault, NoFault, Spared, ForgottenInv, NoSessionForgotten
<1>1. ASSUME NEW c \in Callers, Begin(c) PROVE ForgottenInv'
  BY <1>1, <1>a DEF Begin, FlightInv, Leading, IdInv
<1>2. ASSUME NEW c \in Callers, CancelCall(c) PROVE ForgottenInv'
  BY <1>2, <1>a DEF CancelCall, FlightInv, Leading, IdInv
<1>3. ASSUME NEW c \in Callers, UseSession(c) PROVE ForgottenInv'
  BY <1>3, <1>a DEF UseSession, FlightInv, Leading, IdInv
<1>4. ASSUME NEW c \in Callers, WaitForLogin(c) PROVE ForgottenInv'
  BY <1>4, <1>a DEF WaitForLogin, FlightInv, Leading, IdInv
<1>5. ASSUME NEW c \in Callers, Lead(c) PROVE ForgottenInv'
  BY <1>5, <1>a DEF Lead, FlightInv, Leading, IdInv
<1>6. ASSUME NEW c \in Callers, WaitCanceled(c) PROVE ForgottenInv'
  BY <1>6, <1>a DEF WaitCanceled, Return, FlightInv, Leading, IdInv
<1>7. ASSUME NEW c \in Callers, Woken(c) PROVE ForgottenInv'
  BY <1>7, <1>a DEF Woken, Return, FlightInv, Leading, IdInv
<1>8. ASSUME NEW c \in Callers, ServerLogin(c) PROVE ForgottenInv'
  BY <1>8, <1>a DEF ServerLogin, FlightInv, Leading, IdInv
<1>9. ASSUME NEW c \in Callers, LoginSucceeds(c) PROVE ForgottenInv'
  BY <1>9, <1>a DEF LoginSucceeds, WakeWaiters, ToRetire, FlightInv, Leading, IdInv
<1>10. ASSUME NEW c \in Callers, LoginFails(c) PROVE ForgottenInv'
  BY <1>10, <1>a DEF LoginFails, WakeWaiters, Leading, FlightInv, IdInv
<1>11. ASSUME NEW c \in Callers, LogoutRetired(c) PROVE ForgottenInv'
  <2>1. /\ UNCHANGED <<session, retired, have, canceled, closing, closingHave>>
        /\ \A d \in Callers : d # c => pc'[d] = pc[d] /\ old'[d] = old[d]
    BY <1>11, <1>a DEF LogoutRetired
  <2>2. faults.kinds \subseteq faults'.kinds /\ valid' \subseteq valid
    BY <1>11 DEF LogoutRetired
  <2>3. CASE "lost" \in faults'.kinds
    BY <2>1, <2>2, <2>3
  <2>4. CASE "lost" \notin faults'.kinds
    <3>1. faults' = faults /\ (~canceled[c] => valid' = valid \ {old[c]})
      BY <1>11, <2>4 DEF LogoutRetired
    <3>2. pc[c] = "logout"
      BY <1>11 DEF LogoutRetired
    <3>3. QED
      BY <1>a, <2>1, <2>2, <3>1, <3>2
  <2>5. QED
    BY <2>3, <2>4
<1>12. ASSUME NEW c \in Callers, Answered(c) PROVE ForgottenInv'
  BY <1>12, <1>a DEF Answered, Return, FlightInv, Leading, IdInv
<1>13. ASSUME NEW c \in Callers, Rejected(c) PROVE ForgottenInv'
  <2>1. UNCHANGED <<valid, closing, closingHave>> /\ canceled' \in [Callers -> BOOLEAN]
    BY <1>13, <1>a DEF Rejected, Return
  <2>2. \A d \in Callers : canceled'[d] => canceled[d]
    BY <1>13, <1>a DEF Rejected, Return
  <2>3. \A d \in Callers : pc[d] \in {"granted", "logout"} =>
           pc'[d] = pc[d] /\ have'[d] = have[d] /\ old'[d] = old[d]
    BY <1>13, <1>a DEF Rejected, Return
  <2>4. CASE session = have[c]
    <3>1. retired = 0 \/ session = 0
      BY DEF IdInv
    <3>2. session # 0 /\ retired' = session
      BY <1>13, <2>4, <1>a DEF Rejected, Invalidate, IdInv, Uses
    <3>3. \A s \in valid : s \in {session, retired} => s \in {session', retired'}
      BY <3>1, <3>2, <1>a
    <3>4. faults' = faults
      BY <1>13 DEF Rejected
    <3>5. QED
      BY <1>a, <2>1, <2>2, <2>3, <3>3, <3>4
  <2>5. CASE session # have[c]
    BY <1>13, <1>a, <2>1, <2>2, <2>3, <2>5 DEF Rejected, Invalidate
  <2>6. QED
    BY <2>4, <2>5
<1>14. ASSUME NEW s \in valid, Expire(s) PROVE ForgottenInv'
  BY <1>14, <1>a DEF Expire, FlightInv, Leading, IdInv
<1>15. CASE Close
  BY <1>15, <1>a DEF Close, FlightInv, Leading, IdInv
<1>16. CASE CloseLogout
  <2>1. UNCHANGED <<session, retired, have, old, pc, canceled, closingHave>>
    BY <1>16 DEF CloseLogout
  <2>2. faults.kinds \subseteq faults'.kinds /\ valid' \subseteq valid
    BY <1>16 DEF CloseLogout
  <2>3. "lost" \in faults'.kinds \/ closingHave \notin valid'
    BY <1>16 DEF CloseLogout
  <2>4. QED
    BY <2>1, <2>2, <2>3
<1>17. CASE Stopped \/ UNCHANGED vars
  <2>1. UNCHANGED vars
    BY <1>17 DEF Stopped
  <2>2. QED
    BY <2>1 DEF vars
<1>18. QED
  BY <1>1, <1>2, <1>3, <1>4, <1>5, <1>6, <1>7, <1>8, <1>9, <1>10, <1>11, <1>12, <1>13, <1>14, <1>15, <1>16, <1>17
  DEF Next, CallStep

\* Rejected, retired and logged out sessions stay dead (session.go Invalidate).
LEMMA DeadStep == TypeOK /\ FlightInv /\ IdInv /\ DeadInv /\ [Next]_vars => DeadInv'
<1> SUFFICES ASSUME TypeOK, FlightInv, IdInv, DeadInv, [Next]_vars PROVE DeadInv'
  OBVIOUS
<1>a. /\ pc \in [Callers -> Points] /\ have \in [Callers -> Nat] /\ old \in [Callers -> Nat]
      /\ session \in Nat /\ retired \in Nat /\ issued \in Nat /\ valid \subseteq 1..issued
      /\ canceled \in [Callers -> BOOLEAN] /\ attempt \in [Callers -> {0, 1}]
      /\ faults.count \in Nat /\ outcome \in [Callers -> {"none", "ok", "failed", "session"}]
  BY FaultsAssumption DEF TypeOK
<1> USE DEF managerVars, callVars, closeVars, serverVars, Goto, NoSession, Fault, NoFault, Spared, DeadInv, Uses
<1>1. ASSUME NEW c \in Callers, Begin(c) PROVE DeadInv'
  BY <1>1, <1>a DEF Begin, FlightInv, Leading, IdInv
<1>2. ASSUME NEW c \in Callers, CancelCall(c) PROVE DeadInv'
  BY <1>2, <1>a DEF CancelCall, FlightInv, Leading, IdInv
<1>3. ASSUME NEW c \in Callers, UseSession(c) PROVE DeadInv'
  BY <1>3, <1>a DEF UseSession, FlightInv, Leading, IdInv
<1>4. ASSUME NEW c \in Callers, WaitForLogin(c) PROVE DeadInv'
  BY <1>4, <1>a DEF WaitForLogin, FlightInv, Leading, IdInv
<1>5. ASSUME NEW c \in Callers, Lead(c) PROVE DeadInv'
  BY <1>5, <1>a DEF Lead, FlightInv, Leading, IdInv
<1>6. ASSUME NEW c \in Callers, WaitCanceled(c) PROVE DeadInv'
  BY <1>6, <1>a DEF WaitCanceled, Return, FlightInv, Leading, IdInv
<1>7. ASSUME NEW c \in Callers, Woken(c) PROVE DeadInv'
  BY <1>7, <1>a DEF Woken, Return, FlightInv, Leading, IdInv
<1>8. ASSUME NEW c \in Callers, ServerLogin(c) PROVE DeadInv'
  BY <1>8, <1>a DEF ServerLogin, FlightInv, Leading, IdInv
<1>9. ASSUME NEW c \in Callers, LoginSucceeds(c) PROVE DeadInv'
  BY <1>9, <1>a DEF LoginSucceeds, WakeWaiters, ToRetire, FlightInv, Leading, IdInv
<1>10. ASSUME NEW c \in Callers, LoginFails(c) PROVE DeadInv'
  BY <1>10, <1>a DEF LoginFails, WakeWaiters, Leading, FlightInv, IdInv
<1>11. ASSUME NEW c \in Callers, LogoutRetired(c) PROVE DeadInv'
  BY <1>11, <1>a DEF LogoutRetired, FlightInv, Leading, IdInv
<1>12. ASSUME NEW c \in Callers, Answered(c) PROVE DeadInv'
  BY <1>12, <1>a DEF Answered, Return, FlightInv, Leading, IdInv
<1>13. ASSUME NEW c \in Callers, Rejected(c) PROVE DeadInv'
  BY <1>13, <1>a DEF Rejected, Return, Invalidate, FlightInv, Leading, IdInv
<1>14. ASSUME NEW s \in valid, Expire(s) PROVE DeadInv'
  BY <1>14, <1>a DEF Expire, FlightInv, Leading, IdInv
<1>15. CASE Close
  BY <1>15, <1>a DEF Close, FlightInv, Leading, IdInv
<1>16. CASE CloseLogout
  BY <1>16, <1>a DEF CloseLogout, FlightInv, Leading, IdInv
<1>17. CASE Stopped \/ UNCHANGED vars
  BY <1>17, <1>a DEF Stopped, vars, FlightInv, Leading, IdInv
<1>18. QED
  BY <1>1, <1>2, <1>3, <1>4, <1>5, <1>6, <1>7, <1>8, <1>9, <1>10, <1>11, <1>12, <1>13, <1>14, <1>15, <1>16, <1>17
  DEF Next, CallStep

\* Without denials only the server's own decision ends a session (session.go).
LEMMA DeadEndedStep == TypeOK /\ FlightInv /\ IdInv /\ DeadInv /\ DeadEnded /\ [Next]_vars => DeadEnded'
<1> SUFFICES ASSUME TypeOK, FlightInv, IdInv, DeadInv, DeadEnded, [Next]_vars PROVE DeadEnded'
  OBVIOUS
<1>a. /\ pc \in [Callers -> Points] /\ have \in [Callers -> Nat] /\ old \in [Callers -> Nat]
      /\ session \in Nat /\ retired \in Nat /\ issued \in Nat /\ valid \subseteq 1..issued
      /\ canceled \in [Callers -> BOOLEAN] /\ attempt \in [Callers -> {0, 1}]
      /\ faults.count \in Nat /\ outcome \in [Callers -> {"none", "ok", "failed", "session"}]
  BY FaultsAssumption DEF TypeOK
<1> USE DEF managerVars, callVars, closeVars, serverVars, Goto, NoSession, Fault, NoFault, Spared, DeadEnded
<1>1. ASSUME NEW c \in Callers, Begin(c) PROVE DeadEnded'
  BY <1>1, <1>a DEF Begin, IdInv, DeadInv
<1>2. ASSUME NEW c \in Callers, CancelCall(c) PROVE DeadEnded'
  BY <1>2, <1>a DEF CancelCall, IdInv, DeadInv
<1>3. ASSUME NEW c \in Callers, UseSession(c) PROVE DeadEnded'
  BY <1>3, <1>a DEF UseSession, IdInv, DeadInv
<1>4. ASSUME NEW c \in Callers, WaitForLogin(c) PROVE DeadEnded'
  BY <1>4, <1>a DEF WaitForLogin, IdInv, DeadInv
<1>5. ASSUME NEW c \in Callers, Lead(c) PROVE DeadEnded'
  BY <1>5, <1>a DEF Lead, IdInv, DeadInv
<1>6. ASSUME NEW c \in Callers, WaitCanceled(c) PROVE DeadEnded'
  BY <1>6, <1>a DEF WaitCanceled, Return, IdInv, DeadInv
<1>7. ASSUME NEW c \in Callers, Woken(c) PROVE DeadEnded'
  BY <1>7, <1>a DEF Woken, Return, IdInv, DeadInv
<1>8. ASSUME NEW c \in Callers, ServerLogin(c) PROVE DeadEnded'
  BY <1>8, <1>a DEF ServerLogin, IdInv, DeadInv
<1>9. ASSUME NEW c \in Callers, LoginSucceeds(c) PROVE DeadEnded'
  BY <1>9, <1>a DEF LoginSucceeds, WakeWaiters, ToRetire, IdInv, DeadInv
<1>10. ASSUME NEW c \in Callers, LoginFails(c) PROVE DeadEnded'
  BY <1>10, <1>a DEF LoginFails, WakeWaiters, Leading, IdInv, DeadInv
<1>11. ASSUME NEW c \in Callers, LogoutRetired(c) PROVE DeadEnded'
  BY <1>11, <1>a DEF LogoutRetired, IdInv, DeadInv
<1>12. ASSUME NEW c \in Callers, Answered(c) PROVE DeadEnded'
  BY <1>12, <1>a DEF Answered, Return, IdInv, DeadInv
<1>13. ASSUME NEW c \in Callers, Rejected(c) PROVE DeadEnded'
  BY <1>13, <1>a DEF Rejected, Return, Invalidate, IdInv, DeadInv
<1>14. ASSUME NEW s \in valid, Expire(s) PROVE DeadEnded'
  BY <1>14, <1>a DEF Expire, IdInv, DeadInv
<1>15. CASE Close
  BY <1>15, <1>a DEF Close, IdInv, DeadInv
<1>16. CASE CloseLogout
  BY <1>16, <1>a DEF CloseLogout, IdInv, DeadInv
<1>17. CASE Stopped \/ UNCHANGED vars
  BY <1>17, <1>a DEF Stopped, vars, IdInv, DeadInv
<1>18. QED
  BY <1>1, <1>2, <1>3, <1>4, <1>5, <1>6, <1>7, <1>8, <1>9, <1>10, <1>11, <1>12, <1>13, <1>14, <1>15, <1>16, <1>17
  DEF Next, CallStep

\* A caller in its second attempt never meets the session it was rejected for
\* (client.go do, session.go Invalidate).
LEMMA SecondAttemptStep == TypeOK /\ FlightInv /\ IdInv /\ DeadInv /\ SecondAttempt /\ [Next]_vars => SecondAttempt'
<1> SUFFICES ASSUME TypeOK, FlightInv, IdInv, DeadInv, SecondAttempt, [Next]_vars PROVE SecondAttempt'
  OBVIOUS
<1>a. /\ pc \in [Callers -> Points] /\ have \in [Callers -> Nat] /\ old \in [Callers -> Nat]
      /\ session \in Nat /\ retired \in Nat /\ issued \in Nat /\ valid \subseteq 1..issued
      /\ canceled \in [Callers -> BOOLEAN] /\ attempt \in [Callers -> {0, 1}]
      /\ faults.count \in Nat /\ outcome \in [Callers -> {"none", "ok", "failed", "session"}]
  BY FaultsAssumption DEF TypeOK
<1> USE DEF managerVars, callVars, closeVars, serverVars, Goto, NoSession, Fault, NoFault, Spared, SecondAttempt, LeftBehind, Uses
<1>1. ASSUME NEW c \in Callers, Begin(c) PROVE SecondAttempt'
  BY <1>1, <1>a DEF Begin, FlightInv, Leading, IdInv, DeadInv
<1>2. ASSUME NEW c \in Callers, CancelCall(c) PROVE SecondAttempt'
  BY <1>2, <1>a DEF CancelCall, FlightInv, Leading, IdInv, DeadInv
<1>3. ASSUME NEW c \in Callers, UseSession(c) PROVE SecondAttempt'
  BY <1>3, <1>a DEF UseSession, FlightInv, Leading, IdInv, DeadInv
<1>4. ASSUME NEW c \in Callers, WaitForLogin(c) PROVE SecondAttempt'
  BY <1>4, <1>a DEF WaitForLogin, FlightInv, Leading, IdInv, DeadInv
<1>5. ASSUME NEW c \in Callers, Lead(c) PROVE SecondAttempt'
  BY <1>5, <1>a DEF Lead, FlightInv, Leading, IdInv, DeadInv
<1>6. ASSUME NEW c \in Callers, WaitCanceled(c) PROVE SecondAttempt'
  BY <1>6, <1>a DEF WaitCanceled, Return, FlightInv, Leading, IdInv, DeadInv
<1>7. ASSUME NEW c \in Callers, Woken(c) PROVE SecondAttempt'
  BY <1>7, <1>a DEF Woken, Return, FlightInv, Leading, IdInv, DeadInv
<1>8. ASSUME NEW c \in Callers, ServerLogin(c) PROVE SecondAttempt'
  BY <1>8, <1>a DEF ServerLogin, FlightInv, Leading, IdInv, DeadInv
<1>9. ASSUME NEW c \in Callers, LoginSucceeds(c) PROVE SecondAttempt'
  BY <1>9, <1>a DEF LoginSucceeds, WakeWaiters, ToRetire, FlightInv, Leading, IdInv, DeadInv
<1>10. ASSUME NEW c \in Callers, LoginFails(c) PROVE SecondAttempt'
  BY <1>10, <1>a DEF LoginFails, WakeWaiters, Leading, FlightInv, IdInv, DeadInv
<1>11. ASSUME NEW c \in Callers, LogoutRetired(c) PROVE SecondAttempt'
  BY <1>11, <1>a DEF LogoutRetired, FlightInv, Leading, IdInv, DeadInv
<1>12. ASSUME NEW c \in Callers, Answered(c) PROVE SecondAttempt'
  BY <1>12, <1>a DEF Answered, Return, FlightInv, Leading, IdInv, DeadInv
<1>13. ASSUME NEW c \in Callers, Rejected(c) PROVE SecondAttempt'
  BY <1>13, <1>a DEF Rejected, Return, Invalidate, FlightInv, Leading, IdInv, DeadInv
<1>14. ASSUME NEW s \in valid, Expire(s) PROVE SecondAttempt'
  BY <1>14, <1>a DEF Expire, FlightInv, Leading, IdInv, DeadInv
<1>15. CASE Close
  BY <1>15, <1>a DEF Close, FlightInv, Leading, IdInv, DeadInv
<1>16. CASE CloseLogout
  BY <1>16, <1>a DEF CloseLogout, FlightInv, Leading, IdInv, DeadInv
<1>17. CASE Stopped \/ UNCHANGED vars
  BY <1>17, <1>a DEF Stopped, vars, FlightInv, Leading, IdInv, DeadInv
<1>18. QED
  BY <1>1, <1>2, <1>3, <1>4, <1>5, <1>6, <1>7, <1>8, <1>9, <1>10, <1>11, <1>12, <1>13, <1>14, <1>15, <1>16, <1>17
  DEF Next, CallStep

\* A second rejection is the second session that the server ended (client.go do).
LEMMA RetryStep == TypeOK /\ FlightInv /\ IdInv /\ DeadInv /\ RetryInv /\ [Next]_vars => RetrySuffices'
<1> SUFFICES ASSUME TypeOK, FlightInv, IdInv, DeadInv, RetryInv, [Next]_vars PROVE RetrySuffices'
  OBVIOUS
<1>a. /\ pc \in [Callers -> Points] /\ have \in [Callers -> Nat] /\ old \in [Callers -> Nat]
      /\ session \in Nat /\ retired \in Nat /\ issued \in Nat /\ valid \subseteq 1..issued
      /\ canceled \in [Callers -> BOOLEAN] /\ attempt \in [Callers -> {0, 1}]
      /\ faults.count \in Nat /\ outcome \in [Callers -> {"none", "ok", "failed", "session"}]
  BY FaultsAssumption DEF TypeOK
<1> USE DEF managerVars, callVars, closeVars, serverVars, Goto, NoSession, Fault, NoFault, Spared, RetrySuffices, RetryInv
<1>1. ASSUME NEW c \in Callers, Begin(c) PROVE RetrySuffices'
  BY <1>1, <1>a DEF Begin
<1>2. ASSUME NEW c \in Callers, CancelCall(c) PROVE RetrySuffices'
  BY <1>2, <1>a DEF CancelCall
<1>3. ASSUME NEW c \in Callers, UseSession(c) PROVE RetrySuffices'
  BY <1>3, <1>a DEF UseSession
<1>4. ASSUME NEW c \in Callers, WaitForLogin(c) PROVE RetrySuffices'
  BY <1>4, <1>a DEF WaitForLogin
<1>5. ASSUME NEW c \in Callers, Lead(c) PROVE RetrySuffices'
  BY <1>5, <1>a DEF Lead
<1>6. ASSUME NEW c \in Callers, WaitCanceled(c) PROVE RetrySuffices'
  BY <1>6, <1>a DEF WaitCanceled, Return
<1>7. ASSUME NEW c \in Callers, Woken(c) PROVE RetrySuffices'
  BY <1>7, <1>a DEF Woken, Return
<1>8. ASSUME NEW c \in Callers, ServerLogin(c) PROVE RetrySuffices'
  BY <1>8, <1>a DEF ServerLogin
<1>9. ASSUME NEW c \in Callers, LoginSucceeds(c) PROVE RetrySuffices'
  BY <1>9, <1>a DEF LoginSucceeds, WakeWaiters, ToRetire
<1>10. ASSUME NEW c \in Callers, LoginFails(c) PROVE RetrySuffices'
  BY <1>10, <1>a DEF LoginFails, WakeWaiters, Leading
<1>11. ASSUME NEW c \in Callers, LogoutRetired(c) PROVE RetrySuffices'
  BY <1>11, <1>a DEF LogoutRetired
<1>12. ASSUME NEW c \in Callers, Answered(c) PROVE RetrySuffices'
  BY <1>12, <1>a DEF Answered, Return
<1>13. ASSUME NEW c \in Callers, Rejected(c) PROVE RetrySuffices'
  <2>1. ASSUME Spared({"deny", "reuse"}), attempt[c] = 1 PROVE \E s, t \in ended : s # t
    <3>1. PICK s \in 1..issued : LeftBehind(c, s)
      BY <2>1 DEF SecondAttempt
    <3>2. have[c] \in (1..issued) \ valid /\ have[c] # s /\ s \notin valid /\ closing = "open"
      BY <1>13, <2>1, <3>1 DEF LeftBehind, Rejected, Uses, IdInv, DeadInv
    <3>3. QED
      BY <2>1, <3>2 DEF DeadEnded
  <2>2. \A d \in Callers : outcome'[d] = "session" =>
           outcome[d] = "session" \/ attempt[c] = 1
    BY <1>13, <1>a DEF Rejected, Return
  <2>3. faults' = faults /\ ended' = ended
    BY <1>13 DEF Rejected
  <2>4. QED
    BY <2>1, <2>2, <2>3
<1>14. ASSUME NEW s \in valid, Expire(s) PROVE RetrySuffices'
  BY <1>14, <1>a DEF Expire
<1>15. CASE Close
  BY <1>15, <1>a DEF Close
<1>16. CASE CloseLogout
  BY <1>16, <1>a DEF CloseLogout
<1>17. CASE Stopped \/ UNCHANGED vars
  BY <1>17, <1>a DEF Stopped, vars
<1>18. QED
  BY <1>1, <1>2, <1>3, <1>4, <1>5, <1>6, <1>7, <1>8, <1>9, <1>10, <1>11, <1>12, <1>13, <1>14, <1>15, <1>16, <1>17
  DEF Next, CallStep

-----------------------------------------------------------------------------
\* The invariant holds before anybody calls do (session.go NewSessionManager).
LEMMA InitFInv == Init => FInv
<1> SUFFICES ASSUME Init PROVE FInv
  OBVIOUS
<1> USE FaultsAssumption DEF Init, NoSession
<1>1. TypeOK
  <2>1. canceled \in [Callers -> BOOLEAN]
    OBVIOUS
  <2>2. faults \in [count : 0..MaxFaults, kinds : SUBSET FaultKinds] /\ valid \subseteq 1..issued /\ ended \subseteq 1..issued
    OBVIOUS
  <2>3. QED
    BY <2>1, <2>2 DEF TypeOK, Points
<1>2. FlightInv /\ IdInv
  BY DEF FlightInv, IdInv, Leading, Uses
<1>3. ForgottenInv
  BY DEF ForgottenInv, NoSessionForgotten
<1>4. DeadInv
  BY DEF DeadInv
<1>5. RetryInv
  BY DEF RetryInv, DeadEnded, SecondAttempt, RetrySuffices
<1>6. QED
  BY <1>1, <1>2, <1>3, <1>4, <1>5 DEF FInv

\* ... and every step of session.go and client.go preserves it.
THEOREM SessionInvariance == Spec => []FInv
<1>1. FInv /\ [Next]_vars => FInv'
  BY TypeStep, FlightStep, IdStep, ForgottenStep, DeadStep, DeadEndedStep, SecondAttemptStep, RetryStep
  DEF FInv, RetryInv
<1>2. QED
  BY InitFInv, <1>1, PTL DEF Spec

\* Type correctness of the session manager (session.go).
THEOREM SessionTypes == Spec => []TypeOK
<1>1. FInv => TypeOK
  BY DEF FInv
<1>2. QED
  BY <1>1, SessionInvariance, PTL

\* There is at most one login in progress, for any number of callers
\* (session.go Session).
THEOREM LoginIsSingleFlight == Spec => []SingleFlight
<1>1. FInv => SingleFlight
  BY DEF FInv, FlightInv, SingleFlight
<1>2. QED
  BY <1>1, SessionInvariance, PTL

\* No live session is forgotten while no answer is lost (session.go, the
\* retired field).
THEOREM SessionsAreTracked == Spec => []NoSessionForgotten
<1>1. FInv => NoSessionForgotten
  BY DEF FInv, ForgottenInv
<1>2. QED
  BY <1>1, SessionInvariance, PTL

\* Only two different sessions that the server ended fail a call on its
\* session, for any number of callers that use, drop and renew the session at
\* the same time and any number of other faults (client.go do).
THEOREM OneRetrySuffices == Spec => []RetrySuffices
<1>1. FInv => RetrySuffices
  BY DEF FInv, RetryInv
<1>2. QED
  BY <1>1, SessionInvariance, PTL

\* Close logs the last live session out, unless a live session was denied or
\* reused, or an answer or a caller got lost (session.go Close).
THEOREM CloseLogsOut == Spec => []CloseLogsEverythingOut
<1>1. FInv => CloseLogsEverythingOut
  <2> SUFFICES ASSUME FInv, Spared({"deny", "reuse", "lost", "cancel"}),
                      closing = "closed", NEW s \in valid
               PROVE  FALSE
    BY DEF FInv, TypeOK, CloseLogsEverythingOut, ClosedMeansLoggedOut
  <2> USE DEF Spared
  <2>1. s \in {session, retired} /\ session = NoSession
    BY DEF FInv, ForgottenInv, NoSessionForgotten, IdInv
  <2>2. s # NoSession
    BY DEF FInv, TypeOK, NoSession
  <2>3. retired \notin valid
    BY DEF FInv, DeadInv
  <2>4. QED
    BY <2>1, <2>2, <2>3
<1>2. QED
  BY <1>1, SessionInvariance, PTL

\* A late rejection never drops a newer session (session.go Invalidate).
THEOREM NewerSessionIsKept == Spec => OnlyDeadDropped
<1> DEFINE Kept == Spared({"deny", "reuse"}) =>
              (session # NoSession /\ session' # session => session \notin valid \/ closing' # "open")
<1>1. FInv /\ [Next]_vars => [Kept]_vars
  <2> SUFFICES ASSUME FInv, [Next]_vars, Spared({"deny", "reuse"}),
                      session # NoSession, session' # session
               PROVE  session \notin valid \/ closing' # "open"
    OBVIOUS
  <2>1. CASE Close
    BY <2>1 DEF Close
  <2>2. ASSUME NEW c \in Callers, LoginSucceeds(c) PROVE FALSE
    BY <2>2 DEF LoginSucceeds, FInv, FlightInv, Leading
  <2>3. ASSUME NEW c \in Callers, Rejected(c) PROVE session \notin valid
    BY <2>3 DEF Rejected, Invalidate, FInv, DeadInv
  <2>4. QED
    BY <2>1, <2>2, <2>3 DEF Next, CallStep, Begin, CancelCall, UseSession, WaitForLogin, Lead,
       WaitCanceled, Woken, ServerLogin, LoginFails, LogoutRetired, Answered, Expire,
       CloseLogout, Stopped, vars, managerVars
<1>2. QED
  BY <1>1, SessionInvariance, PTL DEF Spec, OnlyDeadDropped
=============================================================================
