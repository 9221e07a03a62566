--------------------------- MODULE SnapshotProofs ---------------------------
(***************************************************************************)
(* Proofs about SnapshotRefresh, for every number of schedulers, requests, *)
(* days, versions and faults.                                              *)
(***************************************************************************)
EXTENDS SnapshotRefresh, TLAPS

\* An audit event is one of the three that Refresh appends (service.go audit).
LEMMA AuditTypes ==
    ASSUME NEW r \in Refreshers, NEW e \in {"started", "succeeded", "failed"},
           trail \in [Refreshers -> SUBSET {"started", "succeeded", "failed"}], Audit(r, e)
    PROVE  trail' \in [Refreshers -> SUBSET {"started", "succeeded", "failed"}]
<1>1. trail[r] \cup {e} \in SUBSET {"started", "succeeded", "failed"}
  OBVIOUS
<1>2. QED
  BY <1>1 DEF Audit

\* The number of faults stays within its bound.
LEMMA FaultCount ==
    ASSUME faults \in [count : 0..MaxFaults, kinds : SUBSET FaultKinds], NEW k, Fault(k) \/ NoFault
    PROVE  faults' \in [count : 0..MaxFaults, kinds : SUBSET FaultKinds]
  BY FaultsAssumption DEF Fault, NoFault

\* Every step of a refresh preserves the types (snapshot/service.go Refresh).
LEMMA TypeStep == TypeOK /\ [Next]_vars => TypeOK'
<1> SUFFICES ASSUME TypeOK, [Next]_vars PROVE TypeOK'
  OBVIOUS
<1> DEFINE Events == {"started", "succeeded", "failed"}
<1>a. /\ dataset \in Datasets /\ lastStatus \in {"never", "running", "succeeded", "failed"}
      /\ lockOwner \in Refreshers \cup {Nobody} /\ day \in 1..MaxDay /\ version \in 0..MaxVersion
      /\ pc \in [Refreshers -> Points] /\ businessDate \in [Refreshers -> 0..MaxDay]
      /\ rows \in [Refreshers -> Datasets] /\ canceled \in [Refreshers -> BOOLEAN]
      /\ before \in [Refreshers -> Datasets] /\ trail \in [Refreshers -> SUBSET Events]
      /\ dayStart \in [1..MaxDay -> 0..MaxVersion] /\ faults \in [count : 0..MaxFaults, kinds : SUBSET FaultKinds]
  BY DEF TypeOK
<1>b. /\ Empty \in Datasets /\ [day |-> day, version |-> version] \in Datasets
      /\ 0 \in 0..MaxDay /\ day \in 0..MaxDay
  BY <1>a, BoundsAssumption DEF Empty, Datasets
<1> USE DEF sourceVars, Goto
<1>1. ASSUME NEW r \in Refreshers, AcquireRefreshLock(r) PROVE TypeOK'
  <2>1. canceled' \in [Refreshers -> BOOLEAN]
    BY <1>1, <1>a DEF AcquireRefreshLock
  <2>2. trail' \in [Refreshers -> SUBSET Events]
    BY <1>1, <1>a, AuditTypes DEF AcquireRefreshLock
  <2>3. /\ dataset' \in Datasets /\ rows' \in [Refreshers -> Datasets]
        /\ before' \in [Refreshers -> Datasets] /\ businessDate' \in [Refreshers -> 0..MaxDay]
    BY <1>1, <1>a, <1>b DEF AcquireRefreshLock
  <2>4. /\ pc' \in [Refreshers -> Points] /\ lockOwner' \in Refreshers \cup {Nobody}
        /\ lastStatus' \in {"never", "running", "succeeded", "failed"} 
    BY <1>1, <1>a DEF AcquireRefreshLock, Points
  <2>5. faults' \in [count : 0..MaxFaults, kinds : SUBSET FaultKinds]
    BY <1>1, <1>a, FaultCount DEF AcquireRefreshLock
  <2>6. QED
    BY <1>1, <1>a, <2>1, <2>2, <2>3, <2>4, <2>5 DEF AcquireRefreshLock, TypeOK
<1>2. ASSUME NEW r \in Refreshers, MarkAttempt(r) PROVE TypeOK'
  <2>1. canceled' \in [Refreshers -> BOOLEAN]
    BY <1>2, <1>a DEF MarkAttempt, StatementFails, Audit
  <2>2. trail' \in [Refreshers -> SUBSET Events]
    BY <1>2, <1>a, AuditTypes DEF MarkAttempt, StatementFails
  <2>3. /\ dataset' \in Datasets /\ rows' \in [Refreshers -> Datasets]
        /\ before' \in [Refreshers -> Datasets] /\ businessDate' \in [Refreshers -> 0..MaxDay]
    <3>1. UNCHANGED <<dataset, rows>>
      BY <1>2 DEF MarkAttempt
    <3>2. before' \in {before, [before EXCEPT ![r] = dataset]}
      BY <1>2 DEF MarkAttempt
    <3>3. businessDate' \in {businessDate, [businessDate EXCEPT ![r] = day]}
      BY <1>2 DEF MarkAttempt
    <3>4. QED
      BY <1>a, <1>b, <3>1, <3>2, <3>3
  <2>4. /\ pc' \in [Refreshers -> Points] /\ lockOwner' \in Refreshers \cup {Nobody}
        /\ lastStatus' \in {"never", "running", "succeeded", "failed"} 
    BY <1>2, <1>a DEF MarkAttempt, StatementFails, Audit, Points
  <2>5. faults' \in [count : 0..MaxFaults, kinds : SUBSET FaultKinds]
    BY <1>2, <1>a, FaultCount DEF MarkAttempt, StatementFails, Audit
  <2>6. QED
    BY <1>2, <1>a, <2>1, <2>2, <2>3, <2>4, <2>5 DEF MarkAttempt, StatementFails, Audit, TypeOK
<1>3. ASSUME NEW r \in Refreshers, FetchCurrentLoanPositions(r) PROVE TypeOK'
  <2>1. canceled' \in [Refreshers -> BOOLEAN]
    BY <1>3, <1>a DEF FetchCurrentLoanPositions
  <2>2. trail' \in [Refreshers -> SUBSET Events]
    BY <1>3, <1>a, AuditTypes DEF FetchCurrentLoanPositions
  <2>3. /\ dataset' \in Datasets /\ rows' \in [Refreshers -> Datasets]
        /\ before' \in [Refreshers -> Datasets] /\ businessDate' \in [Refreshers -> 0..MaxDay]
    BY <1>3, <1>a, <1>b DEF FetchCurrentLoanPositions
  <2>4. /\ pc' \in [Refreshers -> Points] /\ lockOwner' \in Refreshers \cup {Nobody}
        /\ lastStatus' \in {"never", "running", "succeeded", "failed"} 
    BY <1>3, <1>a DEF FetchCurrentLoanPositions, Points
  <2>5. faults' \in [count : 0..MaxFaults, kinds : SUBSET FaultKinds]
    BY <1>3, <1>a, FaultCount DEF FetchCurrentLoanPositions
  <2>6. QED
    BY <1>3, <1>a, <2>1, <2>2, <2>3, <2>4, <2>5 DEF FetchCurrentLoanPositions, TypeOK
<1>4. ASSUME NEW r \in Refreshers, ReplaceAll(r) PROVE TypeOK'
  <2>1. canceled' \in [Refreshers -> BOOLEAN]
    BY <1>4, <1>a DEF ReplaceAll, StatementFails
  <2>2. trail' \in [Refreshers -> SUBSET Events]
    BY <1>4, <1>a, AuditTypes DEF ReplaceAll, StatementFails
  <2>3. /\ dataset' \in Datasets /\ rows' \in [Refreshers -> Datasets]
        /\ before' \in [Refreshers -> Datasets] /\ businessDate' \in [Refreshers -> 0..MaxDay]
    BY <1>4, <1>a, <1>b DEF ReplaceAll, StatementFails
  <2>4. /\ pc' \in [Refreshers -> Points] /\ lockOwner' \in Refreshers \cup {Nobody}
        /\ lastStatus' \in {"never", "running", "succeeded", "failed"} 
    BY <1>4, <1>a DEF ReplaceAll, StatementFails, Points
  <2>5. faults' \in [count : 0..MaxFaults, kinds : SUBSET FaultKinds]
    BY <1>4, <1>a, FaultCount DEF ReplaceAll, StatementFails
  <2>6. QED
    BY <1>4, <1>a, <2>1, <2>2, <2>3, <2>4, <2>5 DEF ReplaceAll, StatementFails, TypeOK
<1>5. ASSUME NEW r \in Refreshers, AuditSuccess(r) PROVE TypeOK'
  <2>1. canceled' \in [Refreshers -> BOOLEAN]
    BY <1>5, <1>a DEF AuditSuccess, StatementFails, Audit
  <2>2. trail' \in [Refreshers -> SUBSET Events]
    BY <1>5, <1>a, AuditTypes DEF AuditSuccess, StatementFails
  <2>3. /\ dataset' \in Datasets /\ rows' \in [Refreshers -> Datasets]
        /\ before' \in [Refreshers -> Datasets] /\ businessDate' \in [Refreshers -> 0..MaxDay]
    BY <1>5, <1>a, <1>b DEF AuditSuccess, StatementFails, Audit
  <2>4. /\ pc' \in [Refreshers -> Points] /\ lockOwner' \in Refreshers \cup {Nobody}
        /\ lastStatus' \in {"never", "running", "succeeded", "failed"} 
    BY <1>5, <1>a DEF AuditSuccess, StatementFails, Audit, Points
  <2>5. faults' \in [count : 0..MaxFaults, kinds : SUBSET FaultKinds]
    BY <1>5, <1>a, FaultCount DEF AuditSuccess, StatementFails, Audit
  <2>6. QED
    BY <1>5, <1>a, <2>1, <2>2, <2>3, <2>4, <2>5 DEF AuditSuccess, StatementFails, Audit, TypeOK
<1>6. ASSUME NEW r \in Refreshers, MarkFailure(r) PROVE TypeOK'
  <2>1. canceled' \in [Refreshers -> BOOLEAN]
    BY <1>6, <1>a DEF MarkFailure, Audit
  <2>2. trail' \in [Refreshers -> SUBSET Events]
    BY <1>6, <1>a, AuditTypes DEF MarkFailure
  <2>3. /\ dataset' \in Datasets /\ rows' \in [Refreshers -> Datasets]
        /\ before' \in [Refreshers -> Datasets] /\ businessDate' \in [Refreshers -> 0..MaxDay]
    BY <1>6, <1>a, <1>b DEF MarkFailure, Audit
  <2>4. /\ pc' \in [Refreshers -> Points] /\ lockOwner' \in Refreshers \cup {Nobody}
        /\ lastStatus' \in {"never", "running", "succeeded", "failed"} 
    BY <1>6, <1>a DEF MarkFailure, Audit, Points
  <2>5. faults' \in [count : 0..MaxFaults, kinds : SUBSET FaultKinds]
    BY <1>6, <1>a, FaultCount DEF MarkFailure, Audit
  <2>6. QED
    BY <1>6, <1>a, <2>1, <2>2, <2>3, <2>4, <2>5 DEF MarkFailure, Audit, TypeOK
<1>7. ASSUME NEW r \in Refreshers, Release(r) PROVE TypeOK'
  <2>1. canceled' \in [Refreshers -> BOOLEAN]
    BY <1>7, <1>a DEF Release, ForgetRefresh
  <2>2. trail' \in [Refreshers -> SUBSET Events]
    BY <1>7, <1>a, AuditTypes DEF Release, ForgetRefresh
  <2>3. /\ dataset' \in Datasets /\ rows' \in [Refreshers -> Datasets]
        /\ before' \in [Refreshers -> Datasets] /\ businessDate' \in [Refreshers -> 0..MaxDay]
    BY <1>7, <1>a, <1>b DEF Release, ForgetRefresh
  <2>4. /\ pc' \in [Refreshers -> Points] /\ lockOwner' \in Refreshers \cup {Nobody}
        /\ lastStatus' \in {"never", "running", "succeeded", "failed"} 
    BY <1>7, <1>a DEF Release, ForgetRefresh, Points
  <2>5. faults' \in [count : 0..MaxFaults, kinds : SUBSET FaultKinds]
    BY <1>7, <1>a, FaultCount DEF Release, ForgetRefresh
  <2>6. QED
    BY <1>7, <1>a, <2>1, <2>2, <2>3, <2>4, <2>5 DEF Release, ForgetRefresh, TypeOK
<1>8. ASSUME NEW r \in Refreshers, CancelContext(r) PROVE TypeOK'
  <2>1. canceled' \in [Refreshers -> BOOLEAN]
    BY <1>8, <1>a DEF CancelContext
  <2>2. trail' \in [Refreshers -> SUBSET Events]
    BY <1>8, <1>a, AuditTypes DEF CancelContext
  <2>3. /\ dataset' \in Datasets /\ rows' \in [Refreshers -> Datasets]
        /\ before' \in [Refreshers -> Datasets] /\ businessDate' \in [Refreshers -> 0..MaxDay]
    BY <1>8, <1>a, <1>b DEF CancelContext
  <2>4. /\ pc' \in [Refreshers -> Points] /\ lockOwner' \in Refreshers \cup {Nobody}
        /\ lastStatus' \in {"never", "running", "succeeded", "failed"} 
    BY <1>8, <1>a DEF CancelContext, Points
  <2>5. faults' \in [count : 0..MaxFaults, kinds : SUBSET FaultKinds]
    BY <1>8, <1>a, FaultCount DEF CancelContext
  <2>6. QED
    BY <1>8, <1>a, <2>1, <2>2, <2>3, <2>4, <2>5 DEF CancelContext, TypeOK
<1>9. ASSUME NEW r \in Refreshers, Crash(r) PROVE TypeOK'
  <2>1. canceled' \in [Refreshers -> BOOLEAN]
    BY <1>9, <1>a DEF Crash, ForgetRefresh
  <2>2. trail' \in [Refreshers -> SUBSET Events]
    BY <1>9, <1>a, AuditTypes DEF Crash, ForgetRefresh
  <2>3. /\ dataset' \in Datasets /\ rows' \in [Refreshers -> Datasets]
        /\ before' \in [Refreshers -> Datasets] /\ businessDate' \in [Refreshers -> 0..MaxDay]
    BY <1>9, <1>a, <1>b DEF Crash, ForgetRefresh
  <2>4. /\ pc' \in [Refreshers -> Points] /\ lockOwner' \in Refreshers \cup {Nobody}
        /\ lastStatus' \in {"never", "running", "succeeded", "failed"} 
    BY <1>9, <1>a DEF Crash, ForgetRefresh, Points
  <2>5. faults' \in [count : 0..MaxFaults, kinds : SUBSET FaultKinds]
    BY <1>9, <1>a, FaultCount DEF Crash, ForgetRefresh
  <2>6. QED
    BY <1>9, <1>a, <2>1, <2>2, <2>3, <2>4, <2>5 DEF Crash, ForgetRefresh, TypeOK
<1>10. ASSUME NEW r \in Refreshers, ReapConnection(r) PROVE TypeOK'
  <2>1. canceled' \in [Refreshers -> BOOLEAN]
    BY <1>10, <1>a DEF ReapConnection
  <2>2. trail' \in [Refreshers -> SUBSET Events]
    BY <1>10, <1>a, AuditTypes DEF ReapConnection
  <2>3. /\ dataset' \in Datasets /\ rows' \in [Refreshers -> Datasets]
        /\ before' \in [Refreshers -> Datasets] /\ businessDate' \in [Refreshers -> 0..MaxDay]
    BY <1>10, <1>a, <1>b DEF ReapConnection
  <2>4. /\ pc' \in [Refreshers -> Points] /\ lockOwner' \in Refreshers \cup {Nobody}
        /\ lastStatus' \in {"never", "running", "succeeded", "failed"} 
    BY <1>10, <1>a DEF ReapConnection, Points
  <2>5. faults' \in [count : 0..MaxFaults, kinds : SUBSET FaultKinds]
    BY <1>10, <1>a, FaultCount DEF ReapConnection
  <2>6. QED
    BY <1>10, <1>a, <2>1, <2>2, <2>3, <2>4, <2>5 DEF ReapConnection, TypeOK
<1>11. ASSUME NEW r \in Refreshers, DropConnection(r) PROVE TypeOK'
  <2>1. canceled' \in [Refreshers -> BOOLEAN]
    BY <1>11, <1>a DEF DropConnection
  <2>2. trail' \in [Refreshers -> SUBSET Events]
    BY <1>11, <1>a, AuditTypes DEF DropConnection
  <2>3. /\ dataset' \in Datasets /\ rows' \in [Refreshers -> Datasets]
        /\ before' \in [Refreshers -> Datasets] /\ businessDate' \in [Refreshers -> 0..MaxDay]
    BY <1>11, <1>a, <1>b DEF DropConnection
  <2>4. /\ pc' \in [Refreshers -> Points] /\ lockOwner' \in Refreshers \cup {Nobody}
        /\ lastStatus' \in {"never", "running", "succeeded", "failed"} 
    BY <1>11, <1>a DEF DropConnection, Points
  <2>5. faults' \in [count : 0..MaxFaults, kinds : SUBSET FaultKinds]
    BY <1>11, <1>a, FaultCount DEF DropConnection
  <2>6. QED
    BY <1>11, <1>a, <2>1, <2>2, <2>3, <2>4, <2>5 DEF DropConnection, TypeOK
<1>12. CASE ReportChanges
  BY <1>12, <1>a, BoundsAssumption DEF ReportChanges, TypeOK
<1>13. CASE Midnight
  <2>1. day' \in 1..MaxDay /\ dayStart' \in [1..MaxDay -> 0..MaxVersion]
    BY <1>13, <1>a, BoundsAssumption DEF Midnight
  <2>2. QED
    BY <1>13, <1>a, <2>1 DEF Midnight, TypeOK
<1>14. CASE UNCHANGED vars
  BY <1>14, <1>a DEF vars, TypeOK
<1>15. QED
  BY <1>1, <1>2, <1>3, <1>4, <1>5, <1>6, <1>7, <1>8, <1>9, <1>10, <1>11, <1>12, <1>13, <1>14
  DEF Next, RefreshStep

\* What is stored under a date was read on that date (snapshot/source.go parse).
LEMMA HistoryStep == TypeOK /\ HistoryInv /\ [Next]_vars => HistoryInv'
<1> SUFFICES ASSUME TypeOK, HistoryInv, [Next]_vars PROVE HistoryInv'
  OBVIOUS
<1>a. /\ pc \in [Refreshers -> Points] /\ rows \in [Refreshers -> Datasets] /\ dataset \in Datasets
      /\ before \in [Refreshers -> Datasets] /\ businessDate \in [Refreshers -> 0..MaxDay]
      /\ day \in 1..MaxDay /\ version \in 0..MaxVersion /\ dayStart \in [1..MaxDay -> 0..MaxVersion]
  BY DEF TypeOK
<1> USE BoundsAssumption, NobodyAssumption DEF sourceVars, Goto, HistoryInv, OfItsDay, Datasets, Empty
<1>1. ASSUME NEW r \in Refreshers, AcquireRefreshLock(r) PROVE HistoryInv'
  BY <1>1, <1>a DEF AcquireRefreshLock
<1>2. ASSUME NEW r \in Refreshers, MarkAttempt(r) PROVE HistoryInv'
  BY <1>2, <1>a DEF MarkAttempt, StatementFails, Audit
<1>3. ASSUME NEW r \in Refreshers, FetchCurrentLoanPositions(r) PROVE HistoryInv'
  <2>1. UNCHANGED <<day, version, dayStart, dataset>>
    BY <1>3 DEF FetchCurrentLoanPositions
  <2>2. pc'[r] = "replace" => rows'[r] = [day |-> day, version |-> version]
    BY <1>3, <1>a DEF FetchCurrentLoanPositions
  <2>3. \A q \in Refreshers : q # r => pc'[q] = pc[q] /\ rows'[q] = rows[q]
    BY <1>3, <1>a DEF FetchCurrentLoanPositions
  <2>4. dayStart[day] <= version /\ day # 0 /\ day <= day /\ version <= version
    BY <1>a
  <2>5. pc'[r] = "replace" => OfItsDay(rows[r])'
    <3>1. pc'[r] = "replace" => rows'[r].day = day /\ rows'[r].version = version
      BY <2>2
    <3>2. ~(day < day)
      BY <1>a
    <3>3. QED
      BY <2>1, <2>4, <3>1, <3>2
  <2>6. \A q \in Refreshers : q # r /\ pc'[q] = "replace" => OfItsDay(rows[q])'
    BY <2>1, <2>3
  <2>7. QED
    BY <2>1, <2>5, <2>6
<1>4. ASSUME NEW r \in Refreshers, ReplaceAll(r) PROVE HistoryInv'
  BY <1>4, <1>a DEF ReplaceAll, StatementFails
<1>5. ASSUME NEW r \in Refreshers, AuditSuccess(r) PROVE HistoryInv'
  BY <1>5, <1>a DEF AuditSuccess, StatementFails, Audit
<1>6. ASSUME NEW r \in Refreshers, MarkFailure(r) PROVE HistoryInv'
  BY <1>6, <1>a DEF MarkFailure, Audit
<1>7. ASSUME NEW r \in Refreshers, Release(r) PROVE HistoryInv'
  BY <1>7, <1>a DEF Release, ForgetRefresh
<1>8. ASSUME NEW r \in Refreshers, CancelContext(r) PROVE HistoryInv'
  BY <1>8, <1>a DEF CancelContext
<1>9. ASSUME NEW r \in Refreshers, Crash(r) PROVE HistoryInv'
  BY <1>9, <1>a DEF Crash, ForgetRefresh
<1>10. ASSUME NEW r \in Refreshers, ReapConnection(r) PROVE HistoryInv'
  BY <1>10, <1>a DEF ReapConnection
<1>11. ASSUME NEW r \in Refreshers, DropConnection(r) PROVE HistoryInv'
  BY <1>11, <1>a DEF DropConnection
<1>12. CASE ReportChanges
  BY <1>12, <1>a DEF ReportChanges
<1>13. CASE Midnight
  <2>1. day' = day + 1 /\ dayStart'[day + 1] = version /\ UNCHANGED <<version, dataset, rows, pc>>
    BY <1>13, <1>a DEF Midnight
  <2>2. \A d \in 1..day : dayStart'[d] = dayStart[d]
    BY <1>13, <1>a DEF Midnight
  <2>3. ASSUME NEW d \in Datasets, OfItsDay(d) PROVE OfItsDay(d)'
    <3>1. d.day \in Nat /\ d.version \in Nat /\ day \in Nat /\ version \in Nat
      BY <1>a
    <3>2. d.day <= day' /\ d.version <= version'
      BY <2>1, <2>3, <3>1
    <3>3. d.day # 0 => dayStart'[d.day] <= d.version
      BY <2>2, <2>3, <3>1
    <3>4. CASE d.day < day
      BY <2>1, <2>2, <2>3, <3>1, <3>2, <3>3, <3>4
    <3>5. CASE d.day = day
      BY <2>1, <2>3, <3>1, <3>2, <3>3, <3>5
    <3>6. QED
      BY <2>3, <3>1, <3>4, <3>5
  <2>4. \A d \in 1..day' : dayStart'[d] <= version'
    <3>1. \A d \in 1..day' : d \in 1..day \/ d = day + 1
      BY <1>a, <2>1
    <3>2. \A d \in 1..day : dayStart[d] <= version
      OBVIOUS
    <3>3. version <= version
      BY <1>a
    <3>4. QED
      BY <2>1, <2>2, <3>1, <3>2, <3>3
  <2>5. \A r \in Refreshers : rows[r] \in Datasets
    BY <1>a
  <2>6. OfItsDay(dataset)' /\ \A r \in Refreshers : pc'[r] = "replace" => OfItsDay(rows[r])'
    <3>1. \A d \in Datasets : OfItsDay(d) => OfItsDay(d)'
      BY <2>3
    <3> HIDE DEF OfItsDay, Datasets
    <3>2. QED
      BY <1>a, <2>1, <2>5, <3>1
  <2>7. QED
    BY <2>4, <2>6
<1>14. CASE UNCHANGED vars
  BY <1>14, <1>a DEF vars
<1>15. QED
  BY <1>1, <1>2, <1>3, <1>4, <1>5, <1>6, <1>7, <1>8, <1>9, <1>10, <1>11, <1>12, <1>13, <1>14
  DEF Next, RefreshStep

\* A fault that has happened stays recorded.
LEMMA SparedBefore ==
    ASSUME [Next]_vars, NEW K, Spared(K)'
    PROVE  Spared(K)
<1>1. faults.kinds \subseteq faults'.kinds
  BY DEF Next, RefreshStep, AcquireRefreshLock, MarkAttempt, FetchCurrentLoanPositions, ReplaceAll,
     AuditSuccess, MarkFailure, Release, CancelContext, Crash, ReapConnection, DropConnection,
     ReportChanges, Midnight, vars, StatementFails, Fault, NoFault
<1>2. QED
  BY <1>1 DEF Spared

\* A refresh that is not dropped holds the lock (snapshot/repository.go
\* AcquireRefreshLock).
LEMMA LockStep == TypeOK /\ LockInv /\ [Next]_vars => LockInv'
<1> SUFFICES ASSUME TypeOK, LockInv, [Next]_vars PROVE LockInv'
  OBVIOUS
<1>a. /\ pc \in [Refreshers -> Points] /\ rows \in [Refreshers -> Datasets] /\ dataset \in Datasets
      /\ before \in [Refreshers -> Datasets] /\ businessDate \in [Refreshers -> 0..MaxDay]
      /\ day \in 1..MaxDay /\ version \in 0..MaxVersion /\ dayStart \in [1..MaxDay -> 0..MaxVersion]
  BY DEF TypeOK
<1> USE BoundsAssumption, NobodyAssumption DEF sourceVars, Goto, LockInv, Refreshing, Fault, NoFault, Spared
<1>1. ASSUME NEW r \in Refreshers, AcquireRefreshLock(r) PROVE LockInv'
  BY <1>1, <1>a DEF AcquireRefreshLock
<1>2. ASSUME NEW r \in Refreshers, MarkAttempt(r) PROVE LockInv'
  BY <1>2, <1>a DEF MarkAttempt, StatementFails, Audit
<1>3. ASSUME NEW r \in Refreshers, FetchCurrentLoanPositions(r) PROVE LockInv'
  BY <1>3, <1>a DEF FetchCurrentLoanPositions
<1>4. ASSUME NEW r \in Refreshers, ReplaceAll(r) PROVE LockInv'
  BY <1>4, <1>a DEF ReplaceAll, StatementFails
<1>5. ASSUME NEW r \in Refreshers, AuditSuccess(r) PROVE LockInv'
  BY <1>5, <1>a DEF AuditSuccess, StatementFails, Audit
<1>6. ASSUME NEW r \in Refreshers, MarkFailure(r) PROVE LockInv'
  BY <1>6, <1>a DEF MarkFailure, Audit
<1>7. ASSUME NEW r \in Refreshers, Release(r) PROVE LockInv'
  BY <1>7, <1>a DEF Release, ForgetRefresh
<1>8. ASSUME NEW r \in Refreshers, CancelContext(r) PROVE LockInv'
  BY <1>8, <1>a DEF CancelContext
<1>9. ASSUME NEW r \in Refreshers, Crash(r) PROVE LockInv'
  BY <1>9, <1>a DEF Crash, ForgetRefresh
<1>10. ASSUME NEW r \in Refreshers, ReapConnection(r) PROVE LockInv'
  BY <1>10, <1>a DEF ReapConnection
<1>11. ASSUME NEW r \in Refreshers, DropConnection(r) PROVE LockInv'
  BY <1>11, <1>a DEF DropConnection
<1>12. CASE ReportChanges
  BY <1>12, <1>a DEF ReportChanges
<1>13. CASE Midnight
  BY <1>13, <1>a DEF Midnight
<1>14. CASE UNCHANGED vars
  BY <1>14, <1>a DEF vars
<1>15. QED
  BY <1>1, <1>2, <1>3, <1>4, <1>5, <1>6, <1>7, <1>8, <1>9, <1>10, <1>11, <1>12, <1>13, <1>14
  DEF Next, RefreshStep

\* What is about to be stored is no older than what is stored.
LEMMA NewerStep == TypeOK /\ HistoryInv /\ LockInv /\ NewerInv /\ [Next]_vars => NewerInv'
<1> DEFINE Newer == \A r \in Refreshers : pc[r] = "replace" =>
                       rows[r].version >= dataset.version /\ rows[r].day >= dataset.day
<1> SUFFICES ASSUME TypeOK, HistoryInv, LockInv, NewerInv, [Next]_vars, Spared({"drop"})'
             PROVE  Newer'
  BY DEF NewerInv
<1>b. Newer /\ \A r \in Refreshers : Refreshing(r) => lockOwner = r
  BY SparedBefore DEF NewerInv, LockInv
<1>a. /\ pc \in [Refreshers -> Points] /\ rows \in [Refreshers -> Datasets] /\ dataset \in Datasets
      /\ before \in [Refreshers -> Datasets] /\ businessDate \in [Refreshers -> 0..MaxDay]
      /\ day \in 1..MaxDay /\ version \in 0..MaxVersion /\ dayStart \in [1..MaxDay -> 0..MaxVersion]
  BY DEF TypeOK
<1> USE BoundsAssumption, NobodyAssumption DEF sourceVars, Goto, Refreshing, Datasets
<1>1. ASSUME NEW r \in Refreshers, AcquireRefreshLock(r) PROVE Newer'
  BY <1>1, <1>a, <1>b DEF AcquireRefreshLock
<1>2. ASSUME NEW r \in Refreshers, MarkAttempt(r) PROVE Newer'
  BY <1>2, <1>a, <1>b DEF MarkAttempt, StatementFails, Audit
<1>3. ASSUME NEW r \in Refreshers, FetchCurrentLoanPositions(r) PROVE Newer'
  <2>1. UNCHANGED dataset /\ pc[r] = "fetch"
    BY <1>3 DEF FetchCurrentLoanPositions
  <2>2. pc'[r] = "replace" => rows'[r] = [day |-> day, version |-> version]
    BY <1>3, <1>a, <1>b DEF FetchCurrentLoanPositions
  <2>3. \A q \in Refreshers : q # r => pc'[q] = pc[q] /\ rows'[q] = rows[q]
    BY <1>3, <1>a, <1>b DEF FetchCurrentLoanPositions
  <2>4. dataset.version <= version /\ dataset.day <= day
    BY <1>a DEF HistoryInv, OfItsDay
  <2>5. pc'[r] = "replace" => rows'[r].version >= dataset.version /\ rows'[r].day >= dataset.day
    BY <1>a, <2>2, <2>4
  <2>6. QED
    BY <1>b, <2>1, <2>3, <2>5
<1>4. ASSUME NEW r \in Refreshers, ReplaceAll(r) PROVE Newer'
  BY <1>4, <1>a, <1>b DEF ReplaceAll, StatementFails
<1>5. ASSUME NEW r \in Refreshers, AuditSuccess(r) PROVE Newer'
  BY <1>5, <1>a, <1>b DEF AuditSuccess, StatementFails, Audit
<1>6. ASSUME NEW r \in Refreshers, MarkFailure(r) PROVE Newer'
  BY <1>6, <1>a, <1>b DEF MarkFailure, Audit
<1>7. ASSUME NEW r \in Refreshers, Release(r) PROVE Newer'
  BY <1>7, <1>a, <1>b DEF Release, ForgetRefresh
<1>8. ASSUME NEW r \in Refreshers, CancelContext(r) PROVE Newer'
  BY <1>8, <1>a, <1>b DEF CancelContext
<1>9. ASSUME NEW r \in Refreshers, Crash(r) PROVE Newer'
  BY <1>9, <1>a, <1>b DEF Crash, ForgetRefresh
<1>10. ASSUME NEW r \in Refreshers, ReapConnection(r) PROVE Newer'
  BY <1>10, <1>a, <1>b DEF ReapConnection
<1>11. ASSUME NEW r \in Refreshers, DropConnection(r) PROVE Newer'
  BY <1>11, <1>a, <1>b DEF DropConnection
<1>12. CASE ReportChanges
  BY <1>12, <1>a, <1>b DEF ReportChanges
<1>13. CASE Midnight
  BY <1>13, <1>a, <1>b DEF Midnight
<1>14. CASE UNCHANGED vars
  BY <1>14, <1>a, <1>b DEF vars
<1>15. QED
  BY <1>1, <1>2, <1>3, <1>4, <1>5, <1>6, <1>7, <1>8, <1>9, <1>10, <1>11, <1>12, <1>13, <1>14
  DEF Next, RefreshStep

\* Nothing changes the dataset between MarkAttempt and the commit.
LEMMA PreserveStep == TypeOK /\ LockInv /\ PreserveInv /\ [Next]_vars => PreserveInv'
<1> DEFINE Preserved == \A r \in Refreshers : pc[r] \in {"fetch", "replace", "fail"} => dataset = before[r]
<1> SUFFICES ASSUME TypeOK, LockInv, PreserveInv, [Next]_vars, Spared({"drop", "ambiguous"})'
             PROVE  Preserved'
  BY DEF PreserveInv
<1>b. Preserved /\ \A r \in Refreshers : Refreshing(r) => lockOwner = r
  <2>1. Spared({"drop", "ambiguous"})
    BY SparedBefore
  <2>2. QED
    BY <2>1 DEF PreserveInv, LockInv, Spared
<1>c. "ambiguous" \notin faults'.kinds
  BY DEF Spared
<1>a. /\ pc \in [Refreshers -> Points] /\ rows \in [Refreshers -> Datasets] /\ dataset \in Datasets
      /\ before \in [Refreshers -> Datasets] /\ businessDate \in [Refreshers -> 0..MaxDay]
      /\ day \in 1..MaxDay /\ version \in 0..MaxVersion /\ dayStart \in [1..MaxDay -> 0..MaxVersion]
  BY DEF TypeOK
<1> USE BoundsAssumption, NobodyAssumption DEF sourceVars, Goto, Refreshing, Fault
<1>1. ASSUME NEW r \in Refreshers, AcquireRefreshLock(r) PROVE Preserved'
  BY <1>1, <1>a, <1>b DEF AcquireRefreshLock
<1>2. ASSUME NEW r \in Refreshers, MarkAttempt(r) PROVE Preserved'
  BY <1>2, <1>a, <1>b DEF MarkAttempt, StatementFails, Audit
<1>3. ASSUME NEW r \in Refreshers, FetchCurrentLoanPositions(r) PROVE Preserved'
  BY <1>3, <1>a, <1>b DEF FetchCurrentLoanPositions
<1>4. ASSUME NEW r \in Refreshers, ReplaceAll(r) PROVE Preserved'
  <2>1. UNCHANGED before /\ pc[r] = "replace"
    BY <1>4 DEF ReplaceAll
  <2>2. \A q \in Refreshers : q # r => ~Refreshing(q) /\ pc'[q] = pc[q]
    BY <1>4, <1>a, <1>b, <2>1 DEF ReplaceAll
  <2>3. pc'[r] = "fail" => UNCHANGED dataset
    BY <1>4, <1>a, <1>c DEF ReplaceAll
  <2>4. pc'[r] \in {"fail", "audit"}
    BY <1>4, <1>a DEF ReplaceAll
  <2>5. QED
    BY <1>b, <2>1, <2>2, <2>3, <2>4
<1>5. ASSUME NEW r \in Refreshers, AuditSuccess(r) PROVE Preserved'
  BY <1>5, <1>a, <1>b DEF AuditSuccess, StatementFails, Audit
<1>6. ASSUME NEW r \in Refreshers, MarkFailure(r) PROVE Preserved'
  BY <1>6, <1>a, <1>b DEF MarkFailure, Audit
<1>7. ASSUME NEW r \in Refreshers, Release(r) PROVE Preserved'
  BY <1>7, <1>a, <1>b DEF Release, ForgetRefresh
<1>8. ASSUME NEW r \in Refreshers, CancelContext(r) PROVE Preserved'
  BY <1>8, <1>a, <1>b DEF CancelContext
<1>9. ASSUME NEW r \in Refreshers, Crash(r) PROVE Preserved'
  BY <1>9, <1>a, <1>b DEF Crash, ForgetRefresh
<1>10. ASSUME NEW r \in Refreshers, ReapConnection(r) PROVE Preserved'
  BY <1>10, <1>a, <1>b DEF ReapConnection
<1>11. ASSUME NEW r \in Refreshers, DropConnection(r) PROVE Preserved'
  BY <1>11, <1>a, <1>b DEF DropConnection
<1>12. CASE ReportChanges
  BY <1>12, <1>a, <1>b DEF ReportChanges
<1>13. CASE Midnight
  BY <1>13, <1>a, <1>b DEF Midnight
<1>14. CASE UNCHANGED vars
  BY <1>14, <1>a, <1>b DEF vars
<1>15. QED
  BY <1>1, <1>2, <1>3, <1>4, <1>5, <1>6, <1>7, <1>8, <1>9, <1>10, <1>11, <1>12, <1>13, <1>14
  DEF Next, RefreshStep

\* One outcome is audited, and nothing after it (snapshot/service.go Refresh).
LEMMA OutcomeStep == TypeOK /\ OutcomeInv /\ [Next]_vars => OutcomeInv'
<1> SUFFICES ASSUME TypeOK, OutcomeInv, [Next]_vars PROVE OutcomeInv'
  OBVIOUS
<1>a. /\ pc \in [Refreshers -> Points]
      /\ trail \in [Refreshers -> SUBSET {"started", "succeeded", "failed"}]
  BY DEF TypeOK
<1> USE DEF sourceVars, Goto, OutcomeInv
<1>1. ASSUME NEW r \in Refreshers, AcquireRefreshLock(r) PROVE OutcomeInv'
  BY <1>1, <1>a DEF AcquireRefreshLock
<1>2. ASSUME NEW r \in Refreshers, MarkAttempt(r) PROVE OutcomeInv'
  BY <1>2, <1>a DEF MarkAttempt, StatementFails, Audit
<1>3. ASSUME NEW r \in Refreshers, FetchCurrentLoanPositions(r) PROVE OutcomeInv'
  BY <1>3, <1>a DEF FetchCurrentLoanPositions
<1>4. ASSUME NEW r \in Refreshers, ReplaceAll(r) PROVE OutcomeInv'
  BY <1>4, <1>a DEF ReplaceAll, StatementFails
<1>5. ASSUME NEW r \in Refreshers, AuditSuccess(r) PROVE OutcomeInv'
  BY <1>5, <1>a DEF AuditSuccess, StatementFails, Audit
<1>6. ASSUME NEW r \in Refreshers, MarkFailure(r) PROVE OutcomeInv'
  BY <1>6, <1>a DEF MarkFailure, Audit
<1>7. ASSUME NEW r \in Refreshers, Release(r) PROVE OutcomeInv'
  BY <1>7, <1>a DEF Release, ForgetRefresh
<1>8. ASSUME NEW r \in Refreshers, CancelContext(r) PROVE OutcomeInv'
  BY <1>8, <1>a DEF CancelContext
<1>9. ASSUME NEW r \in Refreshers, Crash(r) PROVE OutcomeInv'
  BY <1>9, <1>a DEF Crash, ForgetRefresh
<1>10. ASSUME NEW r \in Refreshers, ReapConnection(r) PROVE OutcomeInv'
  BY <1>10, <1>a DEF ReapConnection
<1>11. ASSUME NEW r \in Refreshers, DropConnection(r) PROVE OutcomeInv'
  BY <1>11, <1>a DEF DropConnection
<1>12. CASE ReportChanges
  BY <1>12, <1>a DEF ReportChanges
<1>13. CASE Midnight
  BY <1>13, <1>a DEF Midnight
<1>14. CASE UNCHANGED vars
  BY <1>14, <1>a DEF vars
<1>15. QED
  BY <1>1, <1>2, <1>3, <1>4, <1>5, <1>6, <1>7, <1>8, <1>9, <1>10, <1>11, <1>12, <1>13, <1>14
  DEF Next, RefreshStep

\* What was committed under the lock stands until the release.
LEMMA CommittedStep ==
    TypeOK /\ LockInv /\ OutcomeInv /\ CommittedInv /\ [Next]_vars => CommittedInv'
<1> DEFINE Stands(r) == dataset = rows[r] /\ lastStatus = "succeeded"
           Committed == \A r \in Refreshers :
              pc[r] = "audit" \/ (pc[r] = "release" /\ "succeeded" \in trail[r]) => Stands(r)
<1> SUFFICES ASSUME TypeOK, LockInv, OutcomeInv, CommittedInv, [Next]_vars, Spared({"drop"})'
             PROVE  Committed'
  BY DEF CommittedInv
<1>b. Committed /\ \A r \in Refreshers : Refreshing(r) => lockOwner = r
  BY SparedBefore DEF CommittedInv, LockInv
<1>c. \A r \in Refreshers : pc[r] # "release" => "succeeded" \notin trail[r]
  BY DEF OutcomeInv
<1>a. /\ pc \in [Refreshers -> Points] /\ rows \in [Refreshers -> Datasets]
      /\ trail \in [Refreshers -> SUBSET {"started", "succeeded", "failed"}]
  BY DEF TypeOK
<1> USE NobodyAssumption DEF sourceVars, Goto, Refreshing
<1>1. ASSUME NEW r \in Refreshers, AcquireRefreshLock(r) PROVE Committed'
  BY <1>1, <1>a, <1>b, <1>c DEF AcquireRefreshLock
<1>2. ASSUME NEW r \in Refreshers, MarkAttempt(r) PROVE Committed'
  BY <1>2, <1>a, <1>b, <1>c DEF MarkAttempt, StatementFails, Audit
<1>3. ASSUME NEW r \in Refreshers, FetchCurrentLoanPositions(r) PROVE Committed'
  BY <1>3, <1>a, <1>b, <1>c DEF FetchCurrentLoanPositions
<1>4. ASSUME NEW r \in Refreshers, ReplaceAll(r) PROVE Committed'
  BY <1>4, <1>a, <1>b, <1>c DEF ReplaceAll, StatementFails
<1>5. ASSUME NEW r \in Refreshers, AuditSuccess(r) PROVE Committed'
  BY <1>5, <1>a, <1>b, <1>c DEF AuditSuccess, StatementFails, Audit
<1>6. ASSUME NEW r \in Refreshers, MarkFailure(r) PROVE Committed'
  BY <1>6, <1>a, <1>b, <1>c DEF MarkFailure, Audit
<1>7. ASSUME NEW r \in Refreshers, Release(r) PROVE Committed'
  BY <1>7, <1>a, <1>b, <1>c DEF Release, ForgetRefresh
<1>8. ASSUME NEW r \in Refreshers, CancelContext(r) PROVE Committed'
  BY <1>8, <1>a, <1>b, <1>c DEF CancelContext
<1>9. ASSUME NEW r \in Refreshers, Crash(r) PROVE Committed'
  BY <1>9, <1>a, <1>b, <1>c DEF Crash, ForgetRefresh
<1>10. ASSUME NEW r \in Refreshers, ReapConnection(r) PROVE Committed'
  BY <1>10, <1>a, <1>b, <1>c DEF ReapConnection
<1>11. ASSUME NEW r \in Refreshers, DropConnection(r) PROVE Committed'
  BY <1>11, <1>a, <1>b, <1>c DEF DropConnection
<1>12. CASE ReportChanges
  BY <1>12, <1>a, <1>b, <1>c DEF ReportChanges
<1>13. CASE Midnight
  BY <1>13, <1>a, <1>b, <1>c DEF Midnight
<1>14. CASE UNCHANGED vars
  BY <1>14, <1>a, <1>b, <1>c DEF vars
<1>15. QED
  BY <1>1, <1>2, <1>3, <1>4, <1>5, <1>6, <1>7, <1>8, <1>9, <1>10, <1>11, <1>12, <1>13, <1>14
  DEF Next, RefreshStep

-----------------------------------------------------------------------------
\* The invariant holds before the first refresh.
LEMMA InitSInv == Init => SInv
<1> SUFFICES ASSUME Init PROVE SInv
  OBVIOUS
<1>1. Empty \in Datasets /\ Empty.day = 0 /\ Empty.version = 0
  BY BoundsAssumption DEF Empty, Datasets
<1>2. TypeOK
  <2>1. canceled \in [Refreshers -> BOOLEAN]
    BY DEF Init
  <2>2. trail \in [Refreshers -> SUBSET {"started", "succeeded", "failed"}]
    BY DEF Init
  <2>3. dayStart \in [1..MaxDay -> 0..MaxVersion] /\ faults \in [count : 0..MaxFaults, kinds : SUBSET FaultKinds]
    BY BoundsAssumption, FaultsAssumption DEF Init
  <2>4. QED
    BY <1>1, <2>1, <2>2, <2>3, BoundsAssumption DEF Init, TypeOK, Points
<1>3. HistoryInv
  BY <1>1, BoundsAssumption DEF Init, HistoryInv, OfItsDay
<1>4. LockInv /\ NewerInv /\ PreserveInv
  BY DEF Init, LockInv, NewerInv, PreserveInv, Refreshing
<1>5. OutcomeInv /\ CommittedInv
  BY DEF Init, OutcomeInv, CommittedInv
<1>6. QED
  BY <1>2, <1>3, <1>4, <1>5 DEF SInv

\* ... and every step preserves it.
THEOREM SnapshotInvariance == Spec => []SInv
<1>1. SInv /\ [Next]_vars => SInv'
  BY TypeStep, HistoryStep, LockStep, NewerStep, PreserveStep,
     OutcomeStep, CommittedStep DEF SInv
<1>2. QED
  BY InitSInv, <1>1, PTL DEF Spec

\* Type correctness of the snapshot tables and the refreshes.
THEOREM SnapshotTypes == Spec => []TypeOK
<1>1. SInv => TypeOK
  BY DEF SInv
<1>2. QED
  BY <1>1, SnapshotInvariance, PTL

\* What is stored under a date is what the report said on that date, for any
\* number of refreshes around any number of midnights, dropped locks included
\* (snapshot/source.go parse, snapshot/service.go validateRows).
THEOREM DatesAreTrue == Spec => []DatasetIsOfItsDay
<1>1. SInv => DatasetIsOfItsDay
  BY DEF SInv, HistoryInv, DatasetIsOfItsDay
<1>2. QED
  BY <1>1, SnapshotInvariance, PTL

\* A failed refresh has preserved the previous dataset, until the answer of a
\* commit is lost or a lock connection dropped (snapshot/repository.go
\* ReplaceAll).
THEOREM FailureIsHarmless == Spec => []AnsweredFailurePreserves
<1>1. SInv => AnsweredFailurePreserves
  BY DEF SInv, PreserveInv, AnsweredFailurePreserves, FailurePreserves
<1>2. QED
  BY <1>1, SnapshotInvariance, PTL

\* The audit trail of an attempt tells the truth: one outcome, and, until a
\* lock connection is dropped, a success only when the table and the state say
\* so too (snapshot/service.go Refresh).
THEOREM TheTrailIsTrue == Spec => []TrailTellsTruth
<1>1. SInv => TrailTellsTruth
  BY DEF SInv, OutcomeInv, CommittedInv, TrailTellsTruth
<1>2. QED
  BY <1>1, SnapshotInvariance, PTL

\* The dataset never goes back, until a lock connection is dropped
\* (snapshot/service.go Refresh).
THEOREM DatasetAdvances == Spec => NoRegress
<1> DEFINE Advances == dataset'.version >= dataset.version /\ dataset'.day >= dataset.day
<1>1. SInv /\ [Next]_vars => [Spared({"drop"}) => Advances]_vars
  <2> SUFFICES ASSUME SInv, [Next]_vars, Spared({"drop"}) PROVE Advances
    OBVIOUS
  <2>a. dataset \in Datasets /\ dataset.version \in Nat /\ dataset.day \in Nat
    BY BoundsAssumption DEF SInv, TypeOK, Datasets
  <2>1. CASE UNCHANGED dataset
    BY <2>1, <2>a
  <2>2. ASSUME NEW r \in Refreshers, ReplaceAll(r) PROVE Advances
    <3>1. rows[r].version >= dataset.version /\ rows[r].day >= dataset.day
      BY <2>2 DEF ReplaceAll, SInv, NewerInv
    <3>2. dataset' \in {dataset, rows[r]}
      BY <2>2 DEF ReplaceAll
    <3>3. QED
      BY <2>a, <3>1, <3>2
  <2>3. QED
    BY <2>1, <2>2 DEF Next, RefreshStep, AcquireRefreshLock, MarkAttempt, FetchCurrentLoanPositions,
       AuditSuccess, MarkFailure, Release, CancelContext, Crash, ReapConnection, DropConnection,
       ReportChanges, Midnight, vars
<1>2. QED
  BY <1>1, SnapshotInvariance, PTL DEF Spec, NoRegress
=============================================================================
