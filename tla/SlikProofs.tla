------------------------------ MODULE SlikProofs -----------------------------
(***************************************************************************)
(* Proofs about SlikManager, for every number of instances, jobs, accounts *)
(* and faults: types, the other parts of the inductive invariant, safety,  *)
(* and the refinement of the abstract job lifecycle.                       *)
(***************************************************************************)
EXTENDS SlikManager, FiniteSetTheorems, TLAPS

-----------------------------------------------------------------------------
(***************************************************************************)
(* Facts about the finite sets of accounts that the pool handles.          *)
(***************************************************************************)

\* The accounts held by the workers of run(), and any set of checkpoints that
\* Save builds, are finite, and adding or removing one account changes their
\* number by one.
LEMMA AccountSets ==
    ASSUME NEW S \in SUBSET Accounts, NEW a \in Accounts
    PROVE  /\ IsFiniteSet(S) /\ Cardinality(S) \in Nat
           /\ a \notin S => Cardinality(S \cup {a}) = Cardinality(S) + 1
           /\ a \in S => Cardinality(S \ {a}) = Cardinality(S) - 1 /\ Cardinality(S) > 0
<1>1. IsFiniteSet(S)
  BY AccountsAssumption, FS_Subset
<1>2. Cardinality(S) \in Nat
  BY <1>1, FS_CardinalityType
<1>3. a \notin S => Cardinality(S \cup {a}) = Cardinality(S) + 1
  BY <1>1, FS_AddElement
<1>4. a \in S => Cardinality(S \ {a}) = Cardinality(S) - 1
  BY <1>1, FS_RemoveElement
<1>5. a \in S => Cardinality(S) > 0
  <2>1. a \in S => S # {}
    OBVIOUS
  <2>2. Cardinality(S) = 0 <=> S = {}
    BY <1>1, FS_EmptySet
  <2>3. QED
    BY <1>2, <2>1, <2>2
<1>6. QED
  BY <1>1, <1>2, <1>3, <1>4, <1>5

\* Handing an account to a worker adds at most one to the busy ones.
LEMMA AddAccount ==
    ASSUME NEW S \in SUBSET Accounts, NEW a \in Accounts
    PROVE  Cardinality(S \cup {a}) \in Nat /\ Cardinality(S \cup {a}) <= Cardinality(S) + 1
<1>1. Cardinality(S) \in Nat
  BY AccountSets
<1>2. CASE a \in S
  <2>1. S \cup {a} = S
    BY <1>2
  <2>2. Cardinality(S \cup {a}) = Cardinality(S)
    BY <2>1
  <2>3. QED
    BY <1>1, <2>2
<1>3. CASE a \notin S
  <2>1. Cardinality(S \cup {a}) = Cardinality(S) + 1
    BY <1>3, AccountSets
  <2>2. QED
    BY <1>1, <2>1
<1>4. QED
  BY <1>2, <1>3

-----------------------------------------------------------------------------
(***************************************************************************)
(* Types, together with the pool's bookkeeping they depend on.             *)
(***************************************************************************)
TypeInv == TypeOK /\ HasJob /\ PoolInv

\* A worker of run() that holds an account is one of the live ones, so its
\* return leaves a non-negative number of them.
LEMMA BusyWorker ==
    ASSUME TypeOK, PoolInv, NEW i \in Instances, NEW a \in inflight[i]
    PROVE  /\ a \in Accounts /\ alive[i] > 0
           /\ Cardinality(inflight[i] \ {a}) <= alive[i] - 1
<1>1. inflight[i] \in SUBSET Accounts /\ a \in Accounts /\ alive[i] \in Nat
  BY ConcurrencyAssumption DEF TypeOK
<1>2. /\ Cardinality(inflight[i]) \in Nat /\ Cardinality(inflight[i]) > 0
      /\ Cardinality(inflight[i] \ {a}) = Cardinality(inflight[i]) - 1
  BY <1>1, AccountSets
<1>3. Cardinality(inflight[i]) <= alive[i]
  BY DEF PoolInv
<1>4. QED
  BY <1>1, <1>2, <1>3

\* Every action of internal/slik/manager.go preserves the types.
LEMMA TypeStep == TypeInv /\ [Next]_vars => TypeOK'
<1> SUFFICES ASSUME TypeOK, HasJob, PoolInv, [Next]_vars PROVE TypeOK'
  BY DEF TypeInv
<1> USE FaultsAssumption, JobsAssumption, AccountsAssumption, BadAccountsAssumption, ConcurrencyAssumption
    DEF TypeOK, Goto, Fault, NoFault, dbVars, diskVars, runVars, poolVars, NoJob,
        Statuses, Points, LockPoints, RunPoints, PoolPoints
<1>1. ASSUME NEW i \in Instances, AcquireLock(i) PROVE TypeOK'
  BY <1>1 DEF AcquireLock
<1>2. ASSUME NEW i \in Instances, Recover(i) PROVE TypeOK'
  BY <1>2 DEF Recover, RecoverJobs
<1>3. ASSUME NEW i \in Instances, ClaimSelect(i) PROVE TypeOK'
  BY <1>3 DEF ClaimSelect
<1>4. ASSUME NEW i \in Instances, ClaimUpdate(i) PROVE TypeOK'
  BY <1>4 DEF ClaimUpdate, BeginRun
<1>5. ASSUME NEW i \in Instances, Release(i) PROVE TypeOK'
  BY <1>5 DEF Release, ForgetRun
<1>6. ASSUME NEW i \in Instances, Tick(i) PROVE TypeOK'
  BY <1>6 DEF Tick
<1>7. ASSUME NEW i \in Instances, LoopExit(i) PROVE TypeOK'
  BY <1>7 DEF LoopExit
<1>8. ASSUME NEW i \in Instances, RemoveStaleOutput(i) PROVE TypeOK'
  <2>1. outDisk' \in [Jobs -> BOOLEAN]
    BY <1>8 DEF RemoveStaleOutput
  <2>2. QED
    BY <1>8, <2>1 DEF RemoveStaleOutput
<1>9. ASSUME NEW i \in Instances, FirstCheck(i) PROVE TypeOK'
  BY <1>9 DEF FirstCheck, Canceled
<1>10. ASSUME NEW i \in Instances, FetchPage(i) PROVE TypeOK'
  <2>1. failed' \in [Instances -> BOOLEAN] /\ ctx' \in [Instances -> BOOLEAN]
    BY <1>10 DEF FetchPage, Fail
  <2>2. FirstPage(Unprocessed(job[i], after[i])) \in SUBSET Accounts
    BY DEF FirstPage, Unprocessed
  <2>3. page' \in [Instances -> SUBSET Accounts]
    BY <1>10, <2>2 DEF FetchPage
  <2>4. QED
    BY <1>10, <2>1, <2>3 DEF FetchPage
<1>11. ASSUME NEW i \in Instances, Dispatch(i) PROVE TypeOK'
  BY <1>11 DEF Dispatch
<1>12. ASSUME NEW i \in Instances, ProducerStop(i) PROVE TypeOK'
  BY <1>12 DEF ProducerStop
<1>13. ASSUME NEW i \in Instances, AfterPool(i) PROVE TypeOK'
  BY <1>13 DEF AfterPool
<1>14. ASSUME NEW i \in Instances, CancelCheck(i) PROVE TypeOK'
  BY <1>14 DEF CancelCheck, Canceled
<1>15. ASSUME NEW i \in Instances, FailureCheck(i) PROVE TypeOK'
  BY <1>15 DEF FailureCheck
<1>16. ASSUME NEW i \in Instances, CheckComplete(i) PROVE TypeOK'
  BY <1>16 DEF CheckComplete
<1>17. ASSUME NEW i \in Instances, InspectInput(i) PROVE TypeOK'
  BY <1>17 DEF InspectInput
<1>18. ASSUME NEW i \in Instances, Results(i) PROVE TypeOK'
  BY <1>18 DEF Results
<1>19. ASSUME NEW i \in Instances, Patch(i) PROVE TypeOK'
  <2>1. outDisk' \in [Jobs -> BOOLEAN]
    BY <1>19 DEF Patch
  <2>2. QED
    BY <1>19, <2>1 DEF Patch
<1>20. ASSUME NEW i \in Instances, PatchedCheck(i) PROVE TypeOK'
  BY <1>20 DEF PatchedCheck, Canceled
<1>21. ASSUME NEW i \in Instances, Finish(i) PROVE TypeOK'
  <2>1. outputFile' \in [Jobs -> BOOLEAN]
    BY <1>21 DEF Finish, TerminalUpdate, FinishError
  <2>2. expired' \in [Jobs -> BOOLEAN]
    BY <1>21 DEF Finish, TerminalUpdate, FinishError
  <2>3. QED
    BY <1>21, <2>1, <2>2 DEF Finish, TerminalUpdate, FinishError
<1>22. ASSUME NEW i \in Instances, Discard(i) PROVE TypeOK'
  <2>1. outDisk' \in [Jobs -> BOOLEAN]
    BY <1>22 DEF Discard
  <2>2. QED
    BY <1>22, <2>1 DEF Discard
<1>23. ASSUME NEW i \in Instances, AppendAudit(i) PROVE TypeOK'
  BY <1>23 DEF AppendAudit
<1>24. ASSUME NEW i \in Instances, ClearFiles(i) PROVE TypeOK'
  <2>1. inputFile' \in [Jobs -> BOOLEAN]
    BY <1>24 DEF ClearFiles
  <2>2. outputFile' \in [Jobs -> BOOLEAN]
    BY <1>24 DEF ClearFiles
  <2>3. QED
    BY <1>24, <2>1, <2>2 DEF ClearFiles
<1>25. ASSUME NEW i \in Instances, Heartbeat(i) PROVE TypeOK'
  BY <1>25 DEF Heartbeat
<1>26. ASSUME NEW i \in Instances, ContextCanceled(i) PROVE TypeOK'
  BY <1>26 DEF ContextCanceled, Running, Ended
<1>27. ASSUME NEW i \in Instances, Close(i) PROVE TypeOK'
  BY <1>27 DEF Close, Running
<1>28. ASSUME NEW i \in Instances, Crash(i) PROVE TypeOK'
  BY <1>28 DEF Crash, ForgetRun
<1>29. ASSUME NEW i \in Instances, Restart(i) PROVE TypeOK'
  BY <1>29 DEF Restart
<1>30. ASSUME NEW i \in Instances, ReapConnection(i) PROVE TypeOK'
  BY <1>30 DEF ReapConnection
<1>31. ASSUME NEW i \in Instances, DropConnection(i) PROVE TypeOK'
  BY <1>31 DEF DropConnection
<1>32. ASSUME NEW i \in Instances, NEW a \in Accounts, WorkerInterrupted(i, a) PROVE TypeOK'
  <2>1. alive[i] > 0
    BY <1>32, BusyWorker DEF WorkerInterrupted
  <2>2. QED
    BY <1>32, <2>1 DEF WorkerInterrupted, WorkerReturns
<1>33. ASSUME NEW i \in Instances, NEW a \in Accounts, LookupFails(i, a) PROVE TypeOK'
  <2>1. alive[i] > 0
    BY <1>33, BusyWorker DEF LookupFails
  <2>2. failed' \in [Instances -> BOOLEAN] /\ ctx' \in [Instances -> BOOLEAN]
    BY <1>33 DEF LookupFails, Fail, WorkerReturns
  <2>3. alive' \in [Instances -> 0..Concurrency] /\ inflight' \in [Instances -> SUBSET Accounts]
    BY <1>33, <2>1 DEF LookupFails, Fail, WorkerReturns
  <2>4. QED
    BY <1>33, <2>2, <2>3 DEF LookupFails, Fail, WorkerReturns
<1>34. ASSUME NEW i \in Instances, NEW a \in Accounts, Save(i, a) PROVE TypeOK'
  <2>1. alive[i] > 0
    BY <1>34, BusyWorker DEF Save
  <2>2. failed' \in [Instances -> BOOLEAN] /\ ctx' \in [Instances -> BOOLEAN]
    BY <1>34 DEF Save, Fail, WorkerReturns, Checkpoint
  <2>3. alive' \in [Instances -> 0..Concurrency] /\ inflight' \in [Instances -> SUBSET Accounts]
    BY <1>34, <2>1 DEF Save, Fail, WorkerReturns, Checkpoint
  <2>4. QED
    BY <1>34, <2>2, <2>3 DEF Save, Fail, WorkerReturns, Checkpoint
<1>35. ASSUME NEW i \in Instances, NEW j \in Jobs, UploadInput(i, j) PROVE TypeOK'
  BY <1>35 DEF UploadInput
<1>36. ASSUME NEW i \in Instances, NEW j \in Jobs, Submit(i, j) PROVE TypeOK'
  <2>1. inputFile' \in [Jobs -> BOOLEAN]
    BY <1>36 DEF Submit, Create
  <2>2. inDisk' \in [Jobs -> BOOLEAN]
    BY <1>36 DEF Submit, Create
  <2>3. QED
    BY <1>36, <2>1, <2>2 DEF Submit, Create
<1>37. ASSUME NEW i \in Instances, NEW j \in Jobs, CleanupRemove(i, j) PROVE TypeOK'
  <2>1. inDisk' \in [Jobs -> BOOLEAN]
    BY <1>37 DEF CleanupRemove
  <2>2. outDisk' \in [Jobs -> BOOLEAN]
    BY <1>37 DEF CleanupRemove
  <2>3. faults' \in [count : 0..MaxFaults, kinds : SUBSET FaultKinds]
    BY <1>37 DEF CleanupRemove
  <2>4. pc' \in [Instances -> Points]
    <3>1. pc' \in {pc, [pc EXCEPT ![i] = "clear"]}
      BY <1>37 DEF CleanupRemove
    <3>2. QED
      BY <3>1
  <2>5. job' \in [Instances -> Jobs \cup {NoJob}]
    <3>1. job' \in {job, [job EXCEPT ![i] = j]}
      BY <1>37 DEF CleanupRemove
    <3>2. QED
      BY <3>1
  <2>6. UNCHANGED <<dbVars, lockOwner, upload, runVars, poolVars>>
    BY <1>37 DEF CleanupRemove
  <2>7. QED
    BY <2>1, <2>2, <2>3, <2>4, <2>5, <2>6
<1>38. ASSUME NEW j \in Jobs, Cancel(j) PROVE TypeOK'
  BY <1>38 DEF Cancel
<1>39. ASSUME NEW j \in Jobs, Expire(j) PROVE TypeOK'
  BY <1>39 DEF Expire, Runs, Running
<1>40. CASE UNCHANGED vars
  BY <1>40 DEF vars
<1>41. QED
  BY <1>1, <1>2, <1>3, <1>4, <1>5, <1>6, <1>7, <1>8, <1>9, <1>10, <1>11, <1>12, <1>13, <1>14, <1>15, <1>16, <1>17, <1>18, <1>19, <1>20, <1>21, <1>22, <1>23, <1>24, <1>25, <1>26, <1>27, <1>28, <1>29, <1>30, <1>31, <1>32, <1>33, <1>34, <1>35, <1>36, <1>37, <1>38, <1>39, <1>40
  DEF Next, LoopStep, WorkerStep, RequestStep, Environment

\* Whoever is between claiming and auditing a job has its identifier.
LEMMA HasJobStep == TypeInv /\ [Next]_vars => HasJob'
<1> SUFFICES ASSUME TypeOK, HasJob, PoolInv, [Next]_vars PROVE HasJob'
  BY DEF TypeInv
<1> USE DEF TypeOK, HasJob, Goto, Fault, NoFault, dbVars, diskVars, runVars, poolVars,
        RunPoints, PoolPoints
<1>1. ASSUME NEW i \in Instances, AcquireLock(i) PROVE HasJob'
  BY <1>1 DEF AcquireLock
<1>2. ASSUME NEW i \in Instances, Recover(i) PROVE HasJob'
  BY <1>2 DEF Recover, RecoverJobs
<1>3. ASSUME NEW i \in Instances, ClaimSelect(i) PROVE HasJob'
  BY <1>3 DEF ClaimSelect
<1>4. ASSUME NEW i \in Instances, ClaimUpdate(i) PROVE HasJob'
  BY <1>4 DEF ClaimUpdate, BeginRun
<1>5. ASSUME NEW i \in Instances, Release(i) PROVE HasJob'
  BY <1>5 DEF Release, ForgetRun
<1>6. ASSUME NEW i \in Instances, Tick(i) PROVE HasJob'
  BY <1>6 DEF Tick
<1>7. ASSUME NEW i \in Instances, LoopExit(i) PROVE HasJob'
  BY <1>7 DEF LoopExit
<1>8. ASSUME NEW i \in Instances, RemoveStaleOutput(i) PROVE HasJob'
  BY <1>8 DEF RemoveStaleOutput
<1>9. ASSUME NEW i \in Instances, FirstCheck(i) PROVE HasJob'
  BY <1>9 DEF FirstCheck, Canceled
<1>10. ASSUME NEW i \in Instances, FetchPage(i) PROVE HasJob'
  BY <1>10 DEF FetchPage, Fail, FirstPage, Unprocessed
<1>11. ASSUME NEW i \in Instances, Dispatch(i) PROVE HasJob'
  BY <1>11 DEF Dispatch
<1>12. ASSUME NEW i \in Instances, ProducerStop(i) PROVE HasJob'
  BY <1>12 DEF ProducerStop
<1>13. ASSUME NEW i \in Instances, AfterPool(i) PROVE HasJob'
  BY <1>13 DEF AfterPool
<1>14. ASSUME NEW i \in Instances, CancelCheck(i) PROVE HasJob'
  BY <1>14 DEF CancelCheck, Canceled
<1>15. ASSUME NEW i \in Instances, FailureCheck(i) PROVE HasJob'
  BY <1>15 DEF FailureCheck
<1>16. ASSUME NEW i \in Instances, CheckComplete(i) PROVE HasJob'
  BY <1>16 DEF CheckComplete
<1>17. ASSUME NEW i \in Instances, InspectInput(i) PROVE HasJob'
  BY <1>17 DEF InspectInput
<1>18. ASSUME NEW i \in Instances, Results(i) PROVE HasJob'
  BY <1>18 DEF Results
<1>19. ASSUME NEW i \in Instances, Patch(i) PROVE HasJob'
  BY <1>19 DEF Patch
<1>20. ASSUME NEW i \in Instances, PatchedCheck(i) PROVE HasJob'
  BY <1>20 DEF PatchedCheck, Canceled
<1>21. ASSUME NEW i \in Instances, Finish(i) PROVE HasJob'
  BY <1>21 DEF Finish, TerminalUpdate, FinishError
<1>22. ASSUME NEW i \in Instances, Discard(i) PROVE HasJob'
  BY <1>22 DEF Discard
<1>23. ASSUME NEW i \in Instances, AppendAudit(i) PROVE HasJob'
  BY <1>23 DEF AppendAudit
<1>24. ASSUME NEW i \in Instances, ClearFiles(i) PROVE HasJob'
  BY <1>24 DEF ClearFiles
<1>25. ASSUME NEW i \in Instances, Heartbeat(i) PROVE HasJob'
  BY <1>25 DEF Heartbeat
<1>26. ASSUME NEW i \in Instances, ContextCanceled(i) PROVE HasJob'
  BY <1>26 DEF ContextCanceled, Running, Ended
<1>27. ASSUME NEW i \in Instances, Close(i) PROVE HasJob'
  BY <1>27 DEF Close, Running
<1>28. ASSUME NEW i \in Instances, Crash(i) PROVE HasJob'
  BY <1>28 DEF Crash, ForgetRun
<1>29. ASSUME NEW i \in Instances, Restart(i) PROVE HasJob'
  BY <1>29 DEF Restart
<1>30. ASSUME NEW i \in Instances, ReapConnection(i) PROVE HasJob'
  BY <1>30 DEF ReapConnection
<1>31. ASSUME NEW i \in Instances, DropConnection(i) PROVE HasJob'
  BY <1>31 DEF DropConnection
<1>32. ASSUME NEW i \in Instances, NEW a \in Accounts, WorkerInterrupted(i, a) PROVE HasJob'
  BY <1>32 DEF WorkerInterrupted, WorkerReturns
<1>33. ASSUME NEW i \in Instances, NEW a \in Accounts, LookupFails(i, a) PROVE HasJob'
  BY <1>33 DEF LookupFails, Fail, WorkerReturns
<1>34. ASSUME NEW i \in Instances, NEW a \in Accounts, Save(i, a) PROVE HasJob'
  BY <1>34 DEF Save, Fail, WorkerReturns, Checkpoint
<1>35. ASSUME NEW i \in Instances, NEW j \in Jobs, UploadInput(i, j) PROVE HasJob'
  BY <1>35 DEF UploadInput
<1>36. ASSUME NEW i \in Instances, NEW j \in Jobs, Submit(i, j) PROVE HasJob'
  BY <1>36 DEF Submit, Create
<1>37. ASSUME NEW i \in Instances, NEW j \in Jobs, CleanupRemove(i, j) PROVE HasJob'
  BY <1>37 DEF CleanupRemove, Expired
<1>38. ASSUME NEW j \in Jobs, Cancel(j) PROVE HasJob'
  BY <1>38 DEF Cancel
<1>39. ASSUME NEW j \in Jobs, Expire(j) PROVE HasJob'
  BY <1>39 DEF Expire, Runs, Running
<1>40. CASE UNCHANGED vars
  BY <1>40 DEF vars
<1>41. QED
  BY <1>1, <1>2, <1>3, <1>4, <1>5, <1>6, <1>7, <1>8, <1>9, <1>10, <1>11, <1>12, <1>13, <1>14, <1>15, <1>16, <1>17, <1>18, <1>19, <1>20, <1>21, <1>22, <1>23, <1>24, <1>25, <1>26, <1>27, <1>28, <1>29, <1>30, <1>31, <1>32, <1>33, <1>34, <1>35, <1>36, <1>37, <1>38, <1>39, <1>40
  DEF Next, LoopStep, WorkerStep, RequestStep, Environment

\* The pool's bookkeeping: a worker holds at most one account, and a worker
\* that returned early canceled the context or found it canceled.
LEMMA PoolStep == TypeInv /\ [Next]_vars => PoolInv'
<1> SUFFICES ASSUME TypeOK, HasJob, PoolInv, [Next]_vars PROVE PoolInv'
  BY DEF TypeInv
<1> USE ConcurrencyAssumption
    DEF TypeOK, PoolInv, Goto, Fault, NoFault, dbVars, diskVars, runVars, poolVars, PoolPoints
<1>1. ASSUME NEW i \in Instances, AcquireLock(i) PROVE PoolInv'
  BY <1>1 DEF AcquireLock
<1>2. ASSUME NEW i \in Instances, Recover(i) PROVE PoolInv'
  BY <1>2 DEF Recover, RecoverJobs
<1>3. ASSUME NEW i \in Instances, ClaimSelect(i) PROVE PoolInv'
  BY <1>3 DEF ClaimSelect
<1>4. ASSUME NEW i \in Instances, ClaimUpdate(i) PROVE PoolInv'
  BY <1>4 DEF ClaimUpdate, BeginRun
<1>5. ASSUME NEW i \in Instances, Release(i) PROVE PoolInv'
  <2>1. Cardinality({}) = 0
    BY FS_EmptySet
  <2>2. QED
    BY <1>5, <2>1 DEF Release, ForgetRun
<1>6. ASSUME NEW i \in Instances, Tick(i) PROVE PoolInv'
  BY <1>6 DEF Tick
<1>7. ASSUME NEW i \in Instances, LoopExit(i) PROVE PoolInv'
  BY <1>7 DEF LoopExit
<1>8. ASSUME NEW i \in Instances, RemoveStaleOutput(i) PROVE PoolInv'
  BY <1>8 DEF RemoveStaleOutput
<1>9. ASSUME NEW i \in Instances, FirstCheck(i) PROVE PoolInv'
  <2>1. Cardinality({}) = 0
    BY FS_EmptySet
  <2>2. inflight[i] = {}
    BY <1>9 DEF FirstCheck
  <2>3. Cardinality(inflight'[i]) = 0 /\ inflight' = inflight
    BY <1>9, <2>1, <2>2 DEF FirstCheck
  <2>4. alive' = alive \/ alive' = [alive EXCEPT ![i] = Concurrency]
    BY <1>9 DEF FirstCheck
  <2>5. QED
    BY <1>9, <2>2, <2>3, <2>4 DEF FirstCheck
<1>10. ASSUME NEW i \in Instances, FetchPage(i) PROVE PoolInv'
  BY <1>10 DEF FetchPage, Fail, FirstPage, Unprocessed
<1>11. ASSUME NEW i \in Instances, Dispatch(i) PROVE PoolInv'
  <2>1. PICK a \in page[i] : inflight' = [inflight EXCEPT ![i] = @ \cup {a}]
    BY <1>11 DEF Dispatch
  <2>2. a \in Accounts /\ inflight[i] \in SUBSET Accounts
    OBVIOUS
  <2>3. Cardinality(inflight[i]) \in Nat /\ Cardinality(inflight[i]) < alive[i]
    BY <1>11, <2>2, AccountSets DEF Dispatch
  <2>4. /\ Cardinality(inflight[i] \cup {a}) \in Nat
        /\ Cardinality(inflight[i] \cup {a}) <= Cardinality(inflight[i]) + 1
    BY <2>2, AddAccount
  <2>5. Cardinality(inflight'[i]) <= alive'[i]
    <3>1. inflight'[i] = inflight[i] \cup {a} /\ alive'[i] = alive[i]
      BY <1>11, <2>1 DEF Dispatch
    <3>2. QED
      BY <2>3, <2>4, <3>1
  <2>6. QED
    BY <1>11, <2>1, <2>5 DEF Dispatch
<1>12. ASSUME NEW i \in Instances, ProducerStop(i) PROVE PoolInv'
  BY <1>12 DEF ProducerStop
<1>13. ASSUME NEW i \in Instances, AfterPool(i) PROVE PoolInv'
  BY <1>13 DEF AfterPool
<1>14. ASSUME NEW i \in Instances, CancelCheck(i) PROVE PoolInv'
  BY <1>14 DEF CancelCheck, Canceled
<1>15. ASSUME NEW i \in Instances, FailureCheck(i) PROVE PoolInv'
  BY <1>15 DEF FailureCheck
<1>16. ASSUME NEW i \in Instances, CheckComplete(i) PROVE PoolInv'
  BY <1>16 DEF CheckComplete
<1>17. ASSUME NEW i \in Instances, InspectInput(i) PROVE PoolInv'
  BY <1>17 DEF InspectInput
<1>18. ASSUME NEW i \in Instances, Results(i) PROVE PoolInv'
  BY <1>18 DEF Results
<1>19. ASSUME NEW i \in Instances, Patch(i) PROVE PoolInv'
  BY <1>19 DEF Patch
<1>20. ASSUME NEW i \in Instances, PatchedCheck(i) PROVE PoolInv'
  BY <1>20 DEF PatchedCheck, Canceled
<1>21. ASSUME NEW i \in Instances, Finish(i) PROVE PoolInv'
  BY <1>21 DEF Finish, TerminalUpdate, FinishError
<1>22. ASSUME NEW i \in Instances, Discard(i) PROVE PoolInv'
  BY <1>22 DEF Discard
<1>23. ASSUME NEW i \in Instances, AppendAudit(i) PROVE PoolInv'
  BY <1>23 DEF AppendAudit
<1>24. ASSUME NEW i \in Instances, ClearFiles(i) PROVE PoolInv'
  BY <1>24 DEF ClearFiles
<1>25. ASSUME NEW i \in Instances, Heartbeat(i) PROVE PoolInv'
  BY <1>25 DEF Heartbeat
<1>26. ASSUME NEW i \in Instances, ContextCanceled(i) PROVE PoolInv'
  BY <1>26 DEF ContextCanceled, Running, Ended
<1>27. ASSUME NEW i \in Instances, Close(i) PROVE PoolInv'
  BY <1>27 DEF Close, Running, RunPoints
<1>28. ASSUME NEW i \in Instances, Crash(i) PROVE PoolInv'
  <2>1. Cardinality({}) = 0
    BY FS_EmptySet
  <2>2. QED
    BY <1>28, <2>1 DEF Crash, ForgetRun
<1>29. ASSUME NEW i \in Instances, Restart(i) PROVE PoolInv'
  BY <1>29 DEF Restart
<1>30. ASSUME NEW i \in Instances, ReapConnection(i) PROVE PoolInv'
  BY <1>30 DEF ReapConnection
<1>31. ASSUME NEW i \in Instances, DropConnection(i) PROVE PoolInv'
  BY <1>31 DEF DropConnection
<1>32. ASSUME NEW i \in Instances, NEW a \in Accounts, WorkerInterrupted(i, a) PROVE PoolInv'
  <2>1. alive[i] > 0 /\ Cardinality(inflight[i] \ {a}) <= alive[i] - 1
    BY <1>32, BusyWorker DEF WorkerInterrupted
  <2>2. inflight'[i] = inflight[i] \ {a} /\ alive'[i] = alive[i] - 1 /\ ctx'[i] = TRUE
    BY <1>32 DEF WorkerInterrupted, WorkerReturns
  <2>3. QED
    BY <1>32, <2>1, <2>2 DEF WorkerInterrupted, WorkerReturns
<1>33. ASSUME NEW i \in Instances, NEW a \in Accounts, LookupFails(i, a) PROVE PoolInv'
  <2>1. alive[i] > 0 /\ Cardinality(inflight[i] \ {a}) <= alive[i] - 1
    BY <1>33, BusyWorker DEF LookupFails
  <2>2. inflight'[i] = inflight[i] \ {a} /\ alive'[i] = alive[i] - 1 /\ ctx'[i] = TRUE
    BY <1>33 DEF LookupFails, Fail, WorkerReturns
  <2>3. QED
    BY <1>33, <2>1, <2>2 DEF LookupFails, Fail, WorkerReturns
<1>34. ASSUME NEW i \in Instances, NEW a \in Accounts, Save(i, a) PROVE PoolInv'
  <2>1. alive[i] > 0 /\ Cardinality(inflight[i] \ {a}) <= alive[i] - 1
    BY <1>34, BusyWorker DEF Save
  <2>2. CASE Fail(i) /\ WorkerReturns(i, a)
    <3>1. inflight'[i] = inflight[i] \ {a} /\ alive'[i] = alive[i] - 1 /\ ctx'[i] = TRUE
      BY <2>2 DEF Fail, WorkerReturns
    <3>2. QED
      BY <1>34, <2>1, <2>2, <3>1 DEF Save, Fail, WorkerReturns
  <2>3. CASE /\ inflight' = [inflight EXCEPT ![i] = @ \ {a}]
             /\ UNCHANGED <<after, page, alive, ctx, failed>>
    <3>1. Cardinality(inflight'[i]) <= alive'[i]
      <4>1. Cardinality(inflight[i] \ {a}) \in Nat
        BY AccountSets
      <4>2. inflight'[i] = inflight[i] \ {a} /\ alive'[i] = alive[i]
        BY <2>3
      <4>3. QED
        BY <2>1, <4>1, <4>2
    <3>2. QED
      BY <1>34, <2>1, <2>3, <3>1 DEF Save
  <2>4. QED
    BY <1>34, <2>2, <2>3 DEF Save
<1>35. ASSUME NEW i \in Instances, NEW j \in Jobs, UploadInput(i, j) PROVE PoolInv'
  BY <1>35 DEF UploadInput
<1>36. ASSUME NEW i \in Instances, NEW j \in Jobs, Submit(i, j) PROVE PoolInv'
  BY <1>36 DEF Submit, Create
<1>37. ASSUME NEW i \in Instances, NEW j \in Jobs, CleanupRemove(i, j) PROVE PoolInv'
  BY <1>37 DEF CleanupRemove, Expired
<1>38. ASSUME NEW j \in Jobs, Cancel(j) PROVE PoolInv'
  BY <1>38 DEF Cancel
<1>39. ASSUME NEW j \in Jobs, Expire(j) PROVE PoolInv'
  BY <1>39 DEF Expire, Runs, Running
<1>40. CASE UNCHANGED vars
  BY <1>40 DEF vars
<1>41. QED
  BY <1>1, <1>2, <1>3, <1>4, <1>5, <1>6, <1>7, <1>8, <1>9, <1>10, <1>11, <1>12, <1>13, <1>14, <1>15, <1>16, <1>17, <1>18, <1>19, <1>20, <1>21, <1>22, <1>23, <1>24, <1>25, <1>26, <1>27, <1>28, <1>29, <1>30, <1>31, <1>32, <1>33, <1>34, <1>35, <1>36, <1>37, <1>38, <1>39, <1>40
  DEF Next, LoopStep, WorkerStep, RequestStep, Environment

\* From CheckComplete on, run() knows that every account is checkpointed.
LEMMA CheckedStep == TypeInv /\ CheckedInv /\ [Next]_vars => CheckedInv'
<1> SUFFICES ASSUME TypeInv, CheckedInv, [Next]_vars PROVE CheckedInv'
  OBVIOUS
<1> USE DEF CheckedInv, RunPoints, Goto, Fault, NoFault, dbVars, diskVars, runVars, poolVars
<1>a. /\ pc \in [Instances -> Points] /\ job \in [Instances -> Jobs \cup {NoJob}]
      /\ done \in [Jobs -> SUBSET Accounts] /\ verdict \in [Instances -> {"COMPLETED", "FAILED"}]
      /\ \A k \in Instances : pc[k] \in {"claiming", "clear"} \cup RunPoints => job[k] \in Jobs
  BY DEF TypeInv, TypeOK, HasJob
<1>1. ASSUME NEW i \in Instances, AcquireLock(i) PROVE CheckedInv'
  BY <1>1, <1>a DEF AcquireLock
<1>2. ASSUME NEW i \in Instances, Recover(i) PROVE CheckedInv'
  BY <1>2, <1>a DEF Recover, RecoverJobs
<1>3. ASSUME NEW i \in Instances, ClaimSelect(i) PROVE CheckedInv'
  BY <1>3, <1>a DEF ClaimSelect
<1>4. ASSUME NEW i \in Instances, ClaimUpdate(i) PROVE CheckedInv'
  BY <1>4, <1>a DEF ClaimUpdate, BeginRun
<1>5. ASSUME NEW i \in Instances, Release(i) PROVE CheckedInv'
  BY <1>5, <1>a DEF Release, ForgetRun
<1>6. ASSUME NEW i \in Instances, Tick(i) PROVE CheckedInv'
  BY <1>6, <1>a DEF Tick
<1>7. ASSUME NEW i \in Instances, LoopExit(i) PROVE CheckedInv'
  BY <1>7, <1>a DEF LoopExit
<1>8. ASSUME NEW i \in Instances, RemoveStaleOutput(i) PROVE CheckedInv'
  BY <1>8, <1>a DEF RemoveStaleOutput
<1>9. ASSUME NEW i \in Instances, FirstCheck(i) PROVE CheckedInv'
  BY <1>9, <1>a DEF FirstCheck, Canceled
<1>10. ASSUME NEW i \in Instances, FetchPage(i) PROVE CheckedInv'
  BY <1>10, <1>a DEF FetchPage, Fail, FirstPage, Unprocessed
<1>11. ASSUME NEW i \in Instances, Dispatch(i) PROVE CheckedInv'
  BY <1>11, <1>a DEF Dispatch
<1>12. ASSUME NEW i \in Instances, ProducerStop(i) PROVE CheckedInv'
  BY <1>12, <1>a DEF ProducerStop
<1>13. ASSUME NEW i \in Instances, AfterPool(i) PROVE CheckedInv'
  BY <1>13, <1>a DEF AfterPool
<1>14. ASSUME NEW i \in Instances, CancelCheck(i) PROVE CheckedInv'
  BY <1>14, <1>a DEF CancelCheck, Canceled
<1>15. ASSUME NEW i \in Instances, FailureCheck(i) PROVE CheckedInv'
  BY <1>15, <1>a DEF FailureCheck
<1>16. ASSUME NEW i \in Instances, CheckComplete(i) PROVE CheckedInv'
  BY <1>16, <1>a DEF CheckComplete
<1>17. ASSUME NEW i \in Instances, InspectInput(i) PROVE CheckedInv'
  BY <1>17, <1>a DEF InspectInput
<1>18. ASSUME NEW i \in Instances, Results(i) PROVE CheckedInv'
  BY <1>18, <1>a DEF Results
<1>19. ASSUME NEW i \in Instances, Patch(i) PROVE CheckedInv'
  BY <1>19, <1>a DEF Patch
<1>20. ASSUME NEW i \in Instances, PatchedCheck(i) PROVE CheckedInv'
  BY <1>20, <1>a DEF PatchedCheck, Canceled
<1>21. ASSUME NEW i \in Instances, Finish(i) PROVE CheckedInv'
  BY <1>21, <1>a DEF Finish, TerminalUpdate, FinishError
<1>22. ASSUME NEW i \in Instances, Discard(i) PROVE CheckedInv'
  BY <1>22, <1>a DEF Discard
<1>23. ASSUME NEW i \in Instances, AppendAudit(i) PROVE CheckedInv'
  BY <1>23, <1>a DEF AppendAudit
<1>24. ASSUME NEW i \in Instances, ClearFiles(i) PROVE CheckedInv'
  BY <1>24, <1>a DEF ClearFiles
<1>25. ASSUME NEW i \in Instances, Heartbeat(i) PROVE CheckedInv'
  BY <1>25, <1>a DEF Heartbeat
<1>26. ASSUME NEW i \in Instances, ContextCanceled(i) PROVE CheckedInv'
  BY <1>26, <1>a DEF ContextCanceled, Running, Ended
<1>27. ASSUME NEW i \in Instances, Close(i) PROVE CheckedInv'
  BY <1>27, <1>a DEF Close, Running
<1>28. ASSUME NEW i \in Instances, Crash(i) PROVE CheckedInv'
  BY <1>28, <1>a DEF Crash, ForgetRun
<1>29. ASSUME NEW i \in Instances, Restart(i) PROVE CheckedInv'
  BY <1>29, <1>a DEF Restart
<1>30. ASSUME NEW i \in Instances, ReapConnection(i) PROVE CheckedInv'
  BY <1>30, <1>a DEF ReapConnection
<1>31. ASSUME NEW i \in Instances, DropConnection(i) PROVE CheckedInv'
  BY <1>31, <1>a DEF DropConnection
<1>32. ASSUME NEW i \in Instances, NEW a \in Accounts, WorkerInterrupted(i, a) PROVE CheckedInv'
  BY <1>32, <1>a DEF WorkerInterrupted, WorkerReturns
<1>33. ASSUME NEW i \in Instances, NEW a \in Accounts, LookupFails(i, a) PROVE CheckedInv'
  BY <1>33, <1>a DEF LookupFails, Fail, WorkerReturns
<1>34. ASSUME NEW i \in Instances, NEW a \in Accounts, Save(i, a) PROVE CheckedInv'
  BY <1>34, <1>a DEF Save, Fail, WorkerReturns, Checkpoint
<1>35. ASSUME NEW i \in Instances, NEW j \in Jobs, UploadInput(i, j) PROVE CheckedInv'
  BY <1>35, <1>a DEF UploadInput
<1>36. ASSUME NEW i \in Instances, NEW j \in Jobs, Submit(i, j) PROVE CheckedInv'
  BY <1>36, <1>a DEF Submit, Create
<1>37. ASSUME NEW i \in Instances, NEW j \in Jobs, CleanupRemove(i, j) PROVE CheckedInv'
  BY <1>37, <1>a DEF CleanupRemove, Expired
<1>38. ASSUME NEW j \in Jobs, Cancel(j) PROVE CheckedInv'
  BY <1>38, <1>a DEF Cancel
<1>39. ASSUME NEW j \in Jobs, Expire(j) PROVE CheckedInv'
  BY <1>39, <1>a DEF Expire, Runs, Running
<1>40. CASE UNCHANGED vars
  BY <1>40 DEF vars
<1>41. QED
  BY <1>1, <1>2, <1>3, <1>4, <1>5, <1>6, <1>7, <1>8, <1>9, <1>10, <1>11, <1>12, <1>13, <1>14, <1>15, <1>16, <1>17, <1>18, <1>19, <1>20, <1>21, <1>22, <1>23, <1>24, <1>25, <1>26, <1>27, <1>28, <1>29, <1>30, <1>31, <1>32, <1>33, <1>34, <1>35, <1>36, <1>37, <1>38, <1>39, <1>40
  DEF Next, LoopStep, WorkerStep, RequestStep, Environment

\* Without dropped connections the advisory lock has the owner it is believed
\* to have (repository.go AcquireLock).
LEMMA LockStep == TypeInv /\ LockInv /\ [Next]_vars => LockInv'
<1> SUFFICES ASSUME TypeInv, LockInv, [Next]_vars PROVE LockInv'
  OBVIOUS
<1> USE DEF LockInv, Spared, LockPoints, RunPoints, PoolPoints, Goto, Fault, NoFault, dbVars, diskVars, runVars, poolVars
<1>a. pc \in [Instances -> Points] /\ Nobody \notin Instances
  BY InstancesAssumption DEF TypeInv, TypeOK
<1>1. ASSUME NEW i \in Instances, AcquireLock(i) PROVE LockInv'
  BY <1>1, <1>a DEF AcquireLock
<1>2. ASSUME NEW i \in Instances, Recover(i) PROVE LockInv'
  BY <1>2, <1>a DEF Recover, RecoverJobs
<1>3. ASSUME NEW i \in Instances, ClaimSelect(i) PROVE LockInv'
  BY <1>3, <1>a DEF ClaimSelect
<1>4. ASSUME NEW i \in Instances, ClaimUpdate(i) PROVE LockInv'
  BY <1>4, <1>a DEF ClaimUpdate, BeginRun
<1>5. ASSUME NEW i \in Instances, Release(i) PROVE LockInv'
  BY <1>5, <1>a DEF Release, ForgetRun
<1>6. ASSUME NEW i \in Instances, Tick(i) PROVE LockInv'
  BY <1>6, <1>a DEF Tick
<1>7. ASSUME NEW i \in Instances, LoopExit(i) PROVE LockInv'
  BY <1>7, <1>a DEF LoopExit
<1>8. ASSUME NEW i \in Instances, RemoveStaleOutput(i) PROVE LockInv'
  BY <1>8, <1>a DEF RemoveStaleOutput
<1>9. ASSUME NEW i \in Instances, FirstCheck(i) PROVE LockInv'
  BY <1>9, <1>a DEF FirstCheck, Canceled
<1>10. ASSUME NEW i \in Instances, FetchPage(i) PROVE LockInv'
  BY <1>10, <1>a DEF FetchPage, Fail, FirstPage, Unprocessed
<1>11. ASSUME NEW i \in Instances, Dispatch(i) PROVE LockInv'
  BY <1>11, <1>a DEF Dispatch
<1>12. ASSUME NEW i \in Instances, ProducerStop(i) PROVE LockInv'
  BY <1>12, <1>a DEF ProducerStop
<1>13. ASSUME NEW i \in Instances, AfterPool(i) PROVE LockInv'
  BY <1>13, <1>a DEF AfterPool
<1>14. ASSUME NEW i \in Instances, CancelCheck(i) PROVE LockInv'
  BY <1>14, <1>a DEF CancelCheck, Canceled
<1>15. ASSUME NEW i \in Instances, FailureCheck(i) PROVE LockInv'
  BY <1>15, <1>a DEF FailureCheck
<1>16. ASSUME NEW i \in Instances, CheckComplete(i) PROVE LockInv'
  BY <1>16, <1>a DEF CheckComplete
<1>17. ASSUME NEW i \in Instances, InspectInput(i) PROVE LockInv'
  BY <1>17, <1>a DEF InspectInput
<1>18. ASSUME NEW i \in Instances, Results(i) PROVE LockInv'
  BY <1>18, <1>a DEF Results
<1>19. ASSUME NEW i \in Instances, Patch(i) PROVE LockInv'
  BY <1>19, <1>a DEF Patch
<1>20. ASSUME NEW i \in Instances, PatchedCheck(i) PROVE LockInv'
  BY <1>20, <1>a DEF PatchedCheck, Canceled
<1>21. ASSUME NEW i \in Instances, Finish(i) PROVE LockInv'
  BY <1>21, <1>a DEF Finish, TerminalUpdate, FinishError
<1>22. ASSUME NEW i \in Instances, Discard(i) PROVE LockInv'
  BY <1>22, <1>a DEF Discard
<1>23. ASSUME NEW i \in Instances, AppendAudit(i) PROVE LockInv'
  BY <1>23, <1>a DEF AppendAudit
<1>24. ASSUME NEW i \in Instances, ClearFiles(i) PROVE LockInv'
  BY <1>24, <1>a DEF ClearFiles
<1>25. ASSUME NEW i \in Instances, Heartbeat(i) PROVE LockInv'
  BY <1>25, <1>a DEF Heartbeat
<1>26. ASSUME NEW i \in Instances, ContextCanceled(i) PROVE LockInv'
  BY <1>26, <1>a DEF ContextCanceled, Running, Ended
<1>27. ASSUME NEW i \in Instances, Close(i) PROVE LockInv'
  BY <1>27, <1>a DEF Close, Running
<1>28. ASSUME NEW i \in Instances, Crash(i) PROVE LockInv'
  BY <1>28, <1>a DEF Crash, ForgetRun
<1>29. ASSUME NEW i \in Instances, Restart(i) PROVE LockInv'
  BY <1>29, <1>a DEF Restart
<1>30. ASSUME NEW i \in Instances, ReapConnection(i) PROVE LockInv'
  BY <1>30, <1>a DEF ReapConnection
<1>31. ASSUME NEW i \in Instances, DropConnection(i) PROVE LockInv'
  BY <1>31, <1>a DEF DropConnection
<1>32. ASSUME NEW i \in Instances, NEW a \in Accounts, WorkerInterrupted(i, a) PROVE LockInv'
  BY <1>32, <1>a DEF WorkerInterrupted, WorkerReturns
<1>33. ASSUME NEW i \in Instances, NEW a \in Accounts, LookupFails(i, a) PROVE LockInv'
  BY <1>33, <1>a DEF LookupFails, Fail, WorkerReturns
<1>34. ASSUME NEW i \in Instances, NEW a \in Accounts, Save(i, a) PROVE LockInv'
  BY <1>34, <1>a DEF Save, Fail, WorkerReturns, Checkpoint
<1>35. ASSUME NEW i \in Instances, NEW j \in Jobs, UploadInput(i, j) PROVE LockInv'
  BY <1>35, <1>a DEF UploadInput
<1>36. ASSUME NEW i \in Instances, NEW j \in Jobs, Submit(i, j) PROVE LockInv'
  BY <1>36, <1>a DEF Submit, Create
<1>37. ASSUME NEW i \in Instances, NEW j \in Jobs, CleanupRemove(i, j) PROVE LockInv'
  BY <1>37, <1>a DEF CleanupRemove, Expired
<1>38. ASSUME NEW j \in Jobs, Cancel(j) PROVE LockInv'
  BY <1>38, <1>a DEF Cancel
<1>39. ASSUME NEW j \in Jobs, Expire(j) PROVE LockInv'
  BY <1>39, <1>a DEF Expire, Runs, Running
<1>40. CASE UNCHANGED vars
  BY <1>40 DEF vars
<1>41. QED
  BY <1>1, <1>2, <1>3, <1>4, <1>5, <1>6, <1>7, <1>8, <1>9, <1>10, <1>11, <1>12, <1>13, <1>14, <1>15, <1>16, <1>17, <1>18, <1>19, <1>20, <1>21, <1>22, <1>23, <1>24, <1>25, <1>26, <1>27, <1>28, <1>29, <1>30, <1>31, <1>32, <1>33, <1>34, <1>35, <1>36, <1>37, <1>38, <1>39, <1>40
  DEF Next, LoopStep, WorkerStep, RequestStep, Environment

\* Rows appear once, by the Submit that created them.
LEMMA RowStep == TypeInv /\ RowInv /\ [Next]_vars => RowInv'
<1> SUFFICES ASSUME TypeInv, RowInv, [Next]_vars PROVE RowInv'
  OBVIOUS
<1> USE DEF RowInv, Goto, Fault, NoFault, dbVars, diskVars, runVars, poolVars
<1>a. /\ status \in [Jobs -> Statuses] /\ done \in [Jobs -> SUBSET Accounts] /\ Over \notin Instances
      /\ outputFile \in [Jobs -> BOOLEAN]
      /\ upload \in [Jobs -> Instances \cup {NotYet, Over}] /\ verdict \in [Instances -> {"COMPLETED", "FAILED"}]
  BY InstancesAssumption DEF TypeInv, TypeOK
<1>1. ASSUME NEW i \in Instances, AcquireLock(i) PROVE RowInv'
  BY <1>1, <1>a DEF AcquireLock
<1>2. ASSUME NEW i \in Instances, Recover(i) PROVE RowInv'
  BY <1>2, <1>a DEF Recover, RecoverJobs
<1>3. ASSUME NEW i \in Instances, ClaimSelect(i) PROVE RowInv'
  BY <1>3, <1>a DEF ClaimSelect
<1>4. ASSUME NEW i \in Instances, ClaimUpdate(i) PROVE RowInv'
  BY <1>4, <1>a DEF ClaimUpdate, BeginRun
<1>5. ASSUME NEW i \in Instances, Release(i) PROVE RowInv'
  BY <1>5, <1>a DEF Release, ForgetRun
<1>6. ASSUME NEW i \in Instances, Tick(i) PROVE RowInv'
  BY <1>6, <1>a DEF Tick
<1>7. ASSUME NEW i \in Instances, LoopExit(i) PROVE RowInv'
  BY <1>7, <1>a DEF LoopExit
<1>8. ASSUME NEW i \in Instances, RemoveStaleOutput(i) PROVE RowInv'
  BY <1>8, <1>a DEF RemoveStaleOutput
<1>9. ASSUME NEW i \in Instances, FirstCheck(i) PROVE RowInv'
  BY <1>9, <1>a DEF FirstCheck, Canceled
<1>10. ASSUME NEW i \in Instances, FetchPage(i) PROVE RowInv'
  BY <1>10, <1>a DEF FetchPage, Fail, FirstPage, Unprocessed
<1>11. ASSUME NEW i \in Instances, Dispatch(i) PROVE RowInv'
  BY <1>11, <1>a DEF Dispatch
<1>12. ASSUME NEW i \in Instances, ProducerStop(i) PROVE RowInv'
  BY <1>12, <1>a DEF ProducerStop
<1>13. ASSUME NEW i \in Instances, AfterPool(i) PROVE RowInv'
  BY <1>13, <1>a DEF AfterPool
<1>14. ASSUME NEW i \in Instances, CancelCheck(i) PROVE RowInv'
  BY <1>14, <1>a DEF CancelCheck, Canceled
<1>15. ASSUME NEW i \in Instances, FailureCheck(i) PROVE RowInv'
  BY <1>15, <1>a DEF FailureCheck
<1>16. ASSUME NEW i \in Instances, CheckComplete(i) PROVE RowInv'
  BY <1>16, <1>a DEF CheckComplete
<1>17. ASSUME NEW i \in Instances, InspectInput(i) PROVE RowInv'
  BY <1>17, <1>a DEF InspectInput
<1>18. ASSUME NEW i \in Instances, Results(i) PROVE RowInv'
  BY <1>18, <1>a DEF Results
<1>19. ASSUME NEW i \in Instances, Patch(i) PROVE RowInv'
  BY <1>19, <1>a DEF Patch
<1>20. ASSUME NEW i \in Instances, PatchedCheck(i) PROVE RowInv'
  BY <1>20, <1>a DEF PatchedCheck, Canceled
<1>21. ASSUME NEW i \in Instances, Finish(i) PROVE RowInv'
  BY <1>21, <1>a DEF Finish, TerminalUpdate, FinishError
<1>22. ASSUME NEW i \in Instances, Discard(i) PROVE RowInv'
  BY <1>22, <1>a DEF Discard
<1>23. ASSUME NEW i \in Instances, AppendAudit(i) PROVE RowInv'
  BY <1>23, <1>a DEF AppendAudit
<1>24. ASSUME NEW i \in Instances, ClearFiles(i) PROVE RowInv'
  BY <1>24, <1>a DEF ClearFiles
<1>25. ASSUME NEW i \in Instances, Heartbeat(i) PROVE RowInv'
  BY <1>25, <1>a DEF Heartbeat
<1>26. ASSUME NEW i \in Instances, ContextCanceled(i) PROVE RowInv'
  BY <1>26, <1>a DEF ContextCanceled, Running, Ended
<1>27. ASSUME NEW i \in Instances, Close(i) PROVE RowInv'
  BY <1>27, <1>a DEF Close, Running
<1>28. ASSUME NEW i \in Instances, Crash(i) PROVE RowInv'
  BY <1>28, <1>a DEF Crash, ForgetRun
<1>29. ASSUME NEW i \in Instances, Restart(i) PROVE RowInv'
  BY <1>29, <1>a DEF Restart
<1>30. ASSUME NEW i \in Instances, ReapConnection(i) PROVE RowInv'
  BY <1>30, <1>a DEF ReapConnection
<1>31. ASSUME NEW i \in Instances, DropConnection(i) PROVE RowInv'
  BY <1>31, <1>a DEF DropConnection
<1>32. ASSUME NEW i \in Instances, NEW a \in Accounts, WorkerInterrupted(i, a) PROVE RowInv'
  BY <1>32, <1>a DEF WorkerInterrupted, WorkerReturns
<1>33. ASSUME NEW i \in Instances, NEW a \in Accounts, LookupFails(i, a) PROVE RowInv'
  BY <1>33, <1>a DEF LookupFails, Fail, WorkerReturns
<1>34. ASSUME NEW i \in Instances, NEW a \in Accounts, Save(i, a) PROVE RowInv'
  BY <1>34, <1>a DEF Save, Fail, WorkerReturns, Checkpoint
<1>35. ASSUME NEW i \in Instances, NEW j \in Jobs, UploadInput(i, j) PROVE RowInv'
  BY <1>35, <1>a DEF UploadInput, NotYet, Over
<1>36. ASSUME NEW i \in Instances, NEW j \in Jobs, Submit(i, j) PROVE RowInv'
  BY <1>36, <1>a DEF Submit, Create
<1>37. ASSUME NEW i \in Instances, NEW j \in Jobs, CleanupRemove(i, j) PROVE RowInv'
  BY <1>37, <1>a DEF CleanupRemove, Expired
<1>38. ASSUME NEW j \in Jobs, Cancel(j) PROVE RowInv'
  BY <1>38, <1>a DEF Cancel
<1>39. ASSUME NEW j \in Jobs, Expire(j) PROVE RowInv'
  BY <1>39, <1>a DEF Expire, Runs, Running
<1>40. CASE UNCHANGED vars
  BY <1>40 DEF vars
<1>41. QED
  BY <1>1, <1>2, <1>3, <1>4, <1>5, <1>6, <1>7, <1>8, <1>9, <1>10, <1>11, <1>12, <1>13, <1>14, <1>15, <1>16, <1>17, <1>18, <1>19, <1>20, <1>21, <1>22, <1>23, <1>24, <1>25, <1>26, <1>27, <1>28, <1>29, <1>30, <1>31, <1>32, <1>33, <1>34, <1>35, <1>36, <1>37, <1>38, <1>39, <1>40
  DEF Next, LoopStep, WorkerStep, RequestStep, Environment

\* Terminal completes only a job that CheckComplete has passed.
LEMMA CompletedStep == TypeInv /\ CheckedInv /\ CompletedIsComplete /\ RowInv /\ [Next]_vars => CompletedIsComplete'
<1> SUFFICES ASSUME TypeInv, CheckedInv, CompletedIsComplete, RowInv, [Next]_vars PROVE CompletedIsComplete'
  OBVIOUS
<1> USE DEF CheckedInv, CompletedIsComplete, RowInv, RunPoints, Goto, Fault, NoFault, dbVars, diskVars, runVars, poolVars
<1>a. /\ status \in [Jobs -> Statuses] /\ done \in [Jobs -> SUBSET Accounts] /\ pc \in [Instances -> Points]
      /\ job \in [Instances -> Jobs \cup {NoJob}] /\ verdict \in [Instances -> {"COMPLETED", "FAILED"}]
      /\ \A k \in Instances : pc[k] \in {"claiming", "clear"} \cup RunPoints => job[k] \in Jobs
  BY DEF TypeInv, TypeOK, HasJob
<1>1. ASSUME NEW i \in Instances, AcquireLock(i) PROVE CompletedIsComplete'
  BY <1>1, <1>a DEF AcquireLock
<1>2. ASSUME NEW i \in Instances, Recover(i) PROVE CompletedIsComplete'
  BY <1>2, <1>a DEF Recover, RecoverJobs
<1>3. ASSUME NEW i \in Instances, ClaimSelect(i) PROVE CompletedIsComplete'
  BY <1>3, <1>a DEF ClaimSelect
<1>4. ASSUME NEW i \in Instances, ClaimUpdate(i) PROVE CompletedIsComplete'
  BY <1>4, <1>a DEF ClaimUpdate, BeginRun
<1>5. ASSUME NEW i \in Instances, Release(i) PROVE CompletedIsComplete'
  BY <1>5, <1>a DEF Release, ForgetRun
<1>6. ASSUME NEW i \in Instances, Tick(i) PROVE CompletedIsComplete'
  BY <1>6, <1>a DEF Tick
<1>7. ASSUME NEW i \in Instances, LoopExit(i) PROVE CompletedIsComplete'
  BY <1>7, <1>a DEF LoopExit
<1>8. ASSUME NEW i \in Instances, RemoveStaleOutput(i) PROVE CompletedIsComplete'
  BY <1>8, <1>a DEF RemoveStaleOutput
<1>9. ASSUME NEW i \in Instances, FirstCheck(i) PROVE CompletedIsComplete'
  BY <1>9, <1>a DEF FirstCheck, Canceled
<1>10. ASSUME NEW i \in Instances, FetchPage(i) PROVE CompletedIsComplete'
  BY <1>10, <1>a DEF FetchPage, Fail, FirstPage, Unprocessed
<1>11. ASSUME NEW i \in Instances, Dispatch(i) PROVE CompletedIsComplete'
  BY <1>11, <1>a DEF Dispatch
<1>12. ASSUME NEW i \in Instances, ProducerStop(i) PROVE CompletedIsComplete'
  BY <1>12, <1>a DEF ProducerStop
<1>13. ASSUME NEW i \in Instances, AfterPool(i) PROVE CompletedIsComplete'
  BY <1>13, <1>a DEF AfterPool
<1>14. ASSUME NEW i \in Instances, CancelCheck(i) PROVE CompletedIsComplete'
  BY <1>14, <1>a DEF CancelCheck, Canceled
<1>15. ASSUME NEW i \in Instances, FailureCheck(i) PROVE CompletedIsComplete'
  BY <1>15, <1>a DEF FailureCheck
<1>16. ASSUME NEW i \in Instances, CheckComplete(i) PROVE CompletedIsComplete'
  BY <1>16, <1>a DEF CheckComplete
<1>17. ASSUME NEW i \in Instances, InspectInput(i) PROVE CompletedIsComplete'
  BY <1>17, <1>a DEF InspectInput
<1>18. ASSUME NEW i \in Instances, Results(i) PROVE CompletedIsComplete'
  BY <1>18, <1>a DEF Results
<1>19. ASSUME NEW i \in Instances, Patch(i) PROVE CompletedIsComplete'
  BY <1>19, <1>a DEF Patch
<1>20. ASSUME NEW i \in Instances, PatchedCheck(i) PROVE CompletedIsComplete'
  BY <1>20, <1>a DEF PatchedCheck, Canceled
<1>21. ASSUME NEW i \in Instances, Finish(i) PROVE CompletedIsComplete'
  BY <1>21, <1>a DEF Finish, TerminalUpdate, FinishError
<1>22. ASSUME NEW i \in Instances, Discard(i) PROVE CompletedIsComplete'
  BY <1>22, <1>a DEF Discard
<1>23. ASSUME NEW i \in Instances, AppendAudit(i) PROVE CompletedIsComplete'
  BY <1>23, <1>a DEF AppendAudit
<1>24. ASSUME NEW i \in Instances, ClearFiles(i) PROVE CompletedIsComplete'
  BY <1>24, <1>a DEF ClearFiles
<1>25. ASSUME NEW i \in Instances, Heartbeat(i) PROVE CompletedIsComplete'
  BY <1>25, <1>a DEF Heartbeat
<1>26. ASSUME NEW i \in Instances, ContextCanceled(i) PROVE CompletedIsComplete'
  BY <1>26, <1>a DEF ContextCanceled, Running, Ended
<1>27. ASSUME NEW i \in Instances, Close(i) PROVE CompletedIsComplete'
  BY <1>27, <1>a DEF Close, Running
<1>28. ASSUME NEW i \in Instances, Crash(i) PROVE CompletedIsComplete'
  BY <1>28, <1>a DEF Crash, ForgetRun
<1>29. ASSUME NEW i \in Instances, Restart(i) PROVE CompletedIsComplete'
  BY <1>29, <1>a DEF Restart
<1>30. ASSUME NEW i \in Instances, ReapConnection(i) PROVE CompletedIsComplete'
  BY <1>30, <1>a DEF ReapConnection
<1>31. ASSUME NEW i \in Instances, DropConnection(i) PROVE CompletedIsComplete'
  BY <1>31, <1>a DEF DropConnection
<1>32. ASSUME NEW i \in Instances, NEW a \in Accounts, WorkerInterrupted(i, a) PROVE CompletedIsComplete'
  BY <1>32, <1>a DEF WorkerInterrupted, WorkerReturns
<1>33. ASSUME NEW i \in Instances, NEW a \in Accounts, LookupFails(i, a) PROVE CompletedIsComplete'
  BY <1>33, <1>a DEF LookupFails, Fail, WorkerReturns
<1>34. ASSUME NEW i \in Instances, NEW a \in Accounts, Save(i, a) PROVE CompletedIsComplete'
  BY <1>34, <1>a DEF Save, Fail, WorkerReturns, Checkpoint
<1>35. ASSUME NEW i \in Instances, NEW j \in Jobs, UploadInput(i, j) PROVE CompletedIsComplete'
  BY <1>35, <1>a DEF UploadInput
<1>36. ASSUME NEW i \in Instances, NEW j \in Jobs, Submit(i, j) PROVE CompletedIsComplete'
  BY <1>36, <1>a DEF Submit, Create
<1>37. ASSUME NEW i \in Instances, NEW j \in Jobs, CleanupRemove(i, j) PROVE CompletedIsComplete'
  BY <1>37, <1>a DEF CleanupRemove, Expired
<1>38. ASSUME NEW j \in Jobs, Cancel(j) PROVE CompletedIsComplete'
  BY <1>38, <1>a DEF Cancel
<1>39. ASSUME NEW j \in Jobs, Expire(j) PROVE CompletedIsComplete'
  BY <1>39, <1>a DEF Expire, Runs, Running
<1>40. CASE UNCHANGED vars
  BY <1>40 DEF vars
<1>41. QED
  BY <1>1, <1>2, <1>3, <1>4, <1>5, <1>6, <1>7, <1>8, <1>9, <1>10, <1>11, <1>12, <1>13, <1>14, <1>15, <1>16, <1>17, <1>18, <1>19, <1>20, <1>21, <1>22, <1>23, <1>24, <1>25, <1>26, <1>27, <1>28, <1>29, <1>30, <1>31, <1>32, <1>33, <1>34, <1>35, <1>36, <1>37, <1>38, <1>39, <1>40
  DEF Next, LoopStep, WorkerStep, RequestStep, Environment

\* One Terminal wins, and only its caller appends the audit event.
LEMMA AuditStep == TypeInv /\ AuditInv /\ RowInv /\ [Next]_vars => AuditInv'
<1> SUFFICES ASSUME TypeInv, AuditInv, RowInv, [Next]_vars PROVE AuditInv'
  OBVIOUS
<1> USE DEF AuditInv, RowInv, RunPoints, PoolPoints, Goto, Fault, NoFault, dbVars, diskVars, runVars, poolVars
<1>a. /\ status \in [Jobs -> Statuses] /\ audited \in [Jobs -> Nat] /\ pc \in [Instances -> Points]
      /\ job \in [Instances -> Jobs \cup {NoJob}] /\ verdict \in [Instances -> {"COMPLETED", "FAILED"}]
      /\ \A k \in Instances : pc[k] \in {"claiming", "clear"} \cup RunPoints => job[k] \in Jobs
  BY DEF TypeInv, TypeOK, HasJob
<1>1. ASSUME NEW i \in Instances, AcquireLock(i) PROVE AuditInv'
  BY <1>1, <1>a DEF AcquireLock
<1>2. ASSUME NEW i \in Instances, Recover(i) PROVE AuditInv'
  BY <1>2, <1>a DEF Recover, RecoverJobs
<1>3. ASSUME NEW i \in Instances, ClaimSelect(i) PROVE AuditInv'
  BY <1>3, <1>a DEF ClaimSelect
<1>4. ASSUME NEW i \in Instances, ClaimUpdate(i) PROVE AuditInv'
  BY <1>4, <1>a DEF ClaimUpdate, BeginRun
<1>5. ASSUME NEW i \in Instances, Release(i) PROVE AuditInv'
  BY <1>5, <1>a DEF Release, ForgetRun
<1>6. ASSUME NEW i \in Instances, Tick(i) PROVE AuditInv'
  BY <1>6, <1>a DEF Tick
<1>7. ASSUME NEW i \in Instances, LoopExit(i) PROVE AuditInv'
  BY <1>7, <1>a DEF LoopExit
<1>8. ASSUME NEW i \in Instances, RemoveStaleOutput(i) PROVE AuditInv'
  BY <1>8, <1>a DEF RemoveStaleOutput
<1>9. ASSUME NEW i \in Instances, FirstCheck(i) PROVE AuditInv'
  BY <1>9, <1>a DEF FirstCheck, Canceled
<1>10. ASSUME NEW i \in Instances, FetchPage(i) PROVE AuditInv'
  BY <1>10, <1>a DEF FetchPage, Fail, FirstPage, Unprocessed
<1>11. ASSUME NEW i \in Instances, Dispatch(i) PROVE AuditInv'
  BY <1>11, <1>a DEF Dispatch
<1>12. ASSUME NEW i \in Instances, ProducerStop(i) PROVE AuditInv'
  BY <1>12, <1>a DEF ProducerStop
<1>13. ASSUME NEW i \in Instances, AfterPool(i) PROVE AuditInv'
  BY <1>13, <1>a DEF AfterPool
<1>14. ASSUME NEW i \in Instances, CancelCheck(i) PROVE AuditInv'
  BY <1>14, <1>a DEF CancelCheck, Canceled
<1>15. ASSUME NEW i \in Instances, FailureCheck(i) PROVE AuditInv'
  BY <1>15, <1>a DEF FailureCheck
<1>16. ASSUME NEW i \in Instances, CheckComplete(i) PROVE AuditInv'
  BY <1>16, <1>a DEF CheckComplete
<1>17. ASSUME NEW i \in Instances, InspectInput(i) PROVE AuditInv'
  BY <1>17, <1>a DEF InspectInput
<1>18. ASSUME NEW i \in Instances, Results(i) PROVE AuditInv'
  BY <1>18, <1>a DEF Results
<1>19. ASSUME NEW i \in Instances, Patch(i) PROVE AuditInv'
  BY <1>19, <1>a DEF Patch
<1>20. ASSUME NEW i \in Instances, PatchedCheck(i) PROVE AuditInv'
  BY <1>20, <1>a DEF PatchedCheck, Canceled
<1>21. ASSUME NEW i \in Instances, Finish(i) PROVE AuditInv'
  BY <1>21, <1>a DEF Finish, TerminalUpdate, FinishError
<1>22. ASSUME NEW i \in Instances, Discard(i) PROVE AuditInv'
  BY <1>22, <1>a DEF Discard
<1>23. ASSUME NEW i \in Instances, AppendAudit(i) PROVE AuditInv'
  BY <1>23, <1>a DEF AppendAudit
<1>24. ASSUME NEW i \in Instances, ClearFiles(i) PROVE AuditInv'
  BY <1>24, <1>a DEF ClearFiles
<1>25. ASSUME NEW i \in Instances, Heartbeat(i) PROVE AuditInv'
  BY <1>25, <1>a DEF Heartbeat
<1>26. ASSUME NEW i \in Instances, ContextCanceled(i) PROVE AuditInv'
  BY <1>26, <1>a DEF ContextCanceled, Running, Ended
<1>27. ASSUME NEW i \in Instances, Close(i) PROVE AuditInv'
  BY <1>27, <1>a DEF Close, Running
<1>28. ASSUME NEW i \in Instances, Crash(i) PROVE AuditInv'
  BY <1>28, <1>a DEF Crash, ForgetRun
<1>29. ASSUME NEW i \in Instances, Restart(i) PROVE AuditInv'
  BY <1>29, <1>a DEF Restart
<1>30. ASSUME NEW i \in Instances, ReapConnection(i) PROVE AuditInv'
  BY <1>30, <1>a DEF ReapConnection
<1>31. ASSUME NEW i \in Instances, DropConnection(i) PROVE AuditInv'
  BY <1>31, <1>a DEF DropConnection
<1>32. ASSUME NEW i \in Instances, NEW a \in Accounts, WorkerInterrupted(i, a) PROVE AuditInv'
  BY <1>32, <1>a DEF WorkerInterrupted, WorkerReturns
<1>33. ASSUME NEW i \in Instances, NEW a \in Accounts, LookupFails(i, a) PROVE AuditInv'
  BY <1>33, <1>a DEF LookupFails, Fail, WorkerReturns
<1>34. ASSUME NEW i \in Instances, NEW a \in Accounts, Save(i, a) PROVE AuditInv'
  BY <1>34, <1>a DEF Save, Fail, WorkerReturns, Checkpoint
<1>35. ASSUME NEW i \in Instances, NEW j \in Jobs, UploadInput(i, j) PROVE AuditInv'
  BY <1>35, <1>a DEF UploadInput
<1>36. ASSUME NEW i \in Instances, NEW j \in Jobs, Submit(i, j) PROVE AuditInv'
  BY <1>36, <1>a, InstancesAssumption DEF Submit, Create
<1>37. ASSUME NEW i \in Instances, NEW j \in Jobs, CleanupRemove(i, j) PROVE AuditInv'
  BY <1>37, <1>a DEF CleanupRemove, Expired
<1>38. ASSUME NEW j \in Jobs, Cancel(j) PROVE AuditInv'
  BY <1>38, <1>a DEF Cancel
<1>39. ASSUME NEW j \in Jobs, Expire(j) PROVE AuditInv'
  BY <1>39, <1>a DEF Expire, Runs, Running
<1>40. CASE UNCHANGED vars
  BY <1>40 DEF vars
<1>41. QED
  BY <1>1, <1>2, <1>3, <1>4, <1>5, <1>6, <1>7, <1>8, <1>9, <1>10, <1>11, <1>12, <1>13, <1>14, <1>15, <1>16, <1>17, <1>18, <1>19, <1>20, <1>21, <1>22, <1>23, <1>24, <1>25, <1>26, <1>27, <1>28, <1>29, <1>30, <1>31, <1>32, <1>33, <1>34, <1>35, <1>36, <1>37, <1>38, <1>39, <1>40
  DEF Next, LoopStep, WorkerStep, RequestStep, Environment

\* The counter and the checkpoint change in one transaction (repository.go Save).
LEMMA ProgressStep == TypeInv /\ ProgressExact /\ [Next]_vars => ProgressExact'
<1> SUFFICES ASSUME TypeInv, ProgressExact, [Next]_vars PROVE ProgressExact'
  OBVIOUS
<1> USE DEF ProgressExact, Goto, Fault, NoFault, dbVars, diskVars, runVars, poolVars
<1>a. /\ done \in [Jobs -> SUBSET Accounts] /\ processed \in [Jobs -> Nat]
      /\ \A k \in Instances : pc[k] \in RunPoints => job[k] \in Jobs
      /\ \A k \in Instances : inflight[k] # {} => pc[k] \in RunPoints
  BY DEF TypeInv, TypeOK, HasJob, PoolInv, RunPoints
<1>1. ASSUME NEW i \in Instances, AcquireLock(i) PROVE ProgressExact'
  BY <1>1, <1>a DEF AcquireLock
<1>2. ASSUME NEW i \in Instances, Recover(i) PROVE ProgressExact'
  BY <1>2, <1>a DEF Recover, RecoverJobs
<1>3. ASSUME NEW i \in Instances, ClaimSelect(i) PROVE ProgressExact'
  BY <1>3, <1>a DEF ClaimSelect
<1>4. ASSUME NEW i \in Instances, ClaimUpdate(i) PROVE ProgressExact'
  BY <1>4, <1>a DEF ClaimUpdate, BeginRun
<1>5. ASSUME NEW i \in Instances, Release(i) PROVE ProgressExact'
  BY <1>5, <1>a DEF Release, ForgetRun
<1>6. ASSUME NEW i \in Instances, Tick(i) PROVE ProgressExact'
  BY <1>6, <1>a DEF Tick
<1>7. ASSUME NEW i \in Instances, LoopExit(i) PROVE ProgressExact'
  BY <1>7, <1>a DEF LoopExit
<1>8. ASSUME NEW i \in Instances, RemoveStaleOutput(i) PROVE ProgressExact'
  BY <1>8, <1>a DEF RemoveStaleOutput
<1>9. ASSUME NEW i \in Instances, FirstCheck(i) PROVE ProgressExact'
  BY <1>9, <1>a DEF FirstCheck, Canceled
<1>10. ASSUME NEW i \in Instances, FetchPage(i) PROVE ProgressExact'
  BY <1>10, <1>a DEF FetchPage, Fail, FirstPage, Unprocessed
<1>11. ASSUME NEW i \in Instances, Dispatch(i) PROVE ProgressExact'
  BY <1>11, <1>a DEF Dispatch
<1>12. ASSUME NEW i \in Instances, ProducerStop(i) PROVE ProgressExact'
  BY <1>12, <1>a DEF ProducerStop
<1>13. ASSUME NEW i \in Instances, AfterPool(i) PROVE ProgressExact'
  BY <1>13, <1>a DEF AfterPool
<1>14. ASSUME NEW i \in Instances, CancelCheck(i) PROVE ProgressExact'
  BY <1>14, <1>a DEF CancelCheck, Canceled
<1>15. ASSUME NEW i \in Instances, FailureCheck(i) PROVE ProgressExact'
  BY <1>15, <1>a DEF FailureCheck
<1>16. ASSUME NEW i \in Instances, CheckComplete(i) PROVE ProgressExact'
  BY <1>16, <1>a DEF CheckComplete
<1>17. ASSUME NEW i \in Instances, InspectInput(i) PROVE ProgressExact'
  BY <1>17, <1>a DEF InspectInput
<1>18. ASSUME NEW i \in Instances, Results(i) PROVE ProgressExact'
  BY <1>18, <1>a DEF Results
<1>19. ASSUME NEW i \in Instances, Patch(i) PROVE ProgressExact'
  BY <1>19, <1>a DEF Patch
<1>20. ASSUME NEW i \in Instances, PatchedCheck(i) PROVE ProgressExact'
  BY <1>20, <1>a DEF PatchedCheck, Canceled
<1>21. ASSUME NEW i \in Instances, Finish(i) PROVE ProgressExact'
  BY <1>21, <1>a DEF Finish, TerminalUpdate, FinishError
<1>22. ASSUME NEW i \in Instances, Discard(i) PROVE ProgressExact'
  BY <1>22, <1>a DEF Discard
<1>23. ASSUME NEW i \in Instances, AppendAudit(i) PROVE ProgressExact'
  BY <1>23, <1>a DEF AppendAudit
<1>24. ASSUME NEW i \in Instances, ClearFiles(i) PROVE ProgressExact'
  BY <1>24, <1>a DEF ClearFiles
<1>25. ASSUME NEW i \in Instances, Heartbeat(i) PROVE ProgressExact'
  BY <1>25, <1>a DEF Heartbeat
<1>26. ASSUME NEW i \in Instances, ContextCanceled(i) PROVE ProgressExact'
  BY <1>26, <1>a DEF ContextCanceled, Running, Ended
<1>27. ASSUME NEW i \in Instances, Close(i) PROVE ProgressExact'
  BY <1>27, <1>a DEF Close, Running
<1>28. ASSUME NEW i \in Instances, Crash(i) PROVE ProgressExact'
  BY <1>28, <1>a DEF Crash, ForgetRun
<1>29. ASSUME NEW i \in Instances, Restart(i) PROVE ProgressExact'
  BY <1>29, <1>a DEF Restart
<1>30. ASSUME NEW i \in Instances, ReapConnection(i) PROVE ProgressExact'
  BY <1>30, <1>a DEF ReapConnection
<1>31. ASSUME NEW i \in Instances, DropConnection(i) PROVE ProgressExact'
  BY <1>31, <1>a DEF DropConnection
<1>32. ASSUME NEW i \in Instances, NEW a \in Accounts, WorkerInterrupted(i, a) PROVE ProgressExact'
  BY <1>32, <1>a DEF WorkerInterrupted, WorkerReturns
<1>33. ASSUME NEW i \in Instances, NEW a \in Accounts, LookupFails(i, a) PROVE ProgressExact'
  BY <1>33, <1>a DEF LookupFails, Fail, WorkerReturns
<1>34. ASSUME NEW i \in Instances, NEW a \in Accounts, Save(i, a) PROVE ProgressExact'
  <2>1. job[i] \in Jobs /\ done[job[i]] \in SUBSET Accounts
    BY <1>34, <1>a DEF Save
  <2>2. CASE Checkpoint(i, a)
    <3>1. Cardinality(done[job[i]] \cup {a}) = Cardinality(done[job[i]]) + 1
      BY <2>1, <2>2, AccountSets DEF Checkpoint
    <3>2. QED
      BY <1>a, <2>1, <2>2, <3>1 DEF Checkpoint
  <2>3. CASE UNCHANGED dbVars
    BY <2>3
  <2>4. QED
    BY <1>34, <2>2, <2>3 DEF Save
<1>35. ASSUME NEW i \in Instances, NEW j \in Jobs, UploadInput(i, j) PROVE ProgressExact'
  BY <1>35, <1>a DEF UploadInput
<1>36. ASSUME NEW i \in Instances, NEW j \in Jobs, Submit(i, j) PROVE ProgressExact'
  BY <1>36, <1>a DEF Submit, Create
<1>37. ASSUME NEW i \in Instances, NEW j \in Jobs, CleanupRemove(i, j) PROVE ProgressExact'
  BY <1>37, <1>a DEF CleanupRemove, Expired
<1>38. ASSUME NEW j \in Jobs, Cancel(j) PROVE ProgressExact'
  BY <1>38, <1>a DEF Cancel
<1>39. ASSUME NEW j \in Jobs, Expire(j) PROVE ProgressExact'
  BY <1>39, <1>a DEF Expire, Runs, Running
<1>40. CASE UNCHANGED vars
  BY <1>40 DEF vars
<1>41. QED
  BY <1>1, <1>2, <1>3, <1>4, <1>5, <1>6, <1>7, <1>8, <1>9, <1>10, <1>11, <1>12, <1>13, <1>14, <1>15, <1>16, <1>17, <1>18, <1>19, <1>20, <1>21, <1>22, <1>23, <1>24, <1>25, <1>26, <1>27, <1>28, <1>29, <1>30, <1>31, <1>32, <1>33, <1>34, <1>35, <1>36, <1>37, <1>38, <1>39, <1>40
  DEF Next, LoopStep, WorkerStep, RequestStep, Environment

\* Recover empties the PROCESSING set before the holder of the lock claims.
LEMMA ProcessingStep == TypeInv /\ LockInv /\ ProcessingInv /\ RowInv /\ [Next]_vars => ProcessingInv'
<1> SUFFICES ASSUME TypeInv, LockInv, ProcessingInv, RowInv, [Next]_vars PROVE ProcessingInv'
  OBVIOUS
<1> USE DEF LockInv, Spared, ProcessingInv, OneProcessingRow, RowInv, Running, LockPoints, RunPoints, PoolPoints, Goto, Fault, NoFault, dbVars, diskVars, runVars, poolVars
<1>a. /\ status \in [Jobs -> Statuses] /\ pc \in [Instances -> Points]
      /\ job \in [Instances -> Jobs \cup {NoJob}] /\ verdict \in [Instances -> {"COMPLETED", "FAILED"}]
      /\ \A k \in Instances : pc[k] \in {"claiming", "clear"} \cup RunPoints => job[k] \in Jobs
  BY DEF TypeInv, TypeOK, HasJob
<1>1. ASSUME NEW i \in Instances, AcquireLock(i) PROVE ProcessingInv'
  BY <1>1, <1>a DEF AcquireLock
<1>2. ASSUME NEW i \in Instances, Recover(i) PROVE ProcessingInv'
  BY <1>2, <1>a DEF Recover, RecoverJobs
<1>3. ASSUME NEW i \in Instances, ClaimSelect(i) PROVE ProcessingInv'
  BY <1>3, <1>a DEF ClaimSelect
<1>4. ASSUME NEW i \in Instances, ClaimUpdate(i) PROVE ProcessingInv'
  BY <1>4, <1>a DEF ClaimUpdate, BeginRun
<1>5. ASSUME NEW i \in Instances, Release(i) PROVE ProcessingInv'
  BY <1>5, <1>a DEF Release, ForgetRun
<1>6. ASSUME NEW i \in Instances, Tick(i) PROVE ProcessingInv'
  BY <1>6, <1>a DEF Tick
<1>7. ASSUME NEW i \in Instances, LoopExit(i) PROVE ProcessingInv'
  BY <1>7, <1>a DEF LoopExit
<1>8. ASSUME NEW i \in Instances, RemoveStaleOutput(i) PROVE ProcessingInv'
  BY <1>8, <1>a DEF RemoveStaleOutput
<1>9. ASSUME NEW i \in Instances, FirstCheck(i) PROVE ProcessingInv'
  BY <1>9, <1>a DEF FirstCheck, Canceled
<1>10. ASSUME NEW i \in Instances, FetchPage(i) PROVE ProcessingInv'
  BY <1>10, <1>a DEF FetchPage, Fail, FirstPage, Unprocessed
<1>11. ASSUME NEW i \in Instances, Dispatch(i) PROVE ProcessingInv'
  BY <1>11, <1>a DEF Dispatch
<1>12. ASSUME NEW i \in Instances, ProducerStop(i) PROVE ProcessingInv'
  BY <1>12, <1>a DEF ProducerStop
<1>13. ASSUME NEW i \in Instances, AfterPool(i) PROVE ProcessingInv'
  BY <1>13, <1>a DEF AfterPool
<1>14. ASSUME NEW i \in Instances, CancelCheck(i) PROVE ProcessingInv'
  BY <1>14, <1>a DEF CancelCheck, Canceled
<1>15. ASSUME NEW i \in Instances, FailureCheck(i) PROVE ProcessingInv'
  BY <1>15, <1>a DEF FailureCheck
<1>16. ASSUME NEW i \in Instances, CheckComplete(i) PROVE ProcessingInv'
  BY <1>16, <1>a DEF CheckComplete
<1>17. ASSUME NEW i \in Instances, InspectInput(i) PROVE ProcessingInv'
  BY <1>17, <1>a DEF InspectInput
<1>18. ASSUME NEW i \in Instances, Results(i) PROVE ProcessingInv'
  BY <1>18, <1>a DEF Results
<1>19. ASSUME NEW i \in Instances, Patch(i) PROVE ProcessingInv'
  BY <1>19, <1>a DEF Patch
<1>20. ASSUME NEW i \in Instances, PatchedCheck(i) PROVE ProcessingInv'
  BY <1>20, <1>a DEF PatchedCheck, Canceled
<1>21. ASSUME NEW i \in Instances, Finish(i) PROVE ProcessingInv'
  BY <1>21, <1>a DEF Finish, TerminalUpdate, FinishError
<1>22. ASSUME NEW i \in Instances, Discard(i) PROVE ProcessingInv'
  BY <1>22, <1>a DEF Discard
<1>23. ASSUME NEW i \in Instances, AppendAudit(i) PROVE ProcessingInv'
  BY <1>23, <1>a DEF AppendAudit
<1>24. ASSUME NEW i \in Instances, ClearFiles(i) PROVE ProcessingInv'
  BY <1>24, <1>a DEF ClearFiles
<1>25. ASSUME NEW i \in Instances, Heartbeat(i) PROVE ProcessingInv'
  BY <1>25, <1>a DEF Heartbeat
<1>26. ASSUME NEW i \in Instances, ContextCanceled(i) PROVE ProcessingInv'
  BY <1>26, <1>a DEF ContextCanceled, Running, Ended
<1>27. ASSUME NEW i \in Instances, Close(i) PROVE ProcessingInv'
  BY <1>27, <1>a DEF Close, Running
<1>28. ASSUME NEW i \in Instances, Crash(i) PROVE ProcessingInv'
  BY <1>28, <1>a DEF Crash, ForgetRun
<1>29. ASSUME NEW i \in Instances, Restart(i) PROVE ProcessingInv'
  BY <1>29, <1>a DEF Restart
<1>30. ASSUME NEW i \in Instances, ReapConnection(i) PROVE ProcessingInv'
  BY <1>30, <1>a DEF ReapConnection
<1>31. ASSUME NEW i \in Instances, DropConnection(i) PROVE ProcessingInv'
  BY <1>31, <1>a DEF DropConnection
<1>32. ASSUME NEW i \in Instances, NEW a \in Accounts, WorkerInterrupted(i, a) PROVE ProcessingInv'
  BY <1>32, <1>a DEF WorkerInterrupted, WorkerReturns
<1>33. ASSUME NEW i \in Instances, NEW a \in Accounts, LookupFails(i, a) PROVE ProcessingInv'
  BY <1>33, <1>a DEF LookupFails, Fail, WorkerReturns
<1>34. ASSUME NEW i \in Instances, NEW a \in Accounts, Save(i, a) PROVE ProcessingInv'
  BY <1>34, <1>a DEF Save, Fail, WorkerReturns, Checkpoint
<1>35. ASSUME NEW i \in Instances, NEW j \in Jobs, UploadInput(i, j) PROVE ProcessingInv'
  BY <1>35, <1>a DEF UploadInput
<1>36. ASSUME NEW i \in Instances, NEW j \in Jobs, Submit(i, j) PROVE ProcessingInv'
  BY <1>36, <1>a DEF Submit, Create
<1>37. ASSUME NEW i \in Instances, NEW j \in Jobs, CleanupRemove(i, j) PROVE ProcessingInv'
  BY <1>37, <1>a DEF CleanupRemove, Expired
<1>38. ASSUME NEW j \in Jobs, Cancel(j) PROVE ProcessingInv'
  BY <1>38, <1>a DEF Cancel
<1>39. ASSUME NEW j \in Jobs, Expire(j) PROVE ProcessingInv'
  BY <1>39, <1>a DEF Expire, Runs, Running
<1>40. CASE UNCHANGED vars
  BY <1>40 DEF vars
<1>41. QED
  BY <1>1, <1>2, <1>3, <1>4, <1>5, <1>6, <1>7, <1>8, <1>9, <1>10, <1>11, <1>12, <1>13, <1>14, <1>15, <1>16, <1>17, <1>18, <1>19, <1>20, <1>21, <1>22, <1>23, <1>24, <1>25, <1>26, <1>27, <1>28, <1>29, <1>30, <1>31, <1>32, <1>33, <1>34, <1>35, <1>36, <1>37, <1>38, <1>39, <1>40
  DEF Next, LoopStep, WorkerStep, RequestStep, Environment

\* While the lock is held and no answer is lost, nobody but the runner touches
\* the output of its job, and it keeps what it completes (manager.go finish).
LEMMA OutputStep == TypeInv /\ LockInv /\ ProcessingInv /\ OutputInv /\ RowInv /\ CheckedInv /\ [Next]_vars => OutputInv'
<1> SUFFICES ASSUME TypeInv, LockInv, ProcessingInv, OutputInv, RowInv, CheckedInv, [Next]_vars PROVE OutputInv'
  OBVIOUS
<1> USE DEF LockInv, Spared, ProcessingInv, OutputInv, OfferedOutputExists, Available, RowInv, Running, LockPoints, RunPoints, PoolPoints, Goto, Fault, NoFault, dbVars, diskVars, runVars, poolVars
<1>a. /\ status \in [Jobs -> Statuses] /\ pc \in [Instances -> Points]
      /\ job \in [Instances -> Jobs \cup {NoJob}] /\ verdict \in [Instances -> {"COMPLETED", "FAILED"}]
      /\ \A k \in Instances : pc[k] \in {"claiming", "clear"} \cup RunPoints => job[k] \in Jobs
      /\ outDisk \in [Jobs -> BOOLEAN] /\ outputFile \in [Jobs -> BOOLEAN] /\ expired \in [Jobs -> BOOLEAN]
  BY DEF TypeInv, TypeOK, HasJob
<1>1. ASSUME NEW i \in Instances, AcquireLock(i) PROVE OutputInv'
  BY <1>1, <1>a DEF AcquireLock
<1>2. ASSUME NEW i \in Instances, Recover(i) PROVE OutputInv'
  BY <1>2, <1>a DEF Recover, RecoverJobs
<1>3. ASSUME NEW i \in Instances, ClaimSelect(i) PROVE OutputInv'
  BY <1>3, <1>a DEF ClaimSelect
<1>4. ASSUME NEW i \in Instances, ClaimUpdate(i) PROVE OutputInv'
  BY <1>4, <1>a DEF ClaimUpdate, BeginRun
<1>5. ASSUME NEW i \in Instances, Release(i) PROVE OutputInv'
  BY <1>5, <1>a DEF Release, ForgetRun
<1>6. ASSUME NEW i \in Instances, Tick(i) PROVE OutputInv'
  BY <1>6, <1>a DEF Tick
<1>7. ASSUME NEW i \in Instances, LoopExit(i) PROVE OutputInv'
  BY <1>7, <1>a DEF LoopExit
<1>8. ASSUME NEW i \in Instances, RemoveStaleOutput(i) PROVE OutputInv'
  BY <1>8, <1>a DEF RemoveStaleOutput, CheckedInv
<1>9. ASSUME NEW i \in Instances, FirstCheck(i) PROVE OutputInv'
  BY <1>9, <1>a DEF FirstCheck, Canceled
<1>10. ASSUME NEW i \in Instances, FetchPage(i) PROVE OutputInv'
  BY <1>10, <1>a DEF FetchPage, Fail, FirstPage, Unprocessed
<1>11. ASSUME NEW i \in Instances, Dispatch(i) PROVE OutputInv'
  BY <1>11, <1>a DEF Dispatch
<1>12. ASSUME NEW i \in Instances, ProducerStop(i) PROVE OutputInv'
  BY <1>12, <1>a DEF ProducerStop
<1>13. ASSUME NEW i \in Instances, AfterPool(i) PROVE OutputInv'
  BY <1>13, <1>a DEF AfterPool
<1>14. ASSUME NEW i \in Instances, CancelCheck(i) PROVE OutputInv'
  BY <1>14, <1>a DEF CancelCheck, Canceled
<1>15. ASSUME NEW i \in Instances, FailureCheck(i) PROVE OutputInv'
  BY <1>15, <1>a DEF FailureCheck, CheckedInv
<1>16. ASSUME NEW i \in Instances, CheckComplete(i) PROVE OutputInv'
  BY <1>16, <1>a DEF CheckComplete, CheckedInv
<1>17. ASSUME NEW i \in Instances, InspectInput(i) PROVE OutputInv'
  BY <1>17, <1>a DEF InspectInput, CheckedInv
<1>18. ASSUME NEW i \in Instances, Results(i) PROVE OutputInv'
  BY <1>18, <1>a DEF Results, CheckedInv
<1>19. ASSUME NEW i \in Instances, Patch(i) PROVE OutputInv'
  BY <1>19, <1>a DEF Patch, CheckedInv
<1>20. ASSUME NEW i \in Instances, PatchedCheck(i) PROVE OutputInv'
  BY <1>20, <1>a DEF PatchedCheck, Canceled
<1>21. ASSUME NEW i \in Instances, Finish(i) PROVE OutputInv'
  BY <1>21, <1>a DEF Finish, TerminalUpdate, FinishError
<1>22. ASSUME NEW i \in Instances, Discard(i) PROVE OutputInv'
  BY <1>22, <1>a DEF Discard
<1>23. ASSUME NEW i \in Instances, AppendAudit(i) PROVE OutputInv'
  BY <1>23, <1>a DEF AppendAudit
<1>24. ASSUME NEW i \in Instances, ClearFiles(i) PROVE OutputInv'
  BY <1>24, <1>a DEF ClearFiles
<1>25. ASSUME NEW i \in Instances, Heartbeat(i) PROVE OutputInv'
  BY <1>25, <1>a DEF Heartbeat
<1>26. ASSUME NEW i \in Instances, ContextCanceled(i) PROVE OutputInv'
  BY <1>26, <1>a DEF ContextCanceled, Running, Ended
<1>27. ASSUME NEW i \in Instances, Close(i) PROVE OutputInv'
  BY <1>27, <1>a DEF Close, Running
<1>28. ASSUME NEW i \in Instances, Crash(i) PROVE OutputInv'
  BY <1>28, <1>a DEF Crash, ForgetRun
<1>29. ASSUME NEW i \in Instances, Restart(i) PROVE OutputInv'
  BY <1>29, <1>a DEF Restart
<1>30. ASSUME NEW i \in Instances, ReapConnection(i) PROVE OutputInv'
  BY <1>30, <1>a DEF ReapConnection
<1>31. ASSUME NEW i \in Instances, DropConnection(i) PROVE OutputInv'
  BY <1>31, <1>a DEF DropConnection
<1>32. ASSUME NEW i \in Instances, NEW a \in Accounts, WorkerInterrupted(i, a) PROVE OutputInv'
  BY <1>32, <1>a DEF WorkerInterrupted, WorkerReturns
<1>33. ASSUME NEW i \in Instances, NEW a \in Accounts, LookupFails(i, a) PROVE OutputInv'
  BY <1>33, <1>a DEF LookupFails, Fail, WorkerReturns
<1>34. ASSUME NEW i \in Instances, NEW a \in Accounts, Save(i, a) PROVE OutputInv'
  BY <1>34, <1>a DEF Save, Fail, WorkerReturns, Checkpoint
<1>35. ASSUME NEW i \in Instances, NEW j \in Jobs, UploadInput(i, j) PROVE OutputInv'
  BY <1>35, <1>a DEF UploadInput
<1>36. ASSUME NEW i \in Instances, NEW j \in Jobs, Submit(i, j) PROVE OutputInv'
  BY <1>36, <1>a, InstancesAssumption DEF Submit, Create
<1>37. ASSUME NEW i \in Instances, NEW j \in Jobs, CleanupRemove(i, j) PROVE OutputInv'
  BY <1>37, <1>a DEF CleanupRemove, Expired
<1>38. ASSUME NEW j \in Jobs, Cancel(j) PROVE OutputInv'
  BY <1>38, <1>a DEF Cancel
<1>39. ASSUME NEW j \in Jobs, Expire(j) PROVE OutputInv'
  BY <1>39, <1>a DEF Expire, Runs, Running
<1>40. CASE UNCHANGED vars
  BY <1>40 DEF vars
<1>41. QED
  BY <1>1, <1>2, <1>3, <1>4, <1>5, <1>6, <1>7, <1>8, <1>9, <1>10, <1>11, <1>12, <1>13, <1>14, <1>15, <1>16, <1>17, <1>18, <1>19, <1>20, <1>21, <1>22, <1>23, <1>24, <1>25, <1>26, <1>27, <1>28, <1>29, <1>30, <1>31, <1>32, <1>33, <1>34, <1>35, <1>36, <1>37, <1>38, <1>39, <1>40
  DEF Next, LoopStep, WorkerStep, RequestStep, Environment

\* An expired job has ended and nobody runs it again: a claim needs a QUEUED
\* row, so cleanup never meets a run (repository.go ClaimNext, Expired).
LEMMA ExpiryStep == TypeInv /\ RowInv /\ ExpiryInv /\ [Next]_vars => ExpiryInv'
<1> SUFFICES ASSUME TypeInv, RowInv, ExpiryInv, [Next]_vars PROVE ExpiryInv'
  OBVIOUS
<1> USE DEF ExpiryInv, Terminals, Runs, Running, RunPoints, PoolPoints, Goto, Fault, NoFault, dbVars, diskVars, runVars, poolVars
<1>a. /\ status \in [Jobs -> Statuses] /\ pc \in [Instances -> Points]
      /\ job \in [Instances -> Jobs \cup {NoJob}] /\ verdict \in [Instances -> {"COMPLETED", "FAILED"}]
      /\ \A k \in Instances : pc[k] \in {"claiming", "clear"} \cup RunPoints => job[k] \in Jobs
      /\ expired \in [Jobs -> BOOLEAN]
  BY DEF TypeInv, TypeOK, HasJob
<1>1. ASSUME NEW i \in Instances, AcquireLock(i) PROVE ExpiryInv'
  BY <1>1, <1>a DEF AcquireLock
<1>2. ASSUME NEW i \in Instances, Recover(i) PROVE ExpiryInv'
  BY <1>2, <1>a DEF Recover, RecoverJobs
<1>3. ASSUME NEW i \in Instances, ClaimSelect(i) PROVE ExpiryInv'
  BY <1>3, <1>a DEF ClaimSelect
<1>4. ASSUME NEW i \in Instances, ClaimUpdate(i) PROVE ExpiryInv'
  BY <1>4, <1>a DEF ClaimUpdate, BeginRun
<1>5. ASSUME NEW i \in Instances, Release(i) PROVE ExpiryInv'
  BY <1>5, <1>a DEF Release, ForgetRun
<1>6. ASSUME NEW i \in Instances, Tick(i) PROVE ExpiryInv'
  BY <1>6, <1>a DEF Tick
<1>7. ASSUME NEW i \in Instances, LoopExit(i) PROVE ExpiryInv'
  BY <1>7, <1>a DEF LoopExit
<1>8. ASSUME NEW i \in Instances, RemoveStaleOutput(i) PROVE ExpiryInv'
  BY <1>8, <1>a DEF RemoveStaleOutput
<1>9. ASSUME NEW i \in Instances, FirstCheck(i) PROVE ExpiryInv'
  BY <1>9, <1>a DEF FirstCheck, Canceled
<1>10. ASSUME NEW i \in Instances, FetchPage(i) PROVE ExpiryInv'
  BY <1>10, <1>a DEF FetchPage, Fail
<1>11. ASSUME NEW i \in Instances, Dispatch(i) PROVE ExpiryInv'
  BY <1>11, <1>a DEF Dispatch
<1>12. ASSUME NEW i \in Instances, ProducerStop(i) PROVE ExpiryInv'
  BY <1>12, <1>a DEF ProducerStop
<1>13. ASSUME NEW i \in Instances, AfterPool(i) PROVE ExpiryInv'
  BY <1>13, <1>a DEF AfterPool
<1>14. ASSUME NEW i \in Instances, CancelCheck(i) PROVE ExpiryInv'
  BY <1>14, <1>a DEF CancelCheck, Canceled
<1>15. ASSUME NEW i \in Instances, FailureCheck(i) PROVE ExpiryInv'
  BY <1>15, <1>a DEF FailureCheck
<1>16. ASSUME NEW i \in Instances, CheckComplete(i) PROVE ExpiryInv'
  BY <1>16, <1>a DEF CheckComplete
<1>17. ASSUME NEW i \in Instances, InspectInput(i) PROVE ExpiryInv'
  BY <1>17, <1>a DEF InspectInput
<1>18. ASSUME NEW i \in Instances, Results(i) PROVE ExpiryInv'
  BY <1>18, <1>a DEF Results
<1>19. ASSUME NEW i \in Instances, Patch(i) PROVE ExpiryInv'
  BY <1>19, <1>a DEF Patch
<1>20. ASSUME NEW i \in Instances, PatchedCheck(i) PROVE ExpiryInv'
  BY <1>20, <1>a DEF PatchedCheck, Canceled
<1>21. ASSUME NEW i \in Instances, Finish(i) PROVE ExpiryInv'
  BY <1>21, <1>a DEF Finish, TerminalUpdate, FinishError
<1>22. ASSUME NEW i \in Instances, Discard(i) PROVE ExpiryInv'
  BY <1>22, <1>a DEF Discard
<1>23. ASSUME NEW i \in Instances, AppendAudit(i) PROVE ExpiryInv'
  BY <1>23, <1>a DEF AppendAudit
<1>24. ASSUME NEW i \in Instances, ClearFiles(i) PROVE ExpiryInv'
  BY <1>24, <1>a DEF ClearFiles
<1>25. ASSUME NEW i \in Instances, Heartbeat(i) PROVE ExpiryInv'
  BY <1>25, <1>a DEF Heartbeat
<1>26. ASSUME NEW i \in Instances, ContextCanceled(i) PROVE ExpiryInv'
  BY <1>26, <1>a DEF ContextCanceled, Ended
<1>27. ASSUME NEW i \in Instances, Close(i) PROVE ExpiryInv'
  BY <1>27, <1>a DEF Close
<1>28. ASSUME NEW i \in Instances, Crash(i) PROVE ExpiryInv'
  BY <1>28, <1>a DEF Crash, ForgetRun
<1>29. ASSUME NEW i \in Instances, Restart(i) PROVE ExpiryInv'
  BY <1>29, <1>a DEF Restart
<1>30. ASSUME NEW i \in Instances, ReapConnection(i) PROVE ExpiryInv'
  BY <1>30, <1>a DEF ReapConnection
<1>31. ASSUME NEW i \in Instances, DropConnection(i) PROVE ExpiryInv'
  BY <1>31, <1>a DEF DropConnection
<1>32. ASSUME NEW i \in Instances, NEW a \in Accounts, WorkerInterrupted(i, a) PROVE ExpiryInv'
  BY <1>32, <1>a DEF WorkerInterrupted, WorkerReturns
<1>33. ASSUME NEW i \in Instances, NEW a \in Accounts, LookupFails(i, a) PROVE ExpiryInv'
  BY <1>33, <1>a DEF LookupFails, Fail, WorkerReturns
<1>34. ASSUME NEW i \in Instances, NEW a \in Accounts, Save(i, a) PROVE ExpiryInv'
  BY <1>34, <1>a DEF Save, Fail, WorkerReturns, Checkpoint
<1>35. ASSUME NEW i \in Instances, NEW j \in Jobs, UploadInput(i, j) PROVE ExpiryInv'
  BY <1>35, <1>a DEF UploadInput
<1>36. ASSUME NEW i \in Instances, NEW j \in Jobs, Submit(i, j) PROVE ExpiryInv'
  BY <1>36, <1>a, InstancesAssumption DEF Submit, Create, RowInv
<1>37. ASSUME NEW i \in Instances, NEW j \in Jobs, CleanupRemove(i, j) PROVE ExpiryInv'
  BY <1>37, <1>a DEF CleanupRemove, Expired
<1>38. ASSUME NEW j \in Jobs, Cancel(j) PROVE ExpiryInv'
  BY <1>38, <1>a DEF Cancel
<1>39. ASSUME NEW j \in Jobs, Expire(j) PROVE ExpiryInv'
  BY <1>39, <1>a DEF Expire
<1>40. CASE UNCHANGED vars
  BY <1>40, <1>a DEF vars
<1>41. QED
  BY <1>1, <1>2, <1>3, <1>4, <1>5, <1>6, <1>7, <1>8, <1>9, <1>10, <1>11, <1>12, <1>13, <1>14,
     <1>15, <1>16, <1>17, <1>18, <1>19, <1>20, <1>21, <1>22, <1>23, <1>24, <1>25, <1>26, <1>27,
     <1>28, <1>29, <1>30, <1>31, <1>32, <1>33, <1>34, <1>35, <1>36, <1>37, <1>38, <1>39, <1>40
  DEF Next, LoopStep, WorkerStep, RequestStep, Environment

\* The input of an accepted job is on disk until the job ends, as long as every
\* commit is answered (manager.go Submit, cleanup).
LEMMA InputStep == TypeInv /\ RowInv /\ ExpiryInv /\ InputInv /\ [Next]_vars => InputInv'
<1> SUFFICES ASSUME TypeInv, RowInv, ExpiryInv, InputInv, [Next]_vars PROVE InputInv'
  OBVIOUS
<1> USE InstancesAssumption DEF InputInv, RowInv, ExpiryInv, Spared, Terminals, Goto, Fault, NoFault, dbVars, diskVars, runVars, poolVars
<1>a. /\ status \in [Jobs -> Statuses] /\ upload \in [Jobs -> Instances \cup {NotYet, Over}]
      /\ job \in [Instances -> Jobs \cup {NoJob}] /\ verdict \in [Instances -> {"COMPLETED", "FAILED"}]
      /\ \A k \in Instances : pc[k] \in {"claiming", "clear"} \cup RunPoints => job[k] \in Jobs
      /\ inDisk \in [Jobs -> BOOLEAN]
  BY DEF TypeInv, TypeOK, HasJob
<1>1. ASSUME NEW i \in Instances, AcquireLock(i) PROVE InputInv'
  BY <1>1, <1>a DEF AcquireLock
<1>2. ASSUME NEW i \in Instances, Recover(i) PROVE InputInv'
  BY <1>2, <1>a DEF Recover, RecoverJobs
<1>3. ASSUME NEW i \in Instances, ClaimSelect(i) PROVE InputInv'
  BY <1>3, <1>a DEF ClaimSelect
<1>4. ASSUME NEW i \in Instances, ClaimUpdate(i) PROVE InputInv'
  BY <1>4, <1>a DEF ClaimUpdate, BeginRun, RunPoints
<1>5. ASSUME NEW i \in Instances, Release(i) PROVE InputInv'
  BY <1>5, <1>a DEF Release, ForgetRun
<1>6. ASSUME NEW i \in Instances, Tick(i) PROVE InputInv'
  BY <1>6, <1>a DEF Tick
<1>7. ASSUME NEW i \in Instances, LoopExit(i) PROVE InputInv'
  BY <1>7, <1>a DEF LoopExit
<1>8. ASSUME NEW i \in Instances, RemoveStaleOutput(i) PROVE InputInv'
  BY <1>8, <1>a DEF RemoveStaleOutput
<1>9. ASSUME NEW i \in Instances, FirstCheck(i) PROVE InputInv'
  BY <1>9, <1>a DEF FirstCheck, Canceled
<1>10. ASSUME NEW i \in Instances, FetchPage(i) PROVE InputInv'
  BY <1>10, <1>a DEF FetchPage, Fail
<1>11. ASSUME NEW i \in Instances, Dispatch(i) PROVE InputInv'
  BY <1>11, <1>a DEF Dispatch
<1>12. ASSUME NEW i \in Instances, ProducerStop(i) PROVE InputInv'
  BY <1>12, <1>a DEF ProducerStop
<1>13. ASSUME NEW i \in Instances, AfterPool(i) PROVE InputInv'
  BY <1>13, <1>a DEF AfterPool
<1>14. ASSUME NEW i \in Instances, CancelCheck(i) PROVE InputInv'
  BY <1>14, <1>a DEF CancelCheck, Canceled
<1>15. ASSUME NEW i \in Instances, FailureCheck(i) PROVE InputInv'
  BY <1>15, <1>a DEF FailureCheck
<1>16. ASSUME NEW i \in Instances, CheckComplete(i) PROVE InputInv'
  BY <1>16, <1>a DEF CheckComplete
<1>17. ASSUME NEW i \in Instances, InspectInput(i) PROVE InputInv'
  BY <1>17, <1>a DEF InspectInput
<1>18. ASSUME NEW i \in Instances, Results(i) PROVE InputInv'
  BY <1>18, <1>a DEF Results
<1>19. ASSUME NEW i \in Instances, Patch(i) PROVE InputInv'
  BY <1>19, <1>a DEF Patch
<1>20. ASSUME NEW i \in Instances, PatchedCheck(i) PROVE InputInv'
  BY <1>20, <1>a DEF PatchedCheck, Canceled
<1>21. ASSUME NEW i \in Instances, Finish(i) PROVE InputInv'
  BY <1>21, <1>a DEF Finish, TerminalUpdate, FinishError
<1>22. ASSUME NEW i \in Instances, Discard(i) PROVE InputInv'
  BY <1>22, <1>a DEF Discard
<1>23. ASSUME NEW i \in Instances, AppendAudit(i) PROVE InputInv'
  BY <1>23, <1>a DEF AppendAudit
<1>24. ASSUME NEW i \in Instances, ClearFiles(i) PROVE InputInv'
  BY <1>24, <1>a DEF ClearFiles
<1>25. ASSUME NEW i \in Instances, Heartbeat(i) PROVE InputInv'
  BY <1>25, <1>a DEF Heartbeat
<1>26. ASSUME NEW i \in Instances, ContextCanceled(i) PROVE InputInv'
  BY <1>26, <1>a DEF ContextCanceled, Ended
<1>27. ASSUME NEW i \in Instances, Close(i) PROVE InputInv'
  BY <1>27, <1>a DEF Close
<1>28. ASSUME NEW i \in Instances, Crash(i) PROVE InputInv'
  BY <1>28, <1>a DEF Crash, ForgetRun
<1>29. ASSUME NEW i \in Instances, Restart(i) PROVE InputInv'
  BY <1>29, <1>a DEF Restart
<1>30. ASSUME NEW i \in Instances, ReapConnection(i) PROVE InputInv'
  BY <1>30, <1>a DEF ReapConnection
<1>31. ASSUME NEW i \in Instances, DropConnection(i) PROVE InputInv'
  BY <1>31, <1>a DEF DropConnection
<1>32. ASSUME NEW i \in Instances, NEW a \in Accounts, WorkerInterrupted(i, a) PROVE InputInv'
  BY <1>32, <1>a DEF WorkerInterrupted, WorkerReturns
<1>33. ASSUME NEW i \in Instances, NEW a \in Accounts, LookupFails(i, a) PROVE InputInv'
  BY <1>33, <1>a DEF LookupFails, Fail, WorkerReturns
<1>34. ASSUME NEW i \in Instances, NEW a \in Accounts, Save(i, a) PROVE InputInv'
  BY <1>34, <1>a DEF Save, Fail, WorkerReturns, Checkpoint
<1>35. ASSUME NEW i \in Instances, NEW j \in Jobs, UploadInput(i, j) PROVE InputInv'
  BY <1>35, <1>a DEF UploadInput
<1>36. ASSUME NEW i \in Instances, NEW j \in Jobs, Submit(i, j) PROVE InputInv'
  BY <1>36, <1>a DEF Submit, Create
<1>37. ASSUME NEW i \in Instances, NEW j \in Jobs, CleanupRemove(i, j) PROVE InputInv'
  BY <1>37, <1>a DEF CleanupRemove, Expired
<1>38. ASSUME NEW j \in Jobs, Cancel(j) PROVE InputInv'
  BY <1>38, <1>a DEF Cancel
<1>39. ASSUME NEW j \in Jobs, Expire(j) PROVE InputInv'
  BY <1>39, <1>a DEF Expire
<1>40. CASE UNCHANGED vars
  BY <1>40, <1>a DEF vars
<1>41. QED
  BY <1>1, <1>2, <1>3, <1>4, <1>5, <1>6, <1>7, <1>8, <1>9, <1>10, <1>11, <1>12, <1>13, <1>14,
     <1>15, <1>16, <1>17, <1>18, <1>19, <1>20, <1>21, <1>22, <1>23, <1>24, <1>25, <1>26, <1>27,
     <1>28, <1>29, <1>30, <1>31, <1>32, <1>33, <1>34, <1>35, <1>36, <1>37, <1>38, <1>39, <1>40
  DEF Next, LoopStep, WorkerStep, RequestStep, Environment

\* A run that ends has removed, discarded or named its output, a request has
\* removed or handed over its input, and cleanup removes a file before it
\* blanks its name (manager.go run, finish, Submit, cleanup).
LEMMA OrphanStep == TypeInv /\ CheckedInv /\ RowInv /\ LockInv /\ ExpiryInv /\ OrphanInv /\ [Next]_vars => OrphanInv'
<1> SUFFICES ASSUME TypeInv, CheckedInv, RowInv, LockInv, ExpiryInv, OrphanInv, [Next]_vars PROVE OrphanInv'
  OBVIOUS
<1> USE DEF OrphanInv, NoOrphanFiles, UnpatchedPoints, LockInv, ExpiryInv, RowInv, Spared, Terminals, Runs, Running,
        LockPoints, RunPoints, PoolPoints, Goto, Fault, NoFault, dbVars, diskVars, runVars, poolVars
<1>a. /\ status \in [Jobs -> Statuses] /\ pc \in [Instances -> Points]
      /\ job \in [Instances -> Jobs \cup {NoJob}] /\ verdict \in [Instances -> {"COMPLETED", "FAILED"}]
      /\ \A k \in Instances : pc[k] \in {"claiming", "clear"} \cup RunPoints => job[k] \in Jobs
      /\ inDisk \in [Jobs -> BOOLEAN] /\ outDisk \in [Jobs -> BOOLEAN]
      /\ inputFile \in [Jobs -> BOOLEAN] /\ outputFile \in [Jobs -> BOOLEAN]
      /\ upload \in [Jobs -> Instances \cup {NotYet, Over}]
  BY DEF TypeInv, TypeOK, HasJob
<1>1. ASSUME NEW i \in Instances, AcquireLock(i) PROVE OrphanInv'
  BY <1>1, <1>a DEF AcquireLock
<1>2. ASSUME NEW i \in Instances, Recover(i) PROVE OrphanInv'
  BY <1>2, <1>a DEF Recover, RecoverJobs
<1>3. ASSUME NEW i \in Instances, ClaimSelect(i) PROVE OrphanInv'
  BY <1>3, <1>a DEF ClaimSelect
<1>4. ASSUME NEW i \in Instances, ClaimUpdate(i) PROVE OrphanInv'
  BY <1>4, <1>a DEF ClaimUpdate, BeginRun
<1>5. ASSUME NEW i \in Instances, Release(i) PROVE OrphanInv'
  BY <1>5, <1>a DEF Release, ForgetRun
<1>6. ASSUME NEW i \in Instances, Tick(i) PROVE OrphanInv'
  BY <1>6, <1>a DEF Tick
<1>7. ASSUME NEW i \in Instances, LoopExit(i) PROVE OrphanInv'
  BY <1>7, <1>a DEF LoopExit
<1>8. ASSUME NEW i \in Instances, RemoveStaleOutput(i) PROVE OrphanInv'
  BY <1>8, <1>a DEF RemoveStaleOutput
<1>9. ASSUME NEW i \in Instances, FirstCheck(i) PROVE OrphanInv'
  BY <1>9, <1>a DEF FirstCheck, Canceled
<1>10. ASSUME NEW i \in Instances, FetchPage(i) PROVE OrphanInv'
  BY <1>10, <1>a DEF FetchPage, Fail
<1>11. ASSUME NEW i \in Instances, Dispatch(i) PROVE OrphanInv'
  BY <1>11, <1>a DEF Dispatch
<1>12. ASSUME NEW i \in Instances, ProducerStop(i) PROVE OrphanInv'
  BY <1>12, <1>a DEF ProducerStop
<1>13. ASSUME NEW i \in Instances, AfterPool(i) PROVE OrphanInv'
  BY <1>13, <1>a DEF AfterPool
<1>14. ASSUME NEW i \in Instances, CancelCheck(i) PROVE OrphanInv'
  BY <1>14, <1>a DEF CancelCheck, Canceled
<1>15. ASSUME NEW i \in Instances, FailureCheck(i) PROVE OrphanInv'
  BY <1>15, <1>a DEF FailureCheck
<1>16. ASSUME NEW i \in Instances, CheckComplete(i) PROVE OrphanInv'
  BY <1>16, <1>a DEF CheckComplete
<1>17. ASSUME NEW i \in Instances, InspectInput(i) PROVE OrphanInv'
  BY <1>17, <1>a DEF InspectInput
<1>18. ASSUME NEW i \in Instances, Results(i) PROVE OrphanInv'
  BY <1>18, <1>a DEF Results
<1>19. ASSUME NEW i \in Instances, Patch(i) PROVE OrphanInv'
  BY <1>19, <1>a DEF Patch
<1>20. ASSUME NEW i \in Instances, PatchedCheck(i) PROVE OrphanInv'
  BY <1>20, <1>a DEF PatchedCheck, Canceled, CheckedInv
<1>21. ASSUME NEW i \in Instances, Finish(i) PROVE OrphanInv'
  <2>1. /\ pc[i] = "finish" /\ UNCHANGED <<inputFile, inDisk, outDisk, upload, job, verdict>>
        /\ \A k \in Instances : k # i => pc'[k] = pc[k]
        /\ \A j \in Jobs : j # job[i] => outputFile'[j] = outputFile[j]
    BY <1>21, <1>a DEF Finish, TerminalUpdate, FinishError
  <2>2. CASE verdict[i] = "COMPLETED"
    <3>a. (verdict[i] = "COMPLETED") = TRUE
      BY <2>2
    <3>1. pc'[i] = "discard" \/ (pc'[i] = "audit" /\ outputFile'[job[i]])
      <4>1. pc'[i] = "discard" \/ (pc'[i] = "audit" /\ TerminalUpdate(i))
        BY <1>21, <1>a, <2>2 DEF Finish, FinishError
      <4>2. job[i] \in Jobs
        BY <1>a, <2>1
      <4>3. TerminalUpdate(i) => outputFile'[job[i]] = (verdict[i] = "COMPLETED")
        BY <1>a, <4>2 DEF TerminalUpdate
      <4>4. QED
        BY <4>1, <4>3, <3>a
    <3>2. QED
      BY <2>1, <2>2, <3>1, <1>21, <1>a DEF Finish
  <2>3. CASE verdict[i] = "FAILED"
    <3>1. pc'[i] = "release"
      BY <1>21, <1>a, <2>3 DEF Finish, TerminalUpdate, FinishError
    <3>2. QED
      BY <2>1, <2>3, <3>1, <1>21, <1>a DEF Finish
  <2>4. QED
    BY <1>a, <2>2, <2>3
<1>22. ASSUME NEW i \in Instances, Discard(i) PROVE OrphanInv'
  BY <1>22, <1>a DEF Discard
<1>23. ASSUME NEW i \in Instances, AppendAudit(i) PROVE OrphanInv'
  BY <1>23, <1>a DEF AppendAudit
<1>24. ASSUME NEW i \in Instances, ClearFiles(i) PROVE OrphanInv'
  BY <1>24, <1>a DEF ClearFiles
<1>25. ASSUME NEW i \in Instances, Heartbeat(i) PROVE OrphanInv'
  BY <1>25, <1>a DEF Heartbeat
<1>26. ASSUME NEW i \in Instances, ContextCanceled(i) PROVE OrphanInv'
  BY <1>26, <1>a DEF ContextCanceled, Ended
<1>27. ASSUME NEW i \in Instances, Close(i) PROVE OrphanInv'
  BY <1>27, <1>a DEF Close
<1>28. ASSUME NEW i \in Instances, Crash(i) PROVE OrphanInv'
  BY <1>28, <1>a DEF Crash, ForgetRun
<1>29. ASSUME NEW i \in Instances, Restart(i) PROVE OrphanInv'
  BY <1>29, <1>a DEF Restart
<1>30. ASSUME NEW i \in Instances, ReapConnection(i) PROVE OrphanInv'
  BY <1>30, <1>a DEF ReapConnection
<1>31. ASSUME NEW i \in Instances, DropConnection(i) PROVE OrphanInv'
  BY <1>31, <1>a DEF DropConnection
<1>32. ASSUME NEW i \in Instances, NEW a \in Accounts, WorkerInterrupted(i, a) PROVE OrphanInv'
  BY <1>32, <1>a DEF WorkerInterrupted, WorkerReturns
<1>33. ASSUME NEW i \in Instances, NEW a \in Accounts, LookupFails(i, a) PROVE OrphanInv'
  BY <1>33, <1>a DEF LookupFails, Fail, WorkerReturns
<1>34. ASSUME NEW i \in Instances, NEW a \in Accounts, Save(i, a) PROVE OrphanInv'
  BY <1>34, <1>a DEF Save, Fail, WorkerReturns, Checkpoint
<1>35. ASSUME NEW i \in Instances, NEW j \in Jobs, UploadInput(i, j) PROVE OrphanInv'
  <2>1. /\ upload[j] # Over /\ UNCHANGED <<pc, job, verdict, status, inputFile, outputFile, outDisk, expired, faults>>
        /\ upload' = [upload EXCEPT ![j] = i] /\ inDisk' = [inDisk EXCEPT ![j] = TRUE]
    BY <1>35 DEF UploadInput, NotYet, Over
  <2>2. ~expired[j]
    BY <2>1
  <2>3. \A k \in Instances : pc[k] = "clear" => job[k] # j
    BY <2>2
  <2>4. QED
    BY <1>a, <2>1, <2>3
<1>36. ASSUME NEW i \in Instances, NEW j \in Jobs, Submit(i, j) PROVE OrphanInv'
  BY <1>36, <1>a, InstancesAssumption DEF Submit, Create
<1>37. ASSUME NEW i \in Instances, NEW j \in Jobs, CleanupRemove(i, j) PROVE OrphanInv'
  <2>1. /\ pc[i] = "idle" /\ status[j] \in Terminals /\ expired[j]
        /\ UNCHANGED <<status, inputFile, outputFile, upload, verdict, expired>>
        /\ \A k \in Instances : k # i => pc'[k] = pc[k] /\ job'[k] = job[k]
        /\ \A q \in Jobs : (inDisk'[q] => inDisk[q]) /\ (outDisk'[q] => outDisk[q])
    BY <1>37, <1>a DEF CleanupRemove, Expired
  <2>2. upload[j] \notin Instances /\ \A k \in Instances : ~Runs(k, j)
    BY <2>1, InstancesAssumption
  <2>3. pc'[i] = "idle" \/ (pc'[i] = "clear" /\ job'[i] = j)
    BY <1>37, <1>a, <2>1 DEF CleanupRemove
  <2>4. pc'[i] = "clear" => (inDisk'[j] => ~inputFile[j]) /\ (outDisk'[j] => ~outputFile[j])
    <3>1. CASE pc'[i] = "clear"
      <4>1. /\ inDisk'[j] = (inDisk[j] /\ ~inputFile[j])
            /\ outDisk'[j] = (outDisk[j] /\ ~outputFile[j])
        BY <1>37, <1>a, <2>1, <3>1 DEF CleanupRemove
      <4>2. QED
        BY <4>1, Zenon
    <3>2. QED
      BY <3>1
  <2>5. faults.kinds \subseteq faults'.kinds
    BY <1>37 DEF CleanupRemove
  <2>6. QED
    BY <1>a, <2>1, <2>2, <2>3, <2>4, <2>5
<1>38. ASSUME NEW j \in Jobs, Cancel(j) PROVE OrphanInv'
  BY <1>38, <1>a DEF Cancel
<1>39. ASSUME NEW j \in Jobs, Expire(j) PROVE OrphanInv'
  BY <1>39, <1>a DEF Expire
<1>40. CASE UNCHANGED vars
  BY <1>40, <1>a DEF vars
<1>41. QED
  BY <1>1, <1>2, <1>3, <1>4, <1>5, <1>6, <1>7, <1>8, <1>9, <1>10, <1>11, <1>12, <1>13, <1>14,
     <1>15, <1>16, <1>17, <1>18, <1>19, <1>20, <1>21, <1>22, <1>23, <1>24, <1>25, <1>26, <1>27,
     <1>28, <1>29, <1>30, <1>31, <1>32, <1>33, <1>34, <1>35, <1>36, <1>37, <1>38, <1>39, <1>40
  DEF Next, LoopStep, WorkerStep, RequestStep, Environment

\* Pending's page is an initial segment of the accounts after the cursor: an
\* account that is left out is larger (repository.go Pending).
LEMMA PageIsInitial ==
    ASSUME NEW S \in SUBSET Accounts, NEW a \in S, NEW p \in FirstPage(S), a \notin FirstPage(S)
    PROVE  p < a
<1>1. a \in Nat /\ p \in Nat /\ p \in S
  BY AccountsAssumption DEF FirstPage
<1>2. SUFFICES ASSUME a <= p PROVE FALSE
  BY <1>1
<1> DEFINE Upto(x) == {b \in S : b <= x}
<1>3. Upto(a) \subseteq Upto(p)
  <2>1. \A b \in S : b \in Nat
    BY AccountsAssumption
  <2>2. \A b \in S : b <= a => b <= p
    BY <1>1, <1>2, <2>1
  <2>3. QED
    BY <2>2
<1>4. IsFiniteSet(Upto(p)) /\ Upto(p) \in SUBSET Accounts /\ Upto(a) \in SUBSET Accounts
  BY AccountsAssumption, FS_Subset
<1>5. Cardinality(Upto(a)) <= Cardinality(Upto(p))
  BY <1>3, <1>4, FS_Subset
<1>6. Cardinality(Upto(a)) \in Nat /\ Cardinality(Upto(p)) \in Nat
  BY <1>4, AccountsAssumption, FS_Subset, FS_CardinalityType
<1>7. Cardinality(Upto(p)) <= PageSize
  BY DEF FirstPage
<1>8. ~(Cardinality(Upto(a)) <= PageSize)
  BY DEF FirstPage
<1>9. QED
  BY <1>5, <1>6, <1>7, <1>8, PageSizeAssumption

\* A fault that has happened stays recorded.
LEMMA SparedBefore ==
    ASSUME [Next]_vars, NEW K, Spared(K)'
    PROVE  Spared(K)
<1> USE DEF Fault, NoFault
<1>1. ASSUME NEW i \in Instances, LoopStep(i) PROVE faults.kinds \subseteq faults'.kinds
  <2>1. CASE AcquireLock(i) \/ Recover(i) \/ ClaimSelect(i) \/ ClaimUpdate(i) \/ Release(i) \/ Tick(i)
             \/ LoopExit(i) \/ RemoveStaleOutput(i) \/ FirstCheck(i)
    BY <2>1 DEF AcquireLock, Recover, ClaimSelect, ClaimUpdate, Release, Tick, LoopExit, RemoveStaleOutput,
       FirstCheck
  <2>2. CASE FetchPage(i) \/ Dispatch(i) \/ ProducerStop(i) \/ AfterPool(i) \/ CancelCheck(i)
             \/ FailureCheck(i) \/ CheckComplete(i)
    BY <2>2 DEF FetchPage, Dispatch, ProducerStop, AfterPool, CancelCheck, FailureCheck, CheckComplete
  <2>3. CASE InspectInput(i) \/ Results(i) \/ Patch(i) \/ PatchedCheck(i) \/ Finish(i) \/ Discard(i)
             \/ AppendAudit(i) \/ ClearFiles(i)
    BY <2>3 DEF InspectInput, Results, Patch, PatchedCheck, Finish, Discard, AppendAudit, ClearFiles
  <2>4. QED
    BY <1>1, <2>1, <2>2, <2>3 DEF LoopStep
<1>2. ASSUME NEW i \in Instances,
             WorkerStep(i) \/ Heartbeat(i) \/ ContextCanceled(i) \/ Environment(i)
             \/ \E j \in Jobs : CleanupRemove(i, j)
      PROVE  faults.kinds \subseteq faults'.kinds
  BY <1>2 DEF WorkerStep, WorkerInterrupted, LookupFails, Save, Heartbeat, ContextCanceled, Environment, Close,
     Crash, Restart, ReapConnection, DropConnection, CleanupRemove
<1>3. ASSUME NEW j \in Jobs, RequestStep(j) \/ Expire(j) PROVE faults.kinds \subseteq faults'.kinds
  BY <1>3 DEF RequestStep, UploadInput, Submit, Cancel, Expire
<1>4. ASSUME UNCHANGED vars PROVE faults.kinds \subseteq faults'.kinds
  BY <1>4 DEF vars
<1>5. faults.kinds \subseteq faults'.kinds
  BY <1>1, <1>2, <1>3, <1>4 DEF Next
<1>6. QED
  BY <1>5 DEF Spared

\* The manager of instance k does not move.
Untouched(k) ==
    /\ pc'[k] = pc[k] /\ job'[k] = job[k] /\ root'[k] = root[k] /\ lost'[k] = lost[k]
    /\ ctx'[k] = ctx[k] /\ failed'[k] = failed[k] /\ verdict'[k] = verdict[k]
    /\ after'[k] = after[k] /\ page'[k] = page[k] /\ inflight'[k] = inflight[k]

\* A run is not harmed by what others do to other jobs, nor by a cancellation.
LEMMA OthersUnharmed ==
    ASSUME NEW k \in Instances, Unharmed(k), Untouched(k),
           Running(k) => /\ done'[job[k]] = done[job[k]]
                         /\ status[job[k]] \in Terminals => status'[job[k]] \in Terminals
    PROVE  Unharmed(k)'
<1> USE DEF Untouched, Running
<1>1. Running(k) /\ Excused(k) => Excused(k)'
  BY DEF Excused, Ended, Terminals, Canceled
<1>2. Running(k) /\ Covered(k) => Covered(k)'
  BY DEF Covered
<1>3. PoolPoints \subseteq RunPoints /\ {"verdict", "reason", "complete", "finish"} \subseteq RunPoints
  BY DEF RunPoints
<1>4. QED
  BY <1>1, <1>2, <1>3 DEF Unharmed

\* While processes only die, an instance that lives finishes what it runs: only
\* a cancellation or an account that cannot be looked up ends a job
\* (manager.go run, fail).
LEMMA CrashStep ==
    /\ TypeInv /\ CheckedInv /\ RowInv /\ LockInv /\ OutputInv /\ InputInv /\ CrashInv
    /\ [Next]_vars
    => CrashInv'
<1> SUFFICES ASSUME TypeInv, CheckedInv, RowInv, LockInv, OutputInv, InputInv, CrashInv, [Next]_vars,
                    Spared(AllFaults \ {"crash"})'
             PROVE  InterruptionNeverFails' /\ \A k \in Instances : Unharmed(k)'
  BY DEF CrashInv
<1> DEFINE Harmless == InterruptionNeverFails' /\ \A k \in Instances : Unharmed(k)'
<1>b. Spared(AllFaults \ {"crash"})
  BY SparedBefore
<1>c. InterruptionNeverFails /\ \A k \in Instances : Unharmed(k)
  BY <1>b DEF CrashInv
<1>d. \A k, l \in Instances : pc[k] \in LockPoints /\ pc[l] \in LockPoints => lockOwner = k /\ k = l
  BY <1>b DEF LockInv, Spared, AllFaults
<1>e. \A k \in Instances : Running(k) /\ pc[k] # "audit" => status[job[k]] \in {"PROCESSING", "CANCELED"}
  BY <1>b DEF OutputInv, Spared, AllFaults
<1>f. ~Fault("shutdown") /\ ~Fault("drop") /\ ~Fault("db") /\ ~Fault("ambiguous") /\ ~Fault("storage")
  BY DEF Fault, Spared, AllFaults
<1>g. \A j \in Jobs : status[j] = "PROCESSING" => inDisk[j]
  BY <1>b DEF InputInv, Spared, AllFaults
<1>a. /\ status \in [Jobs -> Statuses] /\ pc \in [Instances -> Points] /\ done \in [Jobs -> SUBSET Accounts]
      /\ job \in [Instances -> Jobs \cup {NoJob}] /\ verdict \in [Instances -> {"COMPLETED", "FAILED"}]
      /\ \A k \in Instances : pc[k] \in {"claiming", "clear"} \cup RunPoints => job[k] \in Jobs
      /\ lost \in [Instances -> BOOLEAN] /\ root \in [Instances -> BOOLEAN]
      /\ ctx \in [Instances -> BOOLEAN] /\ failed \in [Instances -> BOOLEAN]
      /\ after \in [Instances -> Accounts \cup {0}] /\ page \in [Instances -> SUBSET Accounts]
      /\ inflight \in [Instances -> SUBSET Accounts] /\ alive \in [Instances -> 0..Concurrency]
  BY DEF TypeInv, TypeOK, HasJob
<1>h. \A k \in Instances : pc[k] \notin PoolPoints => inflight[k] = {}
  BY DEF TypeInv, PoolInv
<1> DEFINE Only(i) == \A k \in Instances : k # i => Untouched(k)
           RowsSame == UNCHANGED <<status, done>>
\* a step of one instance that leaves the rows alone
<1>i. ASSUME NEW i \in Instances, Only(i), RowsSame, Unharmed(i)' PROVE Harmless
  <2>1. \A k \in Instances : k # i => Unharmed(k)'
    BY <1>c, <1>i, OthersUnharmed
  <2>2. InterruptionNeverFails'
    BY <1>c, <1>i DEF InterruptionNeverFails
  <2>3. QED
    BY <1>i, <2>1, <2>2
\* a step of the instance that holds the lock
<1>j. ASSUME NEW i \in Instances, Only(i), pc[i] \in LockPoints, Unharmed(i)', InterruptionNeverFails' PROVE Harmless
  <2>1. \A k \in Instances : k # i => ~Running(k)
    BY <1>d, <1>j DEF Running, LockPoints
  <2>2. \A k \in Instances : k # i => Unharmed(k)'
    BY <1>c, <1>j, <2>1, OthersUnharmed
  <2>3. QED
    BY <1>j, <2>2
\* a step of no instance
<1>k. ASSUME \A k \in Instances : Untouched(k), done' = done,
             \A j \in Jobs : status'[j] = status[j] \/ (status'[j] \in {"QUEUED", "CANCELED"} /\ status[j] \notin Terminals)
      PROVE  Harmless
  <2>1. \A k \in Instances : Unharmed(k)'
    <3> SUFFICES ASSUME NEW k \in Instances PROVE Unharmed(k)'
      OBVIOUS
    <3>1. Running(k) => job[k] \in Jobs
      BY <1>a DEF Running
    <3>2. QED
      BY <1>c, <1>k, <3>1, OthersUnharmed
  <2>2. InterruptionNeverFails'
    BY <1>c, <1>k DEF InterruptionNeverFails
  <2>3. QED
    BY <2>1, <2>2
<1> USE DEF Goto, dbVars, diskVars, runVars, poolVars
<1> HIDE DEF Harmless, Only
<1>1. ASSUME NEW i \in Instances, AcquireLock(i) PROVE Harmless
  <2>1. Only(i) /\ RowsSame
    BY <1>1, <1>a, <1>f DEF AcquireLock, Only, Untouched
  <2>2. Unharmed(i)'
    BY <1>1, <1>a, <1>c, <1>f DEF AcquireLock, Unharmed, Running, RunPoints, PoolPoints
  <2>3. QED
    BY <1>i, <2>1, <2>2
<1>2. ASSUME NEW i \in Instances, Recover(i) PROVE Harmless
  <2>1. Only(i) /\ pc[i] \in LockPoints
    BY <1>2, <1>a, <1>f DEF Recover, RecoverJobs, Only, Untouched, LockPoints, RunPoints, PoolPoints
  <2>2. Unharmed(i)'
    BY <1>2, <1>a, <1>c, <1>f DEF Recover, RecoverJobs, Unharmed, Running, RunPoints, PoolPoints
  <2>3. InterruptionNeverFails'
    BY <1>2, <1>a, <1>c, <1>f DEF Recover, RecoverJobs, InterruptionNeverFails
  <2>4. QED
    BY <1>j, <2>1, <2>2, <2>3
<1>3. ASSUME NEW i \in Instances, ClaimSelect(i) PROVE Harmless
  <2>1. Only(i) /\ RowsSame
    BY <1>3, <1>a, <1>f DEF ClaimSelect, Only, Untouched
  <2>2. Unharmed(i)'
    BY <1>3, <1>a, <1>c, <1>f DEF ClaimSelect, Unharmed, Running, RunPoints, PoolPoints
  <2>3. QED
    BY <1>i, <2>1, <2>2
<1>4. ASSUME NEW i \in Instances, ClaimUpdate(i) PROVE Harmless
  <2>1. Only(i) /\ pc[i] \in LockPoints
    BY <1>4, <1>a, <1>f DEF ClaimUpdate, BeginRun, Only, Untouched, LockPoints, RunPoints, PoolPoints
  <2>2. Unharmed(i)'
    BY <1>4, <1>a, <1>c, <1>f DEF ClaimUpdate, BeginRun, Unharmed, Running, RunPoints, PoolPoints
  <2>3. InterruptionNeverFails'
    BY <1>4, <1>a, <1>c, <1>f DEF ClaimUpdate, BeginRun, InterruptionNeverFails
  <2>4. QED
    BY <1>j, <2>1, <2>2, <2>3
<1>5. ASSUME NEW i \in Instances, Release(i) PROVE Harmless
  <2>1. Only(i) /\ RowsSame
    BY <1>5, <1>a, <1>f DEF Release, ForgetRun, Only, Untouched
  <2>2. Unharmed(i)'
    BY <1>5, <1>a, <1>c, <1>f DEF Release, ForgetRun, Unharmed, Running, RunPoints, PoolPoints
  <2>3. QED
    BY <1>i, <2>1, <2>2
<1>6. ASSUME NEW i \in Instances, Tick(i) PROVE Harmless
  <2>1. Only(i) /\ RowsSame
    BY <1>6, <1>a, <1>f DEF Tick, Only, Untouched
  <2>2. Unharmed(i)'
    BY <1>6, <1>a, <1>c, <1>f DEF Tick, Unharmed, Running, RunPoints, PoolPoints
  <2>3. QED
    BY <1>i, <2>1, <2>2
<1>7. ASSUME NEW i \in Instances, LoopExit(i) PROVE Harmless
  <2>1. Only(i) /\ RowsSame
    BY <1>7, <1>a, <1>f DEF LoopExit, Only, Untouched
  <2>2. Unharmed(i)'
    BY <1>7, <1>a, <1>c, <1>f DEF LoopExit, Unharmed, Running, RunPoints, PoolPoints
  <2>3. QED
    BY <1>i, <2>1, <2>2
<1>8. ASSUME NEW i \in Instances, RemoveStaleOutput(i) PROVE Harmless
  <2>1. Only(i) /\ RowsSame
    BY <1>8, <1>a, <1>f DEF RemoveStaleOutput, Only, Untouched
  <2>2. Unharmed(i)'
    BY <1>8, <1>a, <1>c, <1>f DEF RemoveStaleOutput, Unharmed, Running, RunPoints, PoolPoints, Excused, Ended, Terminals, Canceled
  <2>3. QED
    BY <1>i, <2>1, <2>2
<1>9. ASSUME NEW i \in Instances, FirstCheck(i) PROVE Harmless
  <2>1. Only(i) /\ RowsSame
    BY <1>9, <1>a, <1>f DEF FirstCheck, Only, Untouched
  <2>2. pc'[i] = "pool" => Covered(i)'
    <3> SUFFICES ASSUME pc'[i] = "pool" PROVE Covered(i)'
      OBVIOUS
    <3>1. pc[i] = "check" /\ UNCHANGED <<after, page, inflight, job, done>>
      BY <1>9, <1>a, <1>f DEF FirstCheck
    <3>2. after[i] = 0 /\ page[i] = {} /\ inflight[i] = {}
      BY <1>c, <1>h, <3>1 DEF Unharmed, PoolPoints, RunPoints
    <3>3. \A a \in Accounts : a > 0
      BY AccountsAssumption
    <3>4. QED
      BY <3>1, <3>2, <3>3 DEF Covered
  <2>3. Unharmed(i)'
    BY <1>9, <1>a, <1>c, <1>f, <2>2 DEF FirstCheck, Unharmed, Running, RunPoints, PoolPoints, Excused, Ended, Terminals, Canceled
  <2>4. QED
    BY <1>i, <2>1, <2>3
<1>10. ASSUME NEW i \in Instances, FetchPage(i) PROVE Harmless
  <2>1. Only(i) /\ RowsSame
    BY <1>10, <1>a, <1>f DEF FetchPage, Only, Untouched
  <2>2. /\ pc[i] = "pool" /\ ~ctx[i] /\ page[i] = {} /\ Covered(i) /\ job[i] \in Jobs
        /\ UNCHANGED <<job, done, after, inflight, ctx, root, lost, failed, verdict>>
    BY <1>10, <1>a, <1>c, <1>f DEF FetchPage, Unharmed, PoolPoints, RunPoints
  <2> DEFINE U == Unprocessed(job[i], after[i])
  <2>3. U \in SUBSET Accounts /\ \A a \in U : a > after[i] /\ a \notin done[job[i]]
    BY DEF Unprocessed
  <2>4. Covered(i)'
    <3>1. CASE UNCHANGED pc /\ page'[i] = FirstPage(U)
      <4>1. FirstPage(U) \subseteq U
        BY DEF FirstPage
      <4>2. \A a \in Accounts \ done[job[i]] : a \in inflight[i] \/ a \in U
        BY <2>2 DEF Covered, Unprocessed
      <4>3. \A a \in U : a \in FirstPage(U) \/ \A p \in FirstPage(U) : p < a
        BY <2>3, PageIsInitial
      <4> HIDE DEF U
      <4>4. QED
        BY <2>2, <2>3, <3>1, <4>1, <4>2, <4>3 DEF Covered
    <3>2. CASE U = {} /\ page' = page /\ pc'[i] = "drain"
      BY <2>2, <3>2 DEF Covered, Unprocessed
    <3>3. QED
      BY <1>10, <1>a, <1>f, <3>1, <3>2 DEF FetchPage
  <2>5. pc'[i] \in PoolPoints
    BY <1>10, <1>a, <1>f, <2>2 DEF FetchPage, PoolPoints
  <2>6. Unharmed(i)'
    BY <1>c, <2>2, <2>4, <2>5 DEF Unharmed, Running, RunPoints, PoolPoints
  <2>7. QED
    BY <1>i, <2>1, <2>6
<1>11. ASSUME NEW i \in Instances, Dispatch(i) PROVE Harmless
  <2>1. Only(i) /\ RowsSame
    BY <1>11, <1>a, <1>f DEF Dispatch, Only, Untouched
  <2>2. /\ pc[i] = "pool" /\ ~ctx[i] /\ Covered(i)
        /\ UNCHANGED <<pc, job, done, ctx, root, lost, failed, verdict>>
    BY <1>11, <1>c DEF Dispatch, Unharmed, PoolPoints
  <2>3. PICK a \in page[i] : /\ \A b \in page[i] : a <= b
                            /\ page'[i] = page[i] \ {a} /\ after'[i] = a /\ inflight'[i] = inflight[i] \cup {a}
    BY <1>11, <1>a DEF Dispatch
  <2>4. /\ page[i] \subseteq Nat /\ inflight[i] \subseteq Nat /\ after[i] \in Nat /\ Accounts \subseteq Nat
    <3>1. Accounts \subseteq Nat /\ 0 \in Nat
      BY AccountsAssumption
    <3>2. page[i] \in SUBSET Accounts /\ inflight[i] \in SUBSET Accounts /\ after[i] \in Accounts \cup {0}
      BY <1>a
    <3>3. QED
      BY <3>1, <3>2
  <2>5. Covered(i)'
    BY <2>2, <2>3, <2>4 DEF Covered
  <2>6. Unharmed(i)'
    BY <1>c, <2>2, <2>5 DEF Unharmed, Running, RunPoints, PoolPoints
  <2>7. QED
    BY <1>i, <2>1, <2>6
<1>12. ASSUME NEW i \in Instances, ProducerStop(i) PROVE Harmless
  <2>1. Only(i) /\ RowsSame
    BY <1>12, <1>a, <1>f DEF ProducerStop, Only, Untouched
  <2>2. Unharmed(i)'
    BY <1>12, <1>a, <1>c, <1>f DEF ProducerStop, Unharmed, Running, RunPoints, PoolPoints, Excused, Ended, Terminals, Canceled
  <2>3. QED
    BY <1>i, <2>1, <2>2
<1>13. ASSUME NEW i \in Instances, AfterPool(i) PROVE Harmless
  <2>1. Only(i) /\ RowsSame
    BY <1>13, <1>a, <1>f DEF AfterPool, Only, Untouched
  <2>2. ~ctx[i] => done[job[i]] = Accounts
    <3> SUFFICES ASSUME ~ctx[i] PROVE done[job[i]] = Accounts
      OBVIOUS
    <3>1. Covered(i) /\ pc[i] = "drain" /\ inflight[i] = {}
      BY <1>13, <1>c DEF AfterPool, Unharmed, PoolPoints
    <3>2. done[job[i]] \in SUBSET Accounts
      BY <1>a, <3>1 DEF RunPoints, PoolPoints
    <3>3. QED
      BY <3>1, <3>2 DEF Covered
  <2>3. Unharmed(i)'
    BY <1>13, <1>a, <1>c, <2>2 DEF AfterPool, Unharmed, Running, RunPoints, PoolPoints, Excused, Ended, Terminals, Canceled
  <2>4. QED
    BY <1>i, <2>1, <2>3
<1>14. ASSUME NEW i \in Instances, CancelCheck(i) PROVE Harmless
  <2>1. Only(i) /\ RowsSame
    BY <1>14, <1>a, <1>f DEF CancelCheck, Only, Untouched
  <2>2. Unharmed(i)'
    BY <1>14, <1>a, <1>c, <1>f DEF CancelCheck, Unharmed, Running, RunPoints, PoolPoints, Excused, Ended, Terminals, Canceled
  <2>3. QED
    BY <1>i, <2>1, <2>2
<1>15. ASSUME NEW i \in Instances, FailureCheck(i) PROVE Harmless
  <2>1. Only(i) /\ RowsSame
    BY <1>15, <1>a, <1>f DEF FailureCheck, Only, Untouched
  <2>2. Unharmed(i)'
    BY <1>15, <1>a, <1>c, <1>f DEF FailureCheck, Unharmed, Running, RunPoints, PoolPoints, Excused, Ended, Terminals, Canceled
  <2>3. QED
    BY <1>i, <2>1, <2>2
<1>16. ASSUME NEW i \in Instances, CheckComplete(i) PROVE Harmless
  <2>1. Only(i) /\ RowsSame
    BY <1>16, <1>a, <1>f DEF CheckComplete, Only, Untouched
  <2>2. Unharmed(i)'
    BY <1>16, <1>a, <1>c, <1>f DEF CheckComplete, Unharmed, Running, RunPoints, PoolPoints, Excused, Ended, Terminals, Canceled
  <2>3. QED
    BY <1>i, <2>1, <2>2
<1>17. ASSUME NEW i \in Instances, InspectInput(i) PROVE Harmless
  <2>1. Only(i) /\ RowsSame
    BY <1>17, <1>a, <1>f DEF InspectInput, Only, Untouched
  <2>2. Unharmed(i)'
    BY <1>17, <1>a, <1>c, <1>f, <1>e, <1>g DEF InspectInput, Unharmed, Running, RunPoints, PoolPoints, Excused, Ended, Terminals, Canceled
  <2>3. QED
    BY <1>i, <2>1, <2>2
<1>18. ASSUME NEW i \in Instances, Results(i) PROVE Harmless
  <2>1. Only(i) /\ RowsSame
    BY <1>18, <1>a, <1>f DEF Results, Only, Untouched
  <2>2. Unharmed(i)'
    BY <1>18, <1>a, <1>c, <1>f DEF Results, Unharmed, Running, RunPoints, PoolPoints, Excused, Ended, Terminals, Canceled
  <2>3. QED
    BY <1>i, <2>1, <2>2
<1>19. ASSUME NEW i \in Instances, Patch(i) PROVE Harmless
  <2>1. Only(i) /\ RowsSame
    BY <1>19, <1>a, <1>f DEF Patch, Only, Untouched
  <2>2. Unharmed(i)'
    BY <1>19, <1>a, <1>c, <1>f, <1>e, <1>g DEF Patch, Unharmed, Running, RunPoints, PoolPoints, Excused, Ended, Terminals, Canceled
  <2>3. QED
    BY <1>i, <2>1, <2>2
<1>20. ASSUME NEW i \in Instances, PatchedCheck(i) PROVE Harmless
  <2>1. Only(i) /\ RowsSame
    BY <1>20, <1>a, <1>f DEF PatchedCheck, Only, Untouched
  <2>2. Unharmed(i)'
    BY <1>20, <1>a, <1>c, <1>f DEF PatchedCheck, Unharmed, Running, RunPoints, PoolPoints, Excused, Ended, Terminals, Canceled
  <2>3. QED
    BY <1>i, <2>1, <2>2
<1>21. ASSUME NEW i \in Instances, Finish(i) PROVE Harmless
  <2>1. Only(i) /\ pc[i] \in LockPoints
    BY <1>21, <1>a, <1>f DEF Finish, FinishError, Only, Untouched, LockPoints, RunPoints
  <2>2. /\ pc[i] = "finish" /\ job[i] \in Jobs /\ done' = done
        /\ UNCHANGED <<job, root, lost, ctx, failed, verdict, after, page, inflight>>
    BY <1>21, <1>a, <1>f DEF Finish, TerminalUpdate, RunPoints
  <2>3. pc'[i] = "audit" => verdict[i] = "COMPLETED" /\ status[job[i]] = "PROCESSING"
    BY <1>21, <1>a, <1>f DEF Finish, TerminalUpdate, FinishError
  <2>4. pc'[i] = "audit" => ~ctx[i]
    <3>1. Running(i)
      BY <2>2 DEF Running, RunPoints
    <3>2. verdict[i] = "COMPLETED" => done[job[i]] = Accounts
      BY <2>2 DEF CheckedInv
    <3>3. QED
      BY <1>c, <2>3, <3>1, <3>2, BadAccountsAssumption DEF Unharmed, Excused, Ended, Terminals, Canceled
  <2>5. pc'[i] \in {"audit", "discard", "release"}
    BY <1>21, <1>a, <1>f DEF Finish, FinishError
  <2>6. pc'[i] = "discard" => UNCHANGED status
    BY <1>21, <1>a, <1>f, <2>2 DEF Finish, FinishError
  <2>7. Unharmed(i)'
    BY <1>c, <2>2, <2>4, <2>5, <2>6 DEF Unharmed, Running, RunPoints, PoolPoints, Excused, Ended, Terminals, Canceled
  <2>8. InterruptionNeverFails'
    <3>1. CASE UNCHANGED status
      BY <1>c, <2>2, <3>1 DEF InterruptionNeverFails
    <3>2. CASE TerminalUpdate(i)
      <4>1. verdict[i] = "FAILED" => ~(BadAccounts \subseteq done[job[i]])
        BY <1>c, <2>2, <3>2 DEF Unharmed, Excused, Ended, Terminals, Canceled, TerminalUpdate
      <4>2. status' = [status EXCEPT ![job[i]] = verdict[i]]
        BY <3>2 DEF TerminalUpdate
      <4>3. QED
        BY <1>a, <1>c, <2>2, <4>1, <4>2 DEF InterruptionNeverFails
    <3>3. QED
      BY <1>21, <1>f, <3>1, <3>2 DEF Finish
  <2>9. QED
    BY <1>j, <2>1, <2>7, <2>8
<1>22. ASSUME NEW i \in Instances, Discard(i) PROVE Harmless
  <2>1. Only(i) /\ RowsSame
    BY <1>22, <1>a, <1>f DEF Discard, Only, Untouched
  <2>2. Unharmed(i)'
    BY <1>22, <1>a, <1>c, <1>f DEF Discard, Unharmed, Running, RunPoints, PoolPoints, Excused, Ended, Terminals, Canceled
  <2>3. QED
    BY <1>i, <2>1, <2>2
<1>23. ASSUME NEW i \in Instances, AppendAudit(i) PROVE Harmless
  <2>1. Only(i) /\ RowsSame
    BY <1>23, <1>a, <1>f DEF AppendAudit, Only, Untouched
  <2>2. Unharmed(i)'
    BY <1>23, <1>a, <1>c, <1>f DEF AppendAudit, Unharmed, Running, RunPoints, PoolPoints, Excused, Ended, Terminals, Canceled
  <2>3. QED
    BY <1>i, <2>1, <2>2
<1>24. ASSUME NEW i \in Instances, ClearFiles(i) PROVE Harmless
  <2>1. Only(i) /\ RowsSame
    BY <1>24, <1>a, <1>f DEF ClearFiles, Only, Untouched
  <2>2. Unharmed(i)'
    BY <1>24, <1>a, <1>c, <1>f DEF ClearFiles, Unharmed, Running, RunPoints, PoolPoints
  <2>3. QED
    BY <1>i, <2>1, <2>2
<1>25. ASSUME NEW i \in Instances, Heartbeat(i) PROVE Harmless
  BY <1>25, <1>c, <1>d, <1>f DEF Heartbeat, Unharmed
<1>26. ASSUME NEW i \in Instances, ContextCanceled(i) PROVE Harmless
  <2>1. Only(i) /\ RowsSame
    BY <1>26, <1>a, <1>f DEF ContextCanceled, Only, Untouched
  <2>2. Unharmed(i)'
    BY <1>26, <1>a, <1>c, <1>f DEF ContextCanceled, Unharmed, Running, RunPoints, PoolPoints, Excused, Ended
  <2>3. QED
    BY <1>i, <2>1, <2>2
<1>27. ASSUME NEW i \in Instances, Close(i) PROVE Harmless
  BY <1>27, <1>c, <1>d, <1>f DEF Close, Unharmed
<1>28. ASSUME NEW i \in Instances, Crash(i) PROVE Harmless
  <2>1. Only(i) /\ RowsSame
    BY <1>28, <1>a, <1>f DEF Crash, ForgetRun, Only, Untouched
  <2>2. Unharmed(i)'
    BY <1>28, <1>a, <1>c, <1>f DEF Crash, ForgetRun, Unharmed, Running, RunPoints, PoolPoints
  <2>3. QED
    BY <1>i, <2>1, <2>2
<1>29. ASSUME NEW i \in Instances, Restart(i) PROVE Harmless
  <2>1. Only(i) /\ RowsSame
    BY <1>29, <1>a, <1>f DEF Restart, Only, Untouched
  <2>2. Unharmed(i)'
    BY <1>29, <1>a, <1>c, <1>f DEF Restart, Unharmed, Running, RunPoints, PoolPoints
  <2>3. QED
    BY <1>i, <2>1, <2>2
<1>30. ASSUME NEW i \in Instances, ReapConnection(i) PROVE Harmless
  <2>1. /\ \A k \in Instances : Untouched(k)
        /\ done' = done
        /\ \A q \in Jobs : status'[q] = status[q] \/ (status'[q] \in {"QUEUED", "CANCELED"} /\ status[q] \notin Terminals)
    BY <1>30, <1>a, <1>f, InstancesAssumption DEF ReapConnection, Untouched, RowInv
  <2>2. QED
    BY <1>k, <2>1
<1>31. ASSUME NEW i \in Instances, DropConnection(i) PROVE Harmless
  BY <1>31, <1>c, <1>d, <1>f DEF DropConnection, Unharmed
<1>32. ASSUME NEW i \in Instances, NEW a \in Accounts, WorkerInterrupted(i, a) PROVE Harmless
  <2>1. Only(i) /\ RowsSame
    BY <1>32, <1>a, <1>f DEF WorkerInterrupted, WorkerReturns, Only, Untouched
  <2>2. Unharmed(i)'
    BY <1>32, <1>a, <1>c, <1>f, <1>h DEF WorkerInterrupted, WorkerReturns, Unharmed, Running, RunPoints, PoolPoints, Excused, Ended, Terminals, Canceled
  <2>3. QED
    BY <1>i, <2>1, <2>2
<1>33. ASSUME NEW i \in Instances, NEW a \in Accounts, LookupFails(i, a) PROVE Harmless
  <2>1. Only(i) /\ RowsSame
    BY <1>33, <1>a DEF LookupFails, Fail, WorkerReturns, Only, Untouched
  <2>2. /\ pc[i] \in PoolPoints /\ Covered(i) /\ a \in inflight[i] /\ a \in BadAccounts
        /\ UNCHANGED <<pc, job, done, root, lost, verdict>> /\ ctx'[i]
    BY <1>33, <1>a, <1>c, <1>h DEF LookupFails, Fail, Unharmed
  <2>3. Excused(i)'
    BY <2>2 DEF Excused, Covered
  <2>4. Unharmed(i)'
    BY <1>c, <2>2, <2>3 DEF Unharmed, Running, RunPoints, PoolPoints
  <2>5. QED
    BY <1>i, <2>1, <2>4
<1>34. ASSUME NEW i \in Instances, NEW a \in Accounts, Save(i, a) PROVE Harmless
  <2>1. Only(i) /\ status' = status
    BY <1>34, <1>a, <1>f DEF Save, Checkpoint, Fail, WorkerReturns, Only, Untouched
  <2>2. /\ pc[i] \in PoolPoints /\ Covered(i) /\ a \in inflight[i] /\ ~ctx[i] /\ a \notin done[job[i]]
        /\ UNCHANGED <<pc, job, root, lost, verdict>> /\ job[i] \in Jobs
    BY <1>34, <1>a, <1>c, <1>h DEF Save, Unharmed, Covered, RunPoints
  <2>3. pc[i] \in LockPoints /\ Running(i) /\ pc[i] # "audit"
    BY <2>2 DEF LockPoints, Running, RunPoints, PoolPoints
  <2>4. CASE Checkpoint(i, a) /\ UNCHANGED <<after, page, ctx, failed>> /\ inflight'[i] = inflight[i] \ {a}
    <3>1. done'[job[i]] = done[job[i]] \cup {a} /\ \A j \in Jobs : j # job[i] => done'[j] = done[j]
      BY <1>a, <2>2, <2>4 DEF Checkpoint
    <3>2. a \notin page[i]
      <4>1. a \in Nat /\ after[i] \in Nat
        <5>1. Accounts \subseteq Nat /\ 0 \in Nat
          BY AccountsAssumption
        <5>2. after[i] \in Accounts \cup {0}
          BY <1>a
        <5>3. QED
          BY <5>1, <5>2
      <4>2. QED
        BY <2>2, <4>1 DEF Covered
    <3>3. Covered(i)'
      BY <2>2, <2>4, <3>1, <3>2 DEF Covered
    <3>4. Unharmed(i)'
      BY <1>c, <2>2, <2>4, <3>3 DEF Unharmed, Running, RunPoints, PoolPoints
    <3>5. InterruptionNeverFails'
      BY <1>c, <2>1, <2>4, <3>1 DEF InterruptionNeverFails, Checkpoint
    <3>6. QED
      BY <1>j, <2>1, <2>3, <3>4, <3>5
  <2>5. CASE UNCHANGED dbVars /\ status[job[i]] # "PROCESSING" /\ ctx'[i]
    <3>1. Excused(i)'
      BY <1>e, <2>1, <2>2, <2>3, <2>5 DEF Excused, Ended, Terminals, Canceled
    <3>2. Unharmed(i)'
      BY <1>c, <2>2, <2>5, <3>1 DEF Unharmed, Running, RunPoints, PoolPoints
    <3>3. QED
      BY <1>i, <2>1, <2>5, <3>2
  <2>6. QED
    BY <1>34, <1>a, <1>f, <2>2, <2>4, <2>5 DEF Save, Fail
<1>35. ASSUME NEW i \in Instances, NEW j \in Jobs, UploadInput(i, j) PROVE Harmless
  <2>1. /\ \A k \in Instances : Untouched(k)
        /\ done' = done
        /\ \A q \in Jobs : status'[q] = status[q] \/ (status'[q] \in {"QUEUED", "CANCELED"} /\ status[q] \notin Terminals)
    BY <1>35, <1>a, <1>f, InstancesAssumption DEF UploadInput, Untouched, RowInv
  <2>2. QED
    BY <1>k, <2>1
<1>36. ASSUME NEW i \in Instances, NEW j \in Jobs, Submit(i, j) PROVE Harmless
  <2>1. /\ \A k \in Instances : Untouched(k)
        /\ done' = done
        /\ \A q \in Jobs : status'[q] = status[q] \/ (status'[q] \in {"QUEUED", "CANCELED"} /\ status[q] \notin Terminals)
    BY <1>36, <1>a, <1>f, InstancesAssumption DEF Submit, Create, Untouched, RowInv, Terminals
  <2>2. QED
    BY <1>k, <2>1
<1>37. ASSUME NEW i \in Instances, NEW j \in Jobs, CleanupRemove(i, j) PROVE Harmless
  <2>1. Only(i) /\ RowsSame
    BY <1>37, <1>a, <1>f DEF CleanupRemove, Only, Untouched
  <2>2. Unharmed(i)'
    BY <1>37, <1>a, <1>c, <1>f DEF CleanupRemove, Unharmed, Running, RunPoints, PoolPoints
  <2>3. QED
    BY <1>i, <2>1, <2>2
<1>38. ASSUME NEW j \in Jobs, Cancel(j) PROVE Harmless
  <2>1. /\ \A k \in Instances : Untouched(k)
        /\ done' = done
        /\ \A q \in Jobs : status'[q] = status[q] \/ (status'[q] \in {"QUEUED", "CANCELED"} /\ status[q] \notin Terminals)
    BY <1>38, <1>a, <1>f, InstancesAssumption DEF Cancel, Untouched, RowInv, Terminals
  <2>2. QED
    BY <1>k, <2>1
<1>39. ASSUME NEW j \in Jobs, Expire(j) PROVE Harmless
  <2>1. /\ \A k \in Instances : Untouched(k)
        /\ done' = done
        /\ \A q \in Jobs : status'[q] = status[q] \/ (status'[q] \in {"QUEUED", "CANCELED"} /\ status[q] \notin Terminals)
    BY <1>39, <1>a, <1>f, InstancesAssumption DEF Expire, Untouched, RowInv
  <2>2. QED
    BY <1>k, <2>1
<1>40. ASSUME UNCHANGED vars PROVE Harmless
  <2>1. done' = done /\ status' = status
    BY <1>40 DEF vars
  <2>2. \A k \in Instances : Untouched(k)
    BY <1>40 DEF vars, Untouched
  <2>3. \A j \in Jobs : status'[j] = status[j] \/ (status'[j] \in {"QUEUED", "CANCELED"} /\ status[j] \notin Terminals)
    BY <2>1
  <2>4. QED
    BY <1>k, <2>1, <2>2, <2>3
<1>41. QED
  BY <1>1, <1>2, <1>3, <1>4, <1>5, <1>6, <1>7, <1>8, <1>9, <1>10, <1>11, <1>12, <1>13, <1>14,
     <1>15, <1>16, <1>17, <1>18, <1>19, <1>20, <1>21, <1>22, <1>23, <1>24, <1>25, <1>26, <1>27,
     <1>28, <1>29, <1>30, <1>31, <1>32, <1>33, <1>34, <1>35, <1>36, <1>37, <1>38, <1>39, <1>40
  DEF Next, LoopStep, WorkerStep, RequestStep, Environment, Harmless

\* Under the lock nobody else saves accounts of the job, and the cursor of
\* Pending only passes accounts that a worker took (manager.go run).
LEMMA CursorStep == TypeInv /\ LockInv /\ CursorInv /\ [Next]_vars => CursorInv'
<1> SUFFICES ASSUME TypeInv, LockInv, CursorInv, [Next]_vars PROVE CursorInv'
  OBVIOUS
<1> USE DEF CursorInv, Spared, RunPoints, PoolPoints, Goto, Fault, NoFault, dbVars, diskVars, runVars, poolVars
<1>a. /\ pc \in [Instances -> Points] /\ job \in [Instances -> Jobs \cup {NoJob}]
      /\ done \in [Jobs -> SUBSET Accounts] /\ after \in [Instances -> Accounts \cup {0}]
      /\ page \in [Instances -> SUBSET Accounts] /\ inflight \in [Instances -> SUBSET Accounts]
      /\ \A k \in Instances : pc[k] \in RunPoints => job[k] \in Jobs
      /\ \A k \in Instances : pc[k] \notin PoolPoints => inflight[k] = {}
  BY DEF TypeInv, TypeOK, HasJob, PoolInv
<1>b. Accounts \subseteq Nat /\ 0 \in Nat
  BY AccountsAssumption
<1>1. ASSUME NEW i \in Instances, AcquireLock(i) PROVE CursorInv'
  BY <1>1, <1>a DEF AcquireLock
<1>2. ASSUME NEW i \in Instances, Recover(i) PROVE CursorInv'
  BY <1>2, <1>a DEF Recover, RecoverJobs
<1>3. ASSUME NEW i \in Instances, ClaimSelect(i) PROVE CursorInv'
  BY <1>3, <1>a DEF ClaimSelect
<1>4. ASSUME NEW i \in Instances, ClaimUpdate(i) PROVE CursorInv'
  BY <1>4, <1>a DEF ClaimUpdate, BeginRun
<1>5. ASSUME NEW i \in Instances, Release(i) PROVE CursorInv'
  BY <1>5, <1>a DEF Release, ForgetRun
<1>6. ASSUME NEW i \in Instances, Tick(i) PROVE CursorInv'
  BY <1>6, <1>a DEF Tick
<1>7. ASSUME NEW i \in Instances, LoopExit(i) PROVE CursorInv'
  BY <1>7, <1>a DEF LoopExit
<1>8. ASSUME NEW i \in Instances, RemoveStaleOutput(i) PROVE CursorInv'
  BY <1>8, <1>a DEF RemoveStaleOutput
<1>9. ASSUME NEW i \in Instances, FirstCheck(i) PROVE CursorInv'
  BY <1>9, <1>a DEF FirstCheck, Canceled
<1>10. ASSUME NEW i \in Instances, FetchPage(i) PROVE CursorInv'
  <2>1. /\ pc[i] = "pool" /\ pc'[i] \in PoolPoints /\ page[i] = {} /\ faults.kinds \subseteq faults'.kinds
        /\ UNCHANGED <<job, done, after, inflight>>
        /\ \A k \in Instances : k # i => pc'[k] = pc[k] /\ page'[k] = page[k]
    BY <1>10, <1>a DEF FetchPage
  <2>2. \A a \in page'[i] : a \in Unprocessed(job[i], after[i])
    BY <1>10, <1>a DEF FetchPage, FirstPage
  <2>3. \A a \in page'[i] : a > after'[i] /\ a \notin done'[job'[i]]
    BY <2>1, <2>2 DEF Unprocessed
  <2>4. QED
    BY <2>1, <2>3
<1>11. ASSUME NEW i \in Instances, Dispatch(i) PROVE CursorInv'
  <2>1. pc[i] = "pool" /\ UNCHANGED <<pc, job, done, faults>>
    BY <1>11 DEF Dispatch
  <2>2. PICK a \in page[i] : /\ \A b \in page[i] : a <= b
                            /\ page' = [page EXCEPT ![i] = @ \ {a}] /\ after' = [after EXCEPT ![i] = a]
                            /\ inflight' = [inflight EXCEPT ![i] = @ \cup {a}]
    BY <1>11 DEF Dispatch
  <2>3. page[i] \subseteq Nat /\ inflight[i] \subseteq Nat /\ after[i] \in Nat
    <3>1. after[i] \in Accounts \cup {0} /\ page[i] \in SUBSET Accounts /\ inflight[i] \in SUBSET Accounts
      BY <1>a
    <3>2. QED
      BY <3>1, <1>b
  <2>4. /\ page'[i] = page[i] \ {a} /\ after'[i] = a /\ inflight'[i] = inflight[i] \cup {a}
        /\ \A k \in Instances : k # i =>
              page'[k] = page[k] /\ after'[k] = after[k] /\ inflight'[k] = inflight[k]
    BY <1>a, <2>2
  <2>5. ASSUME Spared({"drop"}) PROVE \A b \in inflight'[i] : b <= after'[i] /\ b \notin done[job[i]]
    BY <2>1, <2>2, <2>3, <2>4, <2>5
  <2>6. ASSUME Spared({"drop"}) PROVE \A b \in page'[i] : b > after'[i] /\ b \notin done[job[i]]
    BY <2>1, <2>2, <2>3, <2>4, <2>6
  <2>7. QED
    BY <2>1, <2>4, <2>5, <2>6
<1>12. ASSUME NEW i \in Instances, ProducerStop(i) PROVE CursorInv'
  BY <1>12, <1>a DEF ProducerStop
<1>13. ASSUME NEW i \in Instances, AfterPool(i) PROVE CursorInv'
  BY <1>13, <1>a DEF AfterPool
<1>14. ASSUME NEW i \in Instances, CancelCheck(i) PROVE CursorInv'
  BY <1>14, <1>a DEF CancelCheck, Canceled
<1>15. ASSUME NEW i \in Instances, FailureCheck(i) PROVE CursorInv'
  BY <1>15, <1>a DEF FailureCheck
<1>16. ASSUME NEW i \in Instances, CheckComplete(i) PROVE CursorInv'
  BY <1>16, <1>a DEF CheckComplete
<1>17. ASSUME NEW i \in Instances, InspectInput(i) PROVE CursorInv'
  BY <1>17, <1>a DEF InspectInput
<1>18. ASSUME NEW i \in Instances, Results(i) PROVE CursorInv'
  BY <1>18, <1>a DEF Results
<1>19. ASSUME NEW i \in Instances, Patch(i) PROVE CursorInv'
  BY <1>19, <1>a DEF Patch
<1>20. ASSUME NEW i \in Instances, PatchedCheck(i) PROVE CursorInv'
  BY <1>20, <1>a DEF PatchedCheck, Canceled
<1>21. ASSUME NEW i \in Instances, Finish(i) PROVE CursorInv'
  BY <1>21, <1>a DEF Finish, TerminalUpdate, FinishError
<1>22. ASSUME NEW i \in Instances, Discard(i) PROVE CursorInv'
  BY <1>22, <1>a DEF Discard
<1>23. ASSUME NEW i \in Instances, AppendAudit(i) PROVE CursorInv'
  BY <1>23, <1>a DEF AppendAudit
<1>24. ASSUME NEW i \in Instances, ClearFiles(i) PROVE CursorInv'
  BY <1>24, <1>a DEF ClearFiles
<1>25. ASSUME NEW i \in Instances, Heartbeat(i) PROVE CursorInv'
  BY <1>25, <1>a DEF Heartbeat
<1>26. ASSUME NEW i \in Instances, ContextCanceled(i) PROVE CursorInv'
  BY <1>26, <1>a DEF ContextCanceled, Running, Ended
<1>27. ASSUME NEW i \in Instances, Close(i) PROVE CursorInv'
  BY <1>27, <1>a DEF Close, Running
<1>28. ASSUME NEW i \in Instances, Crash(i) PROVE CursorInv'
  BY <1>28, <1>a DEF Crash, ForgetRun
<1>29. ASSUME NEW i \in Instances, Restart(i) PROVE CursorInv'
  BY <1>29, <1>a DEF Restart
<1>30. ASSUME NEW i \in Instances, ReapConnection(i) PROVE CursorInv'
  BY <1>30, <1>a DEF ReapConnection
<1>31. ASSUME NEW i \in Instances, DropConnection(i) PROVE CursorInv'
  BY <1>31, <1>a DEF DropConnection
<1>32. ASSUME NEW i \in Instances, NEW a \in Accounts, WorkerInterrupted(i, a) PROVE CursorInv'
  BY <1>32, <1>a DEF WorkerInterrupted, WorkerReturns
<1>33. ASSUME NEW i \in Instances, NEW a \in Accounts, LookupFails(i, a) PROVE CursorInv'
  BY <1>33, <1>a DEF LookupFails, Fail, WorkerReturns
<1>34. ASSUME NEW i \in Instances, NEW a \in Accounts, Save(i, a) PROVE CursorInv'
  <2>1. /\ pc[i] \in PoolPoints /\ a \in inflight[i] /\ faults.kinds \subseteq faults'.kinds
        /\ UNCHANGED <<pc, job, after, page>>
    BY <1>34, <1>a DEF Save, WorkerReturns
  <2>2. /\ inflight'[i] = inflight[i] \ {a} /\ \A k \in Instances : k # i => inflight'[k] = inflight[k]
    BY <1>34, <1>a DEF Save, WorkerReturns
  <2>3. done' = done \/ done' = [done EXCEPT ![job[i]] = @ \cup {a}]
    BY <1>34 DEF Save, Checkpoint
  <2>4. SUFFICES ASSUME Spared({"drop"}), NEW k \in Instances, pc[k] \in PoolPoints
                 PROVE  /\ \A b \in inflight'[k] : b <= after[k] /\ b \notin done'[job[k]]
                        /\ \A b \in page[k] : b > after[k] /\ b \notin done'[job[k]]
    BY <2>1
  <2>5. k = i
    BY <2>1, <2>4 DEF LockInv, LockPoints
  <2>6. a \notin page[i]
    <3>1. after[i] \in Accounts \cup {0} /\ a <= after[i] /\ (a \in page[i] => a > after[i])
      BY <1>a, <2>1, <2>4
    <3>2. after[i] \in Nat /\ a \in Nat
      BY <1>b, <3>1
    <3>3. QED
      BY <3>1, <3>2
  <2>7. job[i] \in Jobs /\ \A b : b # a => (b \in done'[job[i]] <=> b \in done[job[i]])
    BY <1>a, <2>1, <2>3
  <2>8. QED
    BY <2>1, <2>2, <2>4, <2>5, <2>6, <2>7
<1>35. ASSUME NEW i \in Instances, NEW j \in Jobs, UploadInput(i, j) PROVE CursorInv'
  BY <1>35, <1>a DEF UploadInput
<1>36. ASSUME NEW i \in Instances, NEW j \in Jobs, Submit(i, j) PROVE CursorInv'
  BY <1>36, <1>a DEF Submit, Create
<1>37. ASSUME NEW i \in Instances, NEW j \in Jobs, CleanupRemove(i, j) PROVE CursorInv'
  BY <1>37, <1>a DEF CleanupRemove, Expired
<1>38. ASSUME NEW j \in Jobs, Cancel(j) PROVE CursorInv'
  BY <1>38, <1>a DEF Cancel
<1>39. ASSUME NEW j \in Jobs, Expire(j) PROVE CursorInv'
  BY <1>39, <1>a DEF Expire, Runs, Running
<1>40. CASE UNCHANGED vars
  BY <1>40 DEF vars
<1>41. QED
  BY <1>1, <1>2, <1>3, <1>4, <1>5, <1>6, <1>7, <1>8, <1>9, <1>10, <1>11, <1>12, <1>13, <1>14, <1>15, <1>16, <1>17, <1>18, <1>19, <1>20, <1>21, <1>22, <1>23, <1>24, <1>25, <1>26, <1>27, <1>28, <1>29, <1>30, <1>31, <1>32, <1>33, <1>34, <1>35, <1>36, <1>37, <1>38, <1>39, <1>40
  DEF Next, LoopStep, WorkerStep, RequestStep, Environment

-----------------------------------------------------------------------------
(***************************************************************************)
(* The inductive invariant.                                                *)
(***************************************************************************)

\* A freshly migrated database and freshly started instances satisfy it.
LEMMA InitIInv == Init => IInv
<1> SUFFICES ASSUME Init PROVE IInv
  OBVIOUS
<1> USE DEF Init
<1>1. Cardinality({}) = 0
  BY FS_EmptySet
<1>2. TypeOK
  BY ConcurrencyAssumption, FaultsAssumption
  DEF TypeOK, Statuses, Points, NoJob
<1>3. HasJob /\ PoolInv /\ CheckedInv
  BY <1>1, ConcurrencyAssumption DEF HasJob, PoolInv, CheckedInv, RunPoints, PoolPoints
<1>4. CompletedIsComplete /\ ProgressExact /\ RowInv /\ AuditInv
  BY <1>1 DEF CompletedIsComplete, ProgressExact, RowInv, AuditInv
<1>5. LockInv /\ ProcessingInv /\ OutputInv
  BY DEF LockInv, ProcessingInv, OneProcessingRow, OutputInv, OfferedOutputExists, Available,
         Running, LockPoints, RunPoints, PoolPoints
<1>6. ExpiryInv /\ OrphanInv /\ CursorInv /\ InputInv
  BY InstancesAssumption DEF ExpiryInv, OrphanInv, NoOrphanFiles, UnpatchedPoints, PoolPoints, CursorInv, InputInv, NotYet
<1>7. CrashInv
  BY DEF CrashInv, InterruptionNeverFails, Unharmed, Running, RunPoints, PoolPoints
<1>8. QED
  BY <1>2, <1>3, <1>4, <1>5, <1>6, <1>7 DEF IInv

\* Every step of every instance, request, timer and fault preserves it.
LEMMA NextIInv == IInv /\ [Next]_vars => IInv'
<1> SUFFICES ASSUME IInv, [Next]_vars PROVE IInv'
  OBVIOUS
<1>1. TypeInv /\ CheckedInv /\ CompletedIsComplete /\ ProgressExact /\ RowInv
  BY DEF IInv, TypeInv
<1>2. AuditInv /\ LockInv /\ ProcessingInv /\ OutputInv
  BY DEF IInv
<1>3. TypeOK' /\ HasJob' /\ PoolInv'
  BY <1>1, TypeStep, HasJobStep, PoolStep
<1>4. CheckedInv' /\ CompletedIsComplete' /\ ProgressExact' /\ RowInv'
  BY <1>1, CheckedStep, CompletedStep, ProgressStep, RowStep
<1>5. AuditInv' /\ LockInv' /\ ProcessingInv' /\ OutputInv'
  BY <1>1, <1>2, AuditStep, LockStep, ProcessingStep, OutputStep
<1>6. ExpiryInv /\ OrphanInv /\ CursorInv /\ InputInv /\ CrashInv
  BY DEF IInv
<1>7. ExpiryInv' /\ OrphanInv' /\ CursorInv' /\ InputInv' /\ CrashInv'
  BY <1>1, <1>2, <1>6, ExpiryStep, OrphanStep, CursorStep, InputStep, CrashStep
<1>8. QED
  BY <1>3, <1>4, <1>5, <1>7 DEF IInv

\* The inductive invariant of the SLIK queue holds in every reachable state.
THEOREM Invariance == Spec => []IInv
BY InitIInv, NextIInv, PTL DEF Spec

-----------------------------------------------------------------------------
(***************************************************************************)
(* Safety.                                                                 *)
(***************************************************************************)

\* The tables, files, lock and managers of internal/slik keep their types.
THEOREM TypeCorrect == Spec => []TypeOK
<1>1. IInv => TypeOK
  BY DEF IInv
<1>2. QED
  BY <1>1, Invariance, PTL

\* processed_accounts is the number of checkpoints, whatever fails (Save).
THEOREM ProgressIsExact == Spec => []ProgressExact
<1>1. IInv => ProgressExact
  BY DEF IInv
<1>2. QED
  BY <1>1, Invariance, PTL

\* A COMPLETED job has a checkpoint for each account, even when the lock is
\* lost and two instances run it (run, CheckComplete, Terminal).
THEOREM CompletionIsSound == Spec => []CompletedIsComplete
<1>1. IInv => CompletedIsComplete
  BY DEF IInv
<1>2. QED
  BY <1>1, Invariance, PTL

\* Completion is audited at most once (finish).
THEOREM AuditIsUnique == Spec => []AuditedOnce
<1>1. IInv => AuditedOnce
  BY DEF IInv, AuditInv, AuditedOnce
<1>2. QED
  BY <1>1, Invariance, PTL

\* The producer of run() never blocks for ever on workers that have gone.
THEOREM PoolIsLive == Spec => []ProducerNeverStuck
<1>1. IInv => ProducerNeverStuck
  BY ConcurrencyAssumption DEF IInv, PoolInv, ProducerNeverStuck
<1>2. QED
  BY <1>1, Invariance, PTL

\* Until MySQL drops a connection of a live instance, one job runs globally
\* (AcquireLock).
THEOREM OneJob == Spec => []OneJobWhileLocked
<1>1. IInv => OneJobWhileLocked
  BY DEF IInv, LockInv, OneJobWhileLocked, OneJobGlobally, Running, LockPoints
<1>2. QED
  BY <1>1, Invariance, PTL

\* ... no account is looked up again that has its checkpoint, and none by two
\* workers at once, however often the job is interrupted and resumed (Pending).
THEOREM WorkIsNotRepeated == Spec => []NoWorkRepeated
<1>1. IInv => NoWorkRepeated
  <2> SUFFICES ASSUME IInv, Spared({"drop"}), NEW i \in Instances, pc[i] \in PoolPoints
               PROVE  /\ (page[i] \cup inflight[i]) \cap done[job[i]] = {}
                      /\ page[i] \cap inflight[i] = {}
    BY DEF NoWorkRepeated
  <2>1. /\ \A a \in inflight[i] : a <= after[i] /\ a \notin done[job[i]]
        /\ \A a \in page[i] : a > after[i] /\ a \notin done[job[i]]
    BY DEF IInv, CursorInv
  <2>2. after[i] \in Accounts \cup {0} /\ page[i] \subseteq Accounts
    BY DEF IInv, TypeOK
  <2>3. \A a \in page[i] : ~(a <= after[i])
    <3>1. Accounts \subseteq Nat /\ 0 \in Nat
      BY AccountsAssumption
    <3>2. after[i] \in Nat /\ \A a \in page[i] : a \in Nat
      BY <2>2, <3>1
    <3>3. QED
      BY <2>1, <3>2
  <2>4. QED
    BY <2>1, <2>3
<1>2. QED
  BY <1>1, Invariance, PTL

\* ... and at most one row is PROCESSING (Recover, ClaimNext).
THEOREM OneRow == Spec => []OneProcessingRow
<1>1. IInv => OneProcessingRow
  BY DEF IInv, ProcessingInv, OneProcessingRow
<1>2. QED
  BY <1>1, Invariance, PTL

\* ... and until an answer of MySQL is lost either, a download offered by the
\* status page has its file (OpenOutput, run, finish, cleanup).
THEOREM OfferedOutput == Spec => []OfferedOutputExists
<1>1. IInv => OfferedOutputExists
  BY DEF IInv, OutputInv, OfferedOutputExists
<1>2. QED
  BY <1>1, Invariance, PTL

\* Until a process dies, a lock is dropped or the storage fails, every file is
\* one that retention will find or that a run or a request still answers for
\* (run, finish, Submit, cleanup).
THEOREM FilesAreFound == Spec => []NoOrphanFiles
<1>1. IInv => NoOrphanFiles
  BY DEF IInv, OrphanInv
<1>2. QED
  BY <1>1, Invariance, PTL

\* Processes may die anywhere and any number of times: as long as nothing else
\* goes wrong, only an account that cannot be looked up fails a job (run,
\* Recover).
THEOREM CrashesNeverFailAJob == Spec => []CrashNeverFails
<1>1. IInv => CrashNeverFails
  BY DEF IInv, CrashInv, CrashNeverFails
<1>2. QED
  BY <1>1, Invariance, PTL

-----------------------------------------------------------------------------
(***************************************************************************)
(* What one step can do to the rows: nothing, move a job between QUEUED    *)
(* and PROCESSING, insert it, checkpoint an account, or end it.            *)
(***************************************************************************)
Waiting == {"QUEUED", "PROCESSING"}

RowsMove ==
    /\ done' = done /\ status' \in [Jobs -> Statuses]
    /\ \A j \in Jobs : status'[j] = status[j] \/ {status[j], status'[j]} \subseteq Waiting

RowInserted(j) ==
    /\ status[j] = "ABSENT" /\ status' = [status EXCEPT ![j] = "QUEUED"] /\ done' = done

RowCheckpointed(j, a) ==
    /\ status[j] = "PROCESSING" /\ a \notin done[j]
    /\ done' = [done EXCEPT ![j] = @ \cup {a}] /\ status' = status

RowEnds(j, s) ==
    /\ status[j] \in Waiting /\ (s = "COMPLETED" => done[j] = Accounts)
    /\ status' = [status EXCEPT ![j] = s] /\ done' = done

RowEffect ==
    \/ RowsMove
    \/ \E j \in Jobs : RowInserted(j)
    \/ \E j \in Jobs, a \in Accounts : RowCheckpointed(j, a)
    \/ \E j \in Jobs, s \in Terminals : RowEnds(j, s)

\* Every step of the system has one of these effects on slik_jobs and
\* slik_job_accounts (the statements of repository.go).
LEMMA RowEffects == IInv /\ [Next]_vars => RowEffect
<1> SUFFICES ASSUME IInv, [Next]_vars PROVE RowEffect
  OBVIOUS
<1> USE DEF Fault, NoFault, dbVars
<1>a. /\ status \in [Jobs -> Statuses] /\ done \in [Jobs -> SUBSET Accounts]
      /\ verdict \in [Instances -> {"COMPLETED", "FAILED"}]
      /\ \A k \in Instances : pc[k] \in {"claiming"} \cup RunPoints => job[k] \in Jobs
      /\ \A k \in Instances : inflight[k] # {} => pc[k] \in RunPoints
  BY DEF IInv, TypeOK, HasJob, PoolInv, RunPoints
<1>b. ASSUME UNCHANGED <<status, done>> PROVE RowEffect
  BY <1>a, <1>b DEF RowEffect, RowsMove
<1>1. ASSUME NEW i \in Instances, Recover(i) PROVE RowEffect
  BY <1>1, <1>a DEF Recover, RecoverJobs, RowEffect, RowsMove, Waiting, Statuses
<1>2. ASSUME NEW i \in Instances, ClaimUpdate(i) PROVE RowEffect
  BY <1>2, <1>a DEF ClaimUpdate, RowEffect, RowsMove, Waiting, Statuses
<1>3. ASSUME NEW i \in Instances, Finish(i) PROVE RowEffect
  <2>1. CASE UNCHANGED dbVars
    BY <1>b, <2>1
  <2>2. CASE TerminalUpdate(i)
    <3>1. job[i] \in Jobs /\ verdict[i] \in Terminals
      BY <1>3, <1>a DEF Finish, RunPoints, Terminals
    <3>2. RowEnds(job[i], verdict[i])
      BY <1>3, <2>2 DEF Finish, TerminalUpdate, RowEnds, Waiting, IInv, CheckedInv
    <3>3. QED
      BY <3>1, <3>2 DEF RowEffect
  <2>3. QED
    BY <1>3, <2>1, <2>2 DEF Finish
<1>4. ASSUME NEW i \in Instances, NEW a \in Accounts, Save(i, a) PROVE RowEffect
  <2>1. CASE UNCHANGED dbVars
    BY <1>b, <2>1
  <2>2. CASE Checkpoint(i, a)
    <3>1. job[i] \in Jobs
      BY <1>4, <1>a DEF Save
    <3>2. RowCheckpointed(job[i], a)
      BY <2>2 DEF Checkpoint, RowCheckpointed
    <3>3. QED
      BY <3>1, <3>2 DEF RowEffect
  <2>3. QED
    BY <1>4, <2>1, <2>2 DEF Save
<1>5. ASSUME NEW i \in Instances, NEW j \in Jobs, Submit(i, j) PROVE RowEffect
  <2>1. CASE UNCHANGED dbVars
    BY <1>b, <2>1
  <2>2. CASE Create(j)
    <3>1. RowInserted(j)
      BY <1>5, <2>2, InstancesAssumption DEF Submit, Create, RowInserted, IInv, RowInv
    <3>2. QED
      BY <3>1 DEF RowEffect
  <2>3. QED
    BY <1>5, <2>1, <2>2 DEF Submit
<1>6. ASSUME NEW j \in Jobs, Cancel(j) PROVE RowEffect
  <2>1. RowEnds(j, "CANCELED")
    BY <1>6 DEF Cancel, RowEnds, Waiting
  <2>2. QED
    BY <2>1 DEF RowEffect, Terminals
<1>7. ASSUME NEW i \in Instances,
             \/ AcquireLock(i) \/ ClaimSelect(i) \/ Release(i) \/ Tick(i) \/ LoopExit(i)
             \/ RemoveStaleOutput(i) \/ FirstCheck(i) \/ FetchPage(i) \/ Dispatch(i)
             \/ ProducerStop(i) \/ AfterPool(i) \/ CancelCheck(i) \/ FailureCheck(i)
      PROVE  RowEffect
  BY <1>7, <1>b DEF AcquireLock, ClaimSelect, Release, Tick, LoopExit, RemoveStaleOutput,
     FirstCheck, FetchPage, Dispatch, ProducerStop, AfterPool, CancelCheck, FailureCheck
<1>8. ASSUME NEW i \in Instances,
             \/ CheckComplete(i) \/ InspectInput(i) \/ Results(i) \/ Patch(i)
             \/ PatchedCheck(i) \/ Discard(i) \/ AppendAudit(i) \/ ClearFiles(i)
             \/ Heartbeat(i) \/ ContextCanceled(i) \/ Environment(i)
      PROVE  RowEffect
  BY <1>8, <1>b DEF CheckComplete, InspectInput, Results, Patch, PatchedCheck, Discard,
     AppendAudit, ClearFiles, Heartbeat, ContextCanceled, Environment, Close, Crash,
     Restart, ReapConnection, DropConnection
<1>9. ASSUME NEW i \in Instances, NEW a \in Accounts, WorkerInterrupted(i, a) \/ LookupFails(i, a)
      PROVE  RowEffect
  BY <1>9, <1>b DEF WorkerInterrupted, LookupFails
<1>10. ASSUME NEW i \in Instances, NEW j \in Jobs, UploadInput(i, j) \/ CleanupRemove(i, j)
       PROVE  RowEffect
  BY <1>10, <1>b DEF UploadInput, CleanupRemove, Expired
<1>11. ASSUME NEW j \in Jobs, Expire(j) PROVE RowEffect
  BY <1>11, <1>b DEF Expire
<1>12. CASE UNCHANGED vars
  BY <1>12, <1>b DEF vars
<1>13. QED
  BY <1>1, <1>2, <1>3, <1>4, <1>5, <1>6, <1>7, <1>8, <1>9, <1>10, <1>11, <1>12
  DEF Next, LoopStep, WorkerStep, RequestStep

\* A terminal status is final, for every schedule and fault (the WHERE clauses
\* of Terminal, Cancel, Recover and ClaimNext).
THEOREM TerminalStatusIsFinal == Spec => TerminalIsFinal
<1>1. IInv /\ [Next]_vars => [\A j \in Jobs : status[j] \in Terminals => status'[j] = status[j]]_vars
  <2> SUFFICES ASSUME IInv, [Next]_vars, NEW j \in Jobs, status[j] \in Terminals
               PROVE  status'[j] = status[j]
    OBVIOUS
  <2>1. RowEffect /\ status \in [Jobs -> Statuses]
    BY RowEffects DEF IInv, TypeOK
  <2>2. QED
    BY <2>1 DEF RowEffect, RowsMove, RowInserted, RowCheckpointed, RowEnds, Waiting, Terminals
<1>2. QED
  BY <1>1, Invariance, PTL DEF Spec, TerminalIsFinal

-----------------------------------------------------------------------------
(***************************************************************************)
(* Refinement.                                                             *)
(***************************************************************************)

\* The queue with its instances, retries and faults implements the abstract
\* job lifecycle that the user sees (SlikQueue).
THEOREM Refinement == Spec => ImplementsQueue
<1>1. Init => Abstract!Init
  BY DEF Init, Abstract!Init, JobState
<1>2. IInv /\ [Next]_vars => [Abstract!Next]_(Abstract!vars)
  <2> SUFFICES ASSUME IInv, [Next]_vars PROVE [Abstract!Next]_(Abstract!vars)
    OBVIOUS
  <2> DEFINE st == [j \in Jobs |-> JobState(j)]
  <2>a. /\ RowEffect /\ status \in [Jobs -> Statuses] /\ done \in [Jobs -> SUBSET Accounts]
        /\ status' \in [Jobs -> Statuses]
    BY RowEffects, NextIInv DEF IInv, TypeOK
  <2>1. CASE RowsMove
    <3>1. ASSUME NEW j \in Jobs PROVE JobState(j)' = JobState(j)
      BY <2>1, <2>a, <3>1 DEF RowsMove, JobState, Waiting, Statuses
    <3>2. st' = st
      BY <3>1
    <3>3. QED
      BY <2>1, <3>2 DEF RowsMove, Abstract!vars
  <2>2. ASSUME NEW j \in Jobs, RowInserted(j) PROVE Abstract!Next
    <3>1. /\ st[j] = "none" /\ st' = [st EXCEPT ![j] = "pending"]
      BY <2>2, <2>a DEF RowInserted, JobState, Statuses
    <3>2. Abstract!Accept(j)
      BY <2>2, <3>1 DEF RowInserted, Abstract!Accept
    <3>3. QED
      BY <3>2 DEF Abstract!Next
  <2>3. ASSUME NEW j \in Jobs, NEW a \in Accounts, RowCheckpointed(j, a) PROVE Abstract!Next
    <3>1. st[j] = "pending" /\ st' = st
      BY <2>3, <2>a DEF RowCheckpointed, JobState
    <3>2. Abstract!Progress(j, a)
      BY <2>3, <3>1 DEF RowCheckpointed, Abstract!Progress
    <3>3. QED
      BY <3>2 DEF Abstract!Next
  <2>4. ASSUME NEW j \in Jobs, NEW s \in Terminals, RowEnds(j, s) PROVE Abstract!Next
    <3>1. st[j] = "pending" /\ st' = [st EXCEPT ![j] = s]
      BY <2>4, <2>a DEF RowEnds, JobState, Waiting, Terminals, Statuses
    <3>2. Abstract!End(j, s)
      BY <2>4, <3>1 DEF RowEnds, Abstract!End
    <3>3. QED
      BY <3>2 DEF Abstract!Next, Abstract!Ends, Terminals
  <2>5. QED
    BY <2>a, <2>1, <2>2, <2>3, <2>4 DEF RowEffect
<1>3. QED
  BY <1>1, <1>2, Invariance, PTL DEF Spec, ImplementsQueue, Abstract!Spec
====
