----------------------------- MODULE SlikManager -----------------------------
(***************************************************************************)
(* The durable SLIK job queue of internal/slik: the two MySQL tables, the  *)
(* shared storage directory, the global advisory lock, and the manager     *)
(* loop of every application instance with the worker pool of the job it   *)
(* runs.  One action is one statement sent to MySQL, one file operation,   *)
(* or one decision between two of them; everything else of the code runs   *)
(* between two actions without being observable by anybody else.           *)
(***************************************************************************)
EXTENDS Naturals, FiniteSets

CONSTANTS
    Instances,      \* application instances sharing the database and storage
    Jobs,           \* job identifiers, ordered by created_at
    Accounts,       \* the distinct accounts of a workbook, in collation order
    BadAccounts,    \* accounts whose position lookup may fail
    Concurrency,    \* SLIK_CONCURRENCY: account workers of a run
    PageSize,       \* accounts per Pending page (128 in the code)
    FaultKinds,     \* the infrastructure faults a behaviour may contain
    MaxFaults       \* bound on the number of faults of a behaviour

Nobody == "nobody"
NotYet == "not yet submitted"
Over   == "submission over"
NoJob  == 0

AllFaults == {"crash", "shutdown", "drop", "db", "ambiguous", "storage"}

ASSUME InstancesAssumption == {Nobody, NotYet, Over} \cap Instances = {}
ASSUME JobsAssumption == Jobs \subseteq (Nat \ {0}) /\ IsFiniteSet(Jobs)
ASSUME AccountsAssumption == Accounts \subseteq (Nat \ {0}) /\ IsFiniteSet(Accounts)
ASSUME BadAccountsAssumption == BadAccounts \subseteq Accounts
ASSUME ConcurrencyAssumption == Concurrency \in Nat \ {0}
ASSUME PageSizeAssumption == PageSize \in Nat \ {0}
ASSUME FaultsAssumption == FaultKinds \subseteq AllFaults /\ MaxFaults \in Nat

VARIABLES
    \* slik_jobs and slik_job_accounts
    status,         \* slik_jobs.status, "ABSENT" when there is no row
    done,           \* accounts whose slik_job_accounts.status is COMPLETED
    processed,      \* slik_jobs.processed_accounts
    inputFile,      \* slik_jobs.input_file <> ''
    outputFile,     \* slik_jobs.output_file IS NOT NULL
    expired,        \* slik_jobs.expires_at <= now
    audited,        \* reporting.generate audit events appended for the job
    \* the storage directory
    inDisk, outDisk,
    \* MySQL's advisory lock 'trs:slik-job-worker'
    lockOwner,
    \* Submit requests
    upload,         \* the instance between writing the input and Create
    \* one manager per instance
    pc, job, lost, root, ctx, failed, verdict,
    after, page, inflight, alive,
    \* the number and the kinds of the faults so far
    faults

dbVars     == <<status, done, processed, inputFile, outputFile, expired, audited>>
diskVars   == <<inDisk, outDisk>>
poolVars   == <<after, page, inflight, alive>>
runVars    == <<lost, root, ctx, failed, verdict>>
vars == <<dbVars, diskVars, lockOwner, upload, pc, job, runVars, poolVars, faults>>

Statuses == {"ABSENT", "QUEUED", "PROCESSING", "COMPLETED", "FAILED", "CANCELED"}
Terminals == {"COMPLETED", "FAILED", "CANCELED"}

(***************************************************************************)
(* Control points of an instance.  Between "recover" and "release" the     *)
(* loop believes that it holds the lock; from "start" to "audit" it is     *)
(* inside run(), which ends when it reaches "release".                     *)
(***************************************************************************)
PoolPoints  == {"pool", "drain"}
RunPoints   == {"start", "check", "verdict", "reason", "complete", "inspect",
                "results", "patch", "patched", "finish", "discard", "audit"} \cup PoolPoints
LockPoints  == {"recover", "claim", "claiming", "release"} \cup RunPoints
Points      == {"down", "top", "idle", "clear"} \cup LockPoints

Running(i)   == pc[i] \in RunPoints
Runs(i, j)   == Running(i) /\ job[i] = j
Canceled(i)  == status[job[i]] = "CANCELED"
Ended(i)     == status[job[i]] \in Terminals

(***************************************************************************)
(* A fault of kind k happens now; used as a guard of the faulty outcomes.  *)
(***************************************************************************)
Fault(k) ==
    /\ k \in FaultKinds /\ faults.count < MaxFaults
    /\ faults' = [count |-> faults.count + 1, kinds |-> faults.kinds \cup {k}]
NoFault == UNCHANGED faults

\* None of these faults has happened so far.
Spared(kinds) == \A k \in kinds : k \notin faults.kinds

Goto(i, point) == pc' = [pc EXCEPT ![i] = point]

(***************************************************************************)
(* Definitions named Bug_... are plausible mistakes in the definition that *)
(* follows them.  Nothing uses them: they show that the properties notice. *)
(***************************************************************************)

\* The locals of run() and of the lock go out of scope.
ForgetRun(i) ==
    /\ job' = [job EXCEPT ![i] = NoJob]
    /\ lost' = [lost EXCEPT ![i] = FALSE]
    /\ ctx' = [ctx EXCEPT ![i] = FALSE]
    /\ failed' = [failed EXCEPT ![i] = FALSE]
    /\ verdict' = [verdict EXCEPT ![i] = "FAILED"]
    /\ after' = [after EXCEPT ![i] = 0]
    /\ page' = [page EXCEPT ![i] = {}]
    /\ inflight' = [inflight EXCEPT ![i] = {}]
    /\ alive' = [alive EXCEPT ![i] = 0]

-----------------------------------------------------------------------------
(***************************************************************************)
(* Submit: the handler writes and validates the input file, then inserts   *)
(* the job and its account rows in one transaction.  created_at is taken   *)
(* before Create, so two requests may insert in either order.              *)
(***************************************************************************)
UploadInput(i, j) ==
    /\ pc[i] # "down" /\ upload[j] = NotYet
    /\ \A k \in Jobs : k < j => upload[k] # NotYet
    /\ upload' = [upload EXCEPT ![j] = i]
    /\ inDisk' = [inDisk EXCEPT ![j] = TRUE]
    /\ UNCHANGED <<dbVars, outDisk, lockOwner, pc, job, runVars, poolVars, faults>>

\* The transaction commits.
Create(j) ==
    /\ status' = [status EXCEPT ![j] = "QUEUED"]
    /\ inputFile' = [inputFile EXCEPT ![j] = TRUE]
    /\ UNCHANGED <<done, processed, outputFile, expired, audited>>

Submit(i, j) ==
    /\ upload[j] = i
    /\ upload' = [upload EXCEPT ![j] = Over]
    /\ \/ Create(j) /\ NoFault /\ UNCHANGED diskVars
       \* the workbook is rejected: the input is removed and no row exists
       \/ /\ NoFault /\ UNCHANGED dbVars
          /\ inDisk' = [inDisk EXCEPT ![j] = FALSE] /\ UNCHANGED outDisk
       \* the commit reaches MySQL and its answer is lost
       \/ /\ Create(j) /\ Fault("ambiguous")
          /\ inDisk' = [inDisk EXCEPT ![j] = FALSE] /\ UNCHANGED outDisk
    /\ UNCHANGED <<lockOwner, pc, job, runVars, poolVars>>

\* Cancel on any instance; the runner's context follows in ContextCanceled.
Cancel(j) ==
    /\ status[j] \in {"QUEUED", "PROCESSING"}
    /\ status' = [status EXCEPT ![j] = "CANCELED"]
    /\ expired' = [expired EXCEPT ![j] = FALSE]
    /\ UNCHANGED <<done, processed, inputFile, outputFile, audited, diskVars,
                   lockOwner, upload, pc, job, runVars, poolVars, faults>>

-----------------------------------------------------------------------------
(***************************************************************************)
(* The loop: acquire the lock, recover interrupted jobs, claim the oldest  *)
(* queued job, run it, release.                                            *)
(***************************************************************************)
\* The answer of GET_LOCK is not looked at.
Bug_AcquireLock(i) ==
    /\ pc[i] = "top" /\ lockOwner' = i /\ Goto(i, "recover")
    /\ UNCHANGED <<dbVars, diskVars, upload, job, runVars, poolVars, faults>>

AcquireLock(i) ==
    /\ pc[i] = "top" /\ ~root[i]
    /\ \/ /\ lockOwner = Nobody /\ NoFault
          /\ lockOwner' = i /\ Goto(i, "recover")
       \/ lockOwner # Nobody /\ NoFault /\ Goto(i, "idle") /\ UNCHANGED lockOwner
       \/ Fault("db") /\ Goto(i, "idle") /\ UNCHANGED lockOwner
       \* granted, but the answer is lost: the lock lives on with its connection
       \/ /\ lockOwner = Nobody /\ Fault("ambiguous")
          /\ lockOwner' = i /\ Goto(i, "idle")
    /\ UNCHANGED <<dbVars, diskVars, upload, job, runVars, poolVars>>

Bug_NoRecovery == UNCHANGED status

Bug_RecoverFails ==
    status' = [j \in Jobs |-> IF status[j] = "PROCESSING" THEN "FAILED" ELSE status[j]]

Bug_RecoverCompleted ==
    status' = [j \in Jobs |-> IF status[j] \in {"PROCESSING", "COMPLETED"} THEN "QUEUED" ELSE status[j]]

RecoverJobs ==
    status' = [j \in Jobs |-> IF status[j] = "PROCESSING" THEN "QUEUED" ELSE status[j]]

Recover(i) ==
    /\ pc[i] = "recover"
    /\ \/ ~root[i] /\ NoFault /\ RecoverJobs /\ Goto(i, "claim")
       \/ root[i] /\ NoFault /\ Goto(i, "release") /\ UNCHANGED status
       \/ Fault("db") /\ Goto(i, "release") /\ UNCHANGED status
    /\ UNCHANGED <<done, processed, inputFile, outputFile, expired, audited,
                   diskVars, lockOwner, upload, job, runVars, poolVars>>

\* SELECT id ... WHERE status='QUEUED' ORDER BY created_at, id LIMIT 1
ClaimSelect(i) ==
    /\ pc[i] = "claim"
    /\ \/ \E j \in Jobs :
             /\ ~root[i] /\ NoFault
             /\ status[j] = "QUEUED"
             /\ \A k \in Jobs : status[k] = "QUEUED" => j <= k
             /\ job' = [job EXCEPT ![i] = j]
             /\ Goto(i, "claiming")
       \/ /\ NoFault /\ (root[i] \/ \A j \in Jobs : status[j] # "QUEUED")
          /\ Goto(i, "release") /\ UNCHANGED job
       \/ Fault("db") /\ Goto(i, "release") /\ UNCHANGED job
    /\ UNCHANGED <<dbVars, diskVars, lockOwner, upload, runVars, poolVars>>

\* run() starts with a context of its own below the manager's root.
BeginRun(i) ==
    /\ Goto(i, "start")
    /\ ctx' = [ctx EXCEPT ![i] = root[i]]

\* UPDATE ... SET status='PROCESSING' WHERE id=? AND status='QUEUED', then Get
ClaimUpdate(i) ==
    /\ pc[i] = "claiming"
    /\ \/ /\ ~root[i] /\ NoFault
          /\ status[job[i]] = "QUEUED"
          /\ status' = [status EXCEPT ![job[i]] = "PROCESSING"]
          /\ BeginRun(i)
       \/ /\ ~root[i] /\ NoFault
          /\ status[job[i]] # "QUEUED"
          /\ Goto(i, "claim") /\ UNCHANGED <<status, ctx>>
       \* no statement, or its answer or the Get after it, gets through
       \/ /\ (root[i] /\ NoFault) \/ Fault("db")
          /\ \/ UNCHANGED status
             \/ /\ status[job[i]] = "QUEUED"
                /\ status' = [status EXCEPT ![job[i]] = "PROCESSING"]
          /\ Goto(i, "release") /\ UNCHANGED ctx
    /\ UNCHANGED <<done, processed, inputFile, outputFile, expired, audited,
                   diskVars, lockOwner, upload, job, lost, root, failed, verdict, poolVars>>

\* release(): the lock is freed if this connection still owns it.
Release(i) ==
    /\ pc[i] = "release"
    /\ \/ NoFault /\ lockOwner' = IF lockOwner = i THEN Nobody ELSE lockOwner
       \* RELEASE_LOCK does not get through: its error is ignored
       \/ Fault("db") /\ UNCHANGED lockOwner
    /\ Goto(i, "idle") /\ ForgetRun(i)
    /\ UNCHANGED <<dbVars, diskVars, upload, root>>

\* The one-second ticker, or a wake after Submit.
Tick(i) ==
    /\ pc[i] = "idle" /\ ~root[i]
    /\ Goto(i, "top")
    /\ UNCHANGED <<dbVars, diskVars, lockOwner, upload, job, runVars, poolVars, faults>>

LoopExit(i) ==
    /\ pc[i] \in {"top", "idle"} /\ root[i]
    /\ Goto(i, "down")
    /\ UNCHANGED <<dbVars, diskVars, lockOwner, upload, job, runVars, poolVars, faults>>

-----------------------------------------------------------------------------
(***************************************************************************)
(* run(), before the pool: drop an output left by an earlier attempt, look *)
(* once for a cancellation and for the lock.                               *)
(***************************************************************************)
RemoveStaleOutput(i) ==
    /\ pc[i] = "start"
    /\ \/ /\ NoFault /\ Goto(i, "check")
          /\ outDisk' = [outDisk EXCEPT ![job[i]] = FALSE]
       \/ Fault("storage") /\ Goto(i, "finish") /\ UNCHANGED outDisk
    /\ UNCHANGED <<dbVars, inDisk, lockOwner, upload, job, runVars, poolVars>>

\* IsCanceled under ctx (an error leaves the row as it is), then lockLost.
FirstCheck(i) ==
    /\ pc[i] = "check"
    /\ \/ /\ NoFault /\ (ctx[i] \/ Canceled(i) \/ lost[i])
          /\ Goto(i, "release") /\ UNCHANGED poolVars
       \/ Fault("db") /\ Goto(i, "release") /\ UNCHANGED poolVars
       \/ /\ NoFault /\ ~ctx[i] /\ ~Canceled(i) /\ ~lost[i]
          /\ Goto(i, "pool")
          /\ alive' = [alive EXCEPT ![i] = Concurrency]
          /\ UNCHANGED <<after, page, inflight>>
    /\ UNCHANGED <<dbVars, diskVars, lockOwner, upload, job, runVars>>

-----------------------------------------------------------------------------
(***************************************************************************)
(* The pool.  Workers are interchangeable: alive counts the goroutines     *)
(* that have not returned, inflight holds the account of each busy one.    *)
(***************************************************************************)
\* The page is read without the status of the account rows.
Bug_Unprocessed(j, cursor) == {a \in Accounts : a > cursor}
Unprocessed(j, cursor) == {a \in Accounts \ done[j] : a > cursor}
FirstPage(S) == {a \in S : Cardinality({b \in S : b <= a}) <= PageSize}

Bug_FailKeepsContext(i) == failed' = [failed EXCEPT ![i] = @ \/ ~ctx[i]] /\ UNCHANGED ctx

\* fail(): ignored once the context is canceled, otherwise it cancels it.
Fail(i) ==
    /\ failed' = [failed EXCEPT ![i] = @ \/ ~ctx[i]]
    /\ ctx' = [ctx EXCEPT ![i] = TRUE]

FetchPage(i) ==
    /\ pc[i] = "pool" /\ ~ctx[i] /\ page[i] = {}
    /\ \/ /\ NoFault /\ Unprocessed(job[i], after[i]) # {}
          /\ page' = [page EXCEPT ![i] = FirstPage(Unprocessed(job[i], after[i]))]
          /\ UNCHANGED <<pc, ctx, failed>>
       \/ /\ NoFault /\ Unprocessed(job[i], after[i]) = {}
          /\ Goto(i, "drain") /\ UNCHANGED <<page, ctx, failed>>
       \/ Fault("db") /\ Fail(i) /\ Goto(i, "drain") /\ UNCHANGED page
    /\ UNCHANGED <<dbVars, diskVars, lockOwner, upload, job, lost, root, verdict,
                   after, inflight, alive>>

\* work <- account: needs a worker waiting on the unbuffered channel.
Dispatch(i) ==
    /\ pc[i] = "pool" /\ ~ctx[i]
    /\ Cardinality(inflight[i]) < alive[i]
    /\ \E a \in page[i] :
          /\ \A b \in page[i] : a <= b
          /\ page' = [page EXCEPT ![i] = @ \ {a}]
          /\ after' = [after EXCEPT ![i] = a]
          /\ inflight' = [inflight EXCEPT ![i] = @ \cup {a}]
    /\ UNCHANGED <<dbVars, diskVars, lockOwner, upload, pc, job, runVars, alive, faults>>

ProducerStop(i) ==
    /\ pc[i] = "pool" /\ ctx[i]
    /\ Goto(i, "drain")
    /\ UNCHANGED <<dbVars, diskVars, lockOwner, upload, job, runVars, poolVars, faults>>

\* The worker with account a returns.
WorkerReturns(i, a) ==
    /\ inflight' = [inflight EXCEPT ![i] = @ \ {a}]
    /\ alive' = [alive EXCEPT ![i] = @ - 1]
    /\ UNCHANGED <<after, page>>

\* Canceled context: the lookup or the save ends with it, fail ignores it.
WorkerInterrupted(i, a) ==
    /\ a \in inflight[i] /\ ctx[i]
    /\ WorkerReturns(i, a)
    /\ UNCHANGED <<dbVars, diskVars, lockOwner, upload, pc, job, runVars, faults>>

\* The position lookup fails, times out, or yields an unusable rate.
LookupFails(i, a) ==
    /\ a \in inflight[i] \cap BadAccounts /\ ~ctx[i]
    /\ Fail(i) /\ WorkerReturns(i, a)
    /\ UNCHANGED <<dbVars, diskVars, lockOwner, upload, pc, job, lost, root, verdict, faults>>

\* The account row is updated whatever its status.
Bug_SaveTwice(i, a) ==
    /\ status[job[i]] = "PROCESSING"
    /\ done' = [done EXCEPT ![job[i]] = @ \cup {a}]
    /\ processed' = [processed EXCEPT ![job[i]] = @ + 1]
    /\ UNCHANGED <<status, inputFile, outputFile, expired, audited>>

\* Save's transaction commits: the progress counter and the checkpoint.
Checkpoint(i, a) ==
    /\ status[job[i]] = "PROCESSING" /\ a \notin done[job[i]]
    /\ done' = [done EXCEPT ![job[i]] = @ \cup {a}]
    /\ processed' = [processed EXCEPT ![job[i]] = @ + 1]
    /\ UNCHANGED <<status, inputFile, outputFile, expired, audited>>

Save(i, a) ==
    /\ a \in inflight[i] /\ ~ctx[i]
    /\ \/ /\ NoFault /\ Checkpoint(i, a)
          /\ inflight' = [inflight EXCEPT ![i] = @ \ {a}]
          /\ UNCHANGED <<after, page, alive, ctx, failed>>
       \* the job is no longer processing, or the account is already saved
       \/ /\ NoFault /\ (status[job[i]] # "PROCESSING" \/ a \in done[job[i]])
          /\ Fail(i) /\ WorkerReturns(i, a) /\ UNCHANGED dbVars
       \/ Fault("db") /\ Fail(i) /\ WorkerReturns(i, a) /\ UNCHANGED dbVars
       \/ Fault("ambiguous") /\ Fail(i) /\ WorkerReturns(i, a) /\ Checkpoint(i, a)
    /\ UNCHANGED <<diskVars, lockOwner, upload, pc, job, lost, root, verdict>>

-----------------------------------------------------------------------------
(***************************************************************************)
(* run(), after wait.Wait(): who won, the failure, the cancellation, the   *)
(* lock or the shutdown?                                                   *)
(***************************************************************************)
AfterPool(i) ==
    /\ pc[i] = "drain" /\ inflight[i] = {}
    /\ Goto(i, IF lost[i] \/ root[i] THEN "release" ELSE "verdict")
    /\ UNCHANGED <<dbVars, diskVars, lockOwner, upload, job, runVars, poolVars, faults>>

CancelCheck(i) ==
    /\ pc[i] = "verdict"
    /\ \/ NoFault /\ Goto(i, IF Canceled(i) THEN "release" ELSE "reason")
       \/ Fault("db") /\ Goto(i, "release")
    /\ UNCHANGED <<dbVars, diskVars, lockOwner, upload, job, runVars, poolVars>>

FailureCheck(i) ==
    /\ pc[i] = "reason"
    /\ Goto(i, IF failed[i] THEN "finish"
               ELSE IF ~ctx[i] THEN "complete"
               ELSE IF lost[i] THEN "release" ELSE "finish")
    /\ UNCHANGED <<dbVars, diskVars, lockOwner, upload, job, runVars, poolVars, faults>>

\* CheckComplete, under the manager's root context
CheckComplete(i) ==
    /\ pc[i] = "complete"
    /\ \/ NoFault /\ Goto(i, IF root[i] \/ done[job[i]] # Accounts THEN "finish" ELSE "inspect")
       \/ Fault("db") /\ Goto(i, "finish")
    /\ UNCHANGED <<dbVars, diskVars, lockOwner, upload, job, runVars, poolVars>>

InspectInput(i) ==
    /\ pc[i] = "inspect"
    /\ \/ NoFault /\ Goto(i, IF inDisk[job[i]] THEN "results" ELSE "finish")
       \/ Fault("storage") /\ Goto(i, "finish")
    /\ UNCHANGED <<dbVars, diskVars, lockOwner, upload, job, runVars, poolVars>>

\* Results, under the manager's root context
Results(i) ==
    /\ pc[i] = "results"
    /\ \/ NoFault /\ Goto(i, IF root[i] THEN "finish" ELSE "patch")
       \/ Fault("db") /\ Goto(i, "finish")
    /\ UNCHANGED <<dbVars, diskVars, lockOwner, upload, job, runVars, poolVars>>

\* Patch writes a temporary file and renames it; on an error nothing is left.
Patch(i) ==
    /\ pc[i] = "patch"
    /\ \/ /\ NoFault /\ inDisk[job[i]]
          /\ outDisk' = [outDisk EXCEPT ![job[i]] = TRUE]
          /\ Goto(i, "patched")
       \/ /\ (~inDisk[job[i]] /\ NoFault) \/ Fault("storage")
          /\ outDisk' = [outDisk EXCEPT ![job[i]] = FALSE]
          /\ Goto(i, "finish")
    /\ UNCHANGED <<dbVars, inDisk, lockOwner, upload, job, runVars, poolVars>>

\* lockLost, IsCanceled, lockLost; only then may the job be completed.
PatchedCheck(i) ==
    /\ pc[i] = "patched"
    /\ \/ /\ NoFault /\ (lost[i] \/ Canceled(i))
          /\ Goto(i, "discard") /\ UNCHANGED verdict
       \/ Fault("db") /\ Goto(i, "discard") /\ UNCHANGED verdict
       \/ /\ NoFault /\ ~lost[i] /\ ~Canceled(i)
          /\ verdict' = [verdict EXCEPT ![i] = "COMPLETED"]
          /\ Goto(i, "finish")
    /\ UNCHANGED <<dbVars, diskVars, lockOwner, upload, job, lost, root, ctx, failed, poolVars>>

\* The status is not taken from the argument.
Bug_AlwaysCompleted(i) ==
    /\ status[job[i]] = "PROCESSING"
    /\ status' = [status EXCEPT ![job[i]] = "COMPLETED"]
    /\ outputFile' = [outputFile EXCEPT ![job[i]] = verdict[i] = "COMPLETED"]
    /\ UNCHANGED <<done, processed, inputFile, expired, audited>>

\* UPDATE ... SET status=?, output_file=?, expires_at=... WHERE status='PROCESSING'
TerminalUpdate(i) ==
    /\ status[job[i]] = "PROCESSING"
    /\ status' = [status EXCEPT ![job[i]] = verdict[i]]
    /\ outputFile' = [outputFile EXCEPT ![job[i]] = verdict[i] = "COMPLETED"]
    /\ expired' = [expired EXCEPT ![job[i]] = FALSE]
    /\ UNCHANGED <<done, processed, inputFile, audited>>

Bug_KeepsOutput(i) == Goto(i, "release")

\* What finish does when Terminal reports an error.
FinishError(i) == Goto(i, IF verdict[i] = "COMPLETED" THEN "discard" ELSE "release")

Finish(i) ==
    /\ pc[i] = "finish"
    /\ \/ /\ NoFault /\ TerminalUpdate(i)
          /\ Goto(i, IF verdict[i] = "COMPLETED" THEN "audit" ELSE "release")
       \/ /\ NoFault /\ status[job[i]] # "PROCESSING" /\ FinishError(i) /\ UNCHANGED dbVars
       \/ Fault("db") /\ FinishError(i) /\ UNCHANGED dbVars
       \/ Fault("ambiguous") /\ TerminalUpdate(i) /\ FinishError(i)
    /\ UNCHANGED <<diskVars, lockOwner, upload, job, runVars, poolVars>>

\* _ = os.Remove(output)
Discard(i) ==
    /\ pc[i] = "discard"
    /\ \/ NoFault /\ outDisk' = [outDisk EXCEPT ![job[i]] = FALSE]
       \/ Fault("storage") /\ UNCHANGED outDisk
    /\ Goto(i, "release")
    /\ UNCHANGED <<dbVars, inDisk, lockOwner, upload, job, runVars, poolVars>>

AppendAudit(i) ==
    /\ pc[i] = "audit"
    /\ \/ NoFault /\ audited' = [audited EXCEPT ![job[i]] = @ + 1]
       \/ Fault("db") /\ UNCHANGED audited
    /\ Goto(i, "release")
    /\ UNCHANGED <<status, done, processed, inputFile, outputFile, expired,
                   diskVars, lockOwner, upload, job, runVars, poolVars>>

-----------------------------------------------------------------------------
(***************************************************************************)
(* The other goroutines of an instance: the lock's heartbeat, and whatever *)
(* cancels the context of the run: the watcher, and Cancel's activeCancel, *)
(* which is called also when the job had ended otherwise.                  *)
(***************************************************************************)
Heartbeat(i) ==
    /\ pc[i] \in LockPoints /\ ~lost[i]
    \* not the owner, or the ownership query fails (with the root, or alone)
    /\ ((lockOwner # i \/ root[i]) /\ NoFault) \/ Fault("db")
    /\ lost' = [lost EXCEPT ![i] = TRUE]
    /\ UNCHANGED <<dbVars, diskVars, lockOwner, upload, pc, job, root, ctx, failed, verdict, poolVars>>

ContextCanceled(i) ==
    /\ Running(i) /\ ~ctx[i]
    /\ lost[i] \/ Ended(i)
    /\ ctx' = [ctx EXCEPT ![i] = TRUE]
    /\ UNCHANGED <<dbVars, diskVars, lockOwner, upload, pc, job, lost, root, failed,
                   verdict, poolVars, faults>>

-----------------------------------------------------------------------------
(***************************************************************************)
(* Retention.  Seven days after the end of a job (nobody runs it any more) *)
(* the hourly cleanup of any instance removes the files the row names and  *)
(* blanks the names when every removal succeeded.                          *)
(***************************************************************************)
Expire(j) ==
    /\ status[j] \in Terminals /\ ~expired[j]
    /\ \A i \in Instances : ~Runs(i, j)
    /\ expired' = [expired EXCEPT ![j] = TRUE]
    /\ UNCHANGED <<status, done, processed, inputFile, outputFile, audited, diskVars,
                   lockOwner, upload, pc, job, runVars, poolVars, faults>>

Bug_ExpiredTooEarly(j) == status[j] \in Terminals /\ (inputFile[j] \/ outputFile[j])

Bug_OnlyCompletedExpire(j) ==
    status[j] = "COMPLETED" /\ expired[j] /\ (inputFile[j] \/ outputFile[j])

\* The rows that the Expired query returns.
Expired(j) == status[j] \in Terminals /\ expired[j] /\ (inputFile[j] \/ outputFile[j])

CleanupRemove(i, j) ==
    /\ pc[i] = "idle" /\ ~root[i]
    /\ Expired(j)
    /\ \/ /\ NoFault
          /\ inDisk' = [inDisk EXCEPT ![j] = @ /\ ~inputFile[j]]
          /\ outDisk' = [outDisk EXCEPT ![j] = @ /\ ~outputFile[j]]
          /\ job' = [job EXCEPT ![i] = j]
          /\ Goto(i, "clear")
       \* a removal fails, the other file is removed or not: the names stay
       \/ /\ Fault("storage")
          /\ \/ inDisk' = [inDisk EXCEPT ![j] = @ /\ ~inputFile[j]] /\ UNCHANGED outDisk
             \/ outDisk' = [outDisk EXCEPT ![j] = @ /\ ~outputFile[j]] /\ UNCHANGED inDisk
             \/ UNCHANGED diskVars
          /\ UNCHANGED <<job, pc>>
    /\ UNCHANGED <<dbVars, lockOwner, upload, runVars, poolVars>>

ClearFiles(i) ==
    /\ pc[i] = "clear"
    /\ \/ /\ NoFault /\ ~root[i]
          /\ inputFile' = [inputFile EXCEPT ![job[i]] = FALSE]
          /\ outputFile' = [outputFile EXCEPT ![job[i]] = FALSE]
       \/ /\ (root[i] /\ NoFault) \/ Fault("db")
          /\ UNCHANGED <<inputFile, outputFile>>
    /\ Goto(i, "idle") /\ job' = [job EXCEPT ![i] = NoJob]
    /\ UNCHANGED <<status, done, processed, expired, audited, diskVars, lockOwner,
                   upload, runVars, poolVars>>

-----------------------------------------------------------------------------
(***************************************************************************)
(* Shutdown, crash, restart, and the server's view of a lock connection.   *)
(***************************************************************************)
\* Close: after the HTTP drain the root context is canceled.
Close(i) ==
    /\ pc[i] # "down" /\ ~root[i] /\ \A j \in Jobs : upload[j] # i
    /\ Fault("shutdown")
    /\ root' = [root EXCEPT ![i] = TRUE]
    /\ ctx' = [ctx EXCEPT ![i] = Running(i)]
    /\ UNCHANGED <<dbVars, diskVars, lockOwner, upload, pc, job, lost, failed, verdict, poolVars>>

\* The process dies; MySQL still sees its lock connection for a while.
Crash(i) ==
    /\ pc[i] # "down" /\ Fault("crash")
    /\ Goto(i, "down") /\ ForgetRun(i)
    /\ upload' = [j \in Jobs |-> IF upload[j] = i THEN Over ELSE upload[j]]
    /\ UNCHANGED <<dbVars, diskVars, lockOwner, root>>

Restart(i) ==
    /\ pc[i] = "down"
    /\ Goto(i, "top")
    /\ root' = [root EXCEPT ![i] = FALSE]
    /\ UNCHANGED <<dbVars, diskVars, lockOwner, upload, job, lost, ctx, failed, verdict,
                   poolVars, faults>>

\* MySQL notices that the connection of a dead process is gone, or one that was
\* given up with the lock still held.
ReapConnection(i) ==
    /\ lockOwner = i /\ pc[i] \notin LockPoints
    /\ lockOwner' = Nobody
    /\ UNCHANGED <<dbVars, diskVars, upload, pc, job, runVars, poolVars, faults>>

\* The lock connection of a live instance is dropped by the server.
DropConnection(i) ==
    /\ lockOwner = i /\ pc[i] \in LockPoints /\ Fault("drop")
    /\ lockOwner' = Nobody
    /\ UNCHANGED <<dbVars, diskVars, upload, pc, job, runVars, poolVars>>

-----------------------------------------------------------------------------
Init ==
    /\ status = [j \in Jobs |-> "ABSENT"]
    /\ done = [j \in Jobs |-> {}]
    /\ processed = [j \in Jobs |-> 0]
    /\ inputFile = [j \in Jobs |-> FALSE]
    /\ outputFile = [j \in Jobs |-> FALSE]
    /\ expired = [j \in Jobs |-> FALSE]
    /\ audited = [j \in Jobs |-> 0]
    /\ inDisk = [j \in Jobs |-> FALSE]
    /\ outDisk = [j \in Jobs |-> FALSE]
    /\ lockOwner = Nobody
    /\ upload = [j \in Jobs |-> NotYet]
    /\ pc = [i \in Instances |-> "top"]
    /\ job = [i \in Instances |-> NoJob]
    /\ lost = [i \in Instances |-> FALSE]
    /\ root = [i \in Instances |-> FALSE]
    /\ ctx = [i \in Instances |-> FALSE]
    /\ failed = [i \in Instances |-> FALSE]
    /\ verdict = [i \in Instances |-> "FAILED"]
    /\ after = [i \in Instances |-> 0]
    /\ page = [i \in Instances |-> {}]
    /\ inflight = [i \in Instances |-> {}]
    /\ alive = [i \in Instances |-> 0]
    /\ faults = [count |-> 0, kinds |-> {}]

\* The steps of the goroutine that executes loop(), run() and cleanup().
LoopStep(i) ==
    \/ AcquireLock(i) \/ Recover(i) \/ ClaimSelect(i) \/ ClaimUpdate(i) \/ Release(i)
    \/ Tick(i) \/ LoopExit(i)
    \/ RemoveStaleOutput(i) \/ FirstCheck(i)
    \/ FetchPage(i) \/ Dispatch(i) \/ ProducerStop(i)
    \/ AfterPool(i) \/ CancelCheck(i) \/ FailureCheck(i) \/ CheckComplete(i)
    \/ InspectInput(i) \/ Results(i) \/ Patch(i) \/ PatchedCheck(i)
    \/ Finish(i) \/ Discard(i) \/ AppendAudit(i)
    \/ ClearFiles(i)

WorkerStep(i) == \E a \in Accounts : WorkerInterrupted(i, a) \/ LookupFails(i, a) \/ Save(i, a)

RequestStep(j) == (\E i \in Instances : UploadInput(i, j) \/ Submit(i, j)) \/ Cancel(j)

Environment(i) == Close(i) \/ Crash(i) \/ Restart(i) \/ ReapConnection(i) \/ DropConnection(i)

Next ==
    \/ \E i \in Instances :
          \/ LoopStep(i) \/ WorkerStep(i) \/ Heartbeat(i) \/ ContextCanceled(i)
          \/ Environment(i)
          \/ \E j \in Jobs : CleanupRemove(i, j)
    \/ \E j \in Jobs : RequestStep(j) \/ Expire(j)

Spec == Init /\ [][Next]_vars

(***************************************************************************)
(* Fairness.  Goroutines are scheduled, every database call and position   *)
(* lookup carries a deadline, the tickers keep firing, MySQL reaps dead    *)
(* connections, a stopped instance is started again, and a request handler *)
(* finishes.  Cleanup competes with the ticker in one select, which picks  *)
(* at random among the ready cases: strong fairness.                       *)
(***************************************************************************)
Fairness ==
    /\ \A i \in Instances :
          /\ WF_vars(LoopStep(i)) /\ WF_vars(WorkerStep(i))
          /\ WF_vars(Heartbeat(i) /\ lockOwner # i) /\ WF_vars(ContextCanceled(i))
          /\ WF_vars(Restart(i)) /\ WF_vars(ReapConnection(i))
          /\ \A j \in Jobs : SF_vars(CleanupRemove(i, j)) /\ WF_vars(Submit(i, j))
    /\ \A j \in Jobs : WF_vars(Expire(j))

FairSpec == Spec /\ Fairness

-----------------------------------------------------------------------------
(***************************************************************************)
(* Properties                                                              *)
(***************************************************************************)

\* Type correctness of the tables, the files, the lock and the managers of
\* internal/slik (manager.go, repository.go).
TypeOK ==
    /\ status \in [Jobs -> Statuses]
    /\ done \in [Jobs -> SUBSET Accounts]
    /\ processed \in [Jobs -> Nat]
    /\ inputFile \in [Jobs -> BOOLEAN] /\ outputFile \in [Jobs -> BOOLEAN]
    /\ expired \in [Jobs -> BOOLEAN]
    /\ audited \in [Jobs -> Nat]
    /\ inDisk \in [Jobs -> BOOLEAN] /\ outDisk \in [Jobs -> BOOLEAN]
    /\ lockOwner \in Instances \cup {Nobody}
    /\ upload \in [Jobs -> Instances \cup {NotYet, Over}]
    /\ pc \in [Instances -> Points]
    /\ job \in [Instances -> Jobs \cup {NoJob}]
    /\ lost \in [Instances -> BOOLEAN] /\ root \in [Instances -> BOOLEAN]
    /\ ctx \in [Instances -> BOOLEAN] /\ failed \in [Instances -> BOOLEAN]
    /\ verdict \in [Instances -> {"COMPLETED", "FAILED"}]
    /\ after \in [Instances -> Accounts \cup {0}]
    /\ page \in [Instances -> SUBSET Accounts]
    /\ inflight \in [Instances -> SUBSET Accounts]
    /\ alive \in [Instances -> 0..Concurrency]
    /\ faults \in [count : 0..MaxFaults, kinds : SUBSET FaultKinds]

\* The progress counter that the status page shows is always the number of
\* checkpointed accounts, across retries, rejected and ambiguous saves and
\* two runners: Save changes both in one transaction (repository.go Save).
ProgressExact == \A j \in Jobs : processed[j] = Cardinality(done[j])

\* A job is COMPLETED only when every account of its workbook has a
\* checkpoint, whoever wrote it and however often the job was resumed
\* (manager.go run, CheckComplete).
CompletedIsComplete == \A j \in Jobs : status[j] = "COMPLETED" => done[j] = Accounts

\* The terminal status of a job is final: no late Terminal, Recover, claim or
\* Cancel of any instance changes it (the WHERE clauses of repository.go).
TerminalIsFinal ==
    [][\A j \in Jobs : status[j] \in Terminals => status'[j] = status[j]]_vars

\* A resumed job continues where it stopped (README.md: "Interrupted jobs
\* resume from successful checkpoints after restart"): whatever crashed, shut
\* down or got no answer, no account that has its checkpoint is looked up
\* again, and no two workers have the same account, until MySQL drops the lock
\* of a live instance (manager.go run, repository.go Pending).
NoWorkRepeated ==
    Spared({"drop"}) => \A i \in Instances : pc[i] \in PoolPoints =>
        /\ (page[i] \cup inflight[i]) \cap done[job[i]] = {}
        /\ page[i] \cap inflight[i] = {}

\* Completion is audited at most once per job and only for a COMPLETED job,
\* however often the job was interrupted and resumed (manager.go finish).
AuditedOnce ==
    \A j \in Jobs : audited[j] <= 1 /\ (audited[j] = 1 => status[j] = "COMPLETED")

\* One SLIK job runs globally: no two instances are inside run() (README.md;
\* manager.go loop, repository.go AcquireLock).
OneJobGlobally == \A i, k \in Instances : Running(i) /\ Running(k) => i = k

\* One SLIK job runs globally until MySQL drops the lock connection of a live
\* instance (manager.go loop, repository.go AcquireLock).
OneJobWhileLocked == Spared({"drop"}) => OneJobGlobally

\* Without a dropped lock connection at most one row is PROCESSING: an
\* interrupted job is requeued before anything else is claimed, so jobs are
\* never left half done behind a younger one (manager.go loop, repository.go
\* Recover and ClaimNext).
OneProcessingRow ==
    Spared({"drop"}) => \A j, k \in Jobs : status[j] = "PROCESSING" /\ status[k] = "PROCESSING" => j = k

\* Available(): the status page offers the download.
Available(j) == status[j] = "COMPLETED" /\ outputFile[j] /\ ~expired[j]

\* A download that the status page offers has its file (manager.go OpenOutput
\* would answer "expired" otherwise): no attempt of another instance, no
\* cancellation and no cleanup removes the output of a completed job, until a
\* lock is dropped or the answer of a commit is lost.
OfferedOutputExists ==
    Spared({"drop", "ambiguous"}) => \A j \in Jobs : Available(j) => outDisk[j]

\* An output file on disk belongs to a row that names it or to the run that is
\* about to name or discard it; an input file to a row or to a request in
\* progress, until a process dies, a lock is dropped or the storage fails.
\* What retention cannot find stays forever (manager.go cleanup).
NoOrphanFiles ==
    Spared({"crash", "drop", "storage"}) => \A j \in Jobs :
       /\ inDisk[j] => inputFile[j] \/ upload[j] \in Instances
       /\ outDisk[j] => outputFile[j] \/ \E i \in Instances : Runs(i, j)

\* Only an account whose lookup failed fails a job: an interruption leaves it
\* to be resumed until it completes or is canceled (manager.go run, "Shutdown
\* leaves PROCESSING for recovery.").
InterruptionNeverFails ==
    \A j \in Jobs : status[j] = "FAILED" => ~(BadAccounts \subseteq done[j])

\* Crashes alone, wherever they hit, never fail a job (manager.go loop, run,
\* repository.go Recover).
CrashNeverFails == Spared(AllFaults \ {"crash"}) => InterruptionNeverFails

\* A pool whose workers have all returned has a canceled context, so the
\* producer can never block for ever on the unbuffered work channel, and no
\* worker holds an account it has not been sent (manager.go fail, run).
ProducerNeverStuck ==
    \A i \in Instances : pc[i] \in PoolPoints =>
        /\ Cardinality(inflight[i]) <= alive[i]
        /\ alive[i] = 0 => ctx[i]

\* Every accepted job ends, whatever crashes, shutdowns, lost locks and errors
\* interrupt it, as long as they are finitely many (manager.go loop, run).
EveryJobEnds == \A j \in Jobs : status[j] = "QUEUED" ~> status[j] \in Terminals

\* Every ended job is eventually cleared: its row names no file, its input is
\* gone, and its output as well, unless a process died, a lock was dropped or
\* the storage failed and left an output that no row names (manager.go
\* cleanup).
EveryJobIsCleared ==
    \A j \in Jobs : status[j] \in Terminals ~>
        /\ ~inputFile[j] /\ ~outputFile[j] /\ ~inDisk[j]
        /\ Spared({"crash", "drop", "storage"}) => ~outDisk[j]

\* The files of an ended job expire, whatever happened while it ran (README.md:
\* "Completed, failed, and canceled job files expire seven days after
\* termination"; manager.go cleanup).
JobFilesExpire ==
    \A j \in Jobs : status[j] \in Terminals ~> ~inDisk[j] /\ ~outDisk[j]

-----------------------------------------------------------------------------
(***************************************************************************)
(* Refinement: a job row seen by its owner.  QUEUED and PROCESSING are one *)
(* pending state, so claims, crashes and recoveries are stutters.          *)
(***************************************************************************)
JobState(j) ==
    CASE status[j] = "ABSENT" -> "none"
      [] status[j] \in {"QUEUED", "PROCESSING"} -> "pending"
      [] OTHER -> status[j]

Abstract == INSTANCE SlikQueue
    WITH state <- [j \in Jobs |-> JobState(j)], saved <- done

\* The queue with all its instances, faults and retries implements the
\* abstract job lifecycle (manager.go, repository.go).
ImplementsQueue == Abstract!Spec

-----------------------------------------------------------------------------
(***************************************************************************)
(* The inductive invariant behind the safety properties.                   *)
(***************************************************************************)
\* Whoever claims, runs or clears a job has one.
HasJob ==
    \A i \in Instances :
       pc[i] \in {"claiming", "clear"} \cup RunPoints => job[i] \in Jobs

\* Only workers of a pool hold accounts, one each, and only a canceled
\* context makes a worker return early.
PoolInv ==
    \A i \in Instances :
       /\ Cardinality(inflight[i]) <= alive[i]
       /\ pc[i] \notin PoolPoints => inflight[i] = {}
       /\ pc[i] \in PoolPoints /\ alive[i] < Concurrency => ctx[i]

\* From CheckComplete to Terminal every account of the job is checkpointed.
CheckedInv ==
    \A i \in Instances :
       /\ pc[i] \in {"inspect", "results", "patch", "patched"} => done[job[i]] = Accounts
       /\ pc[i] = "finish" /\ verdict[i] = "COMPLETED" => done[job[i]] = Accounts
       /\ verdict[i] = "COMPLETED" => pc[i] \in {"finish", "discard", "audit", "release"}

\* Only a submission that is over has a row, only a row has checkpoints, and
\* only a completed one names an output.
RowInv ==
    \A j \in Jobs :
       /\ upload[j] # Over => status[j] = "ABSENT"
       /\ status[j] = "ABSENT" => done[j] = {}
       /\ outputFile[j] => status[j] = "COMPLETED"

\* One Terminal wins: at most one instance is about to audit a job.
AuditInv ==
    /\ \A j \in Jobs : audited[j] <= 1 /\ (audited[j] = 1 => status[j] = "COMPLETED")
    /\ \A i \in Instances : pc[i] = "audit" =>
          /\ status[job[i]] = "COMPLETED" /\ audited[job[i]] = 0
          /\ \A k \in Instances : pc[k] = "audit" /\ job[k] = job[i] => k = i

\* Without a dropped connection, believing to hold the lock is holding it.
LockInv ==
    Spared({"drop"}) => \A i \in Instances : pc[i] \in LockPoints => lockOwner = i

\* ... so only the job of the instance that holds the lock is PROCESSING.
ProcessingInv ==
    Spared({"drop"}) =>
       /\ OneProcessingRow
       /\ \A i \in Instances, j \in Jobs : status[j] = "PROCESSING" =>
             /\ pc[i] \notin {"claim", "claiming"}
             /\ Running(i) => job[i] = j

\* ... and, when no answer of MySQL is lost, nobody touches the output of a
\* job that is or is about to be COMPLETED.
OutputInv ==
    Spared({"drop", "ambiguous"}) =>
       /\ OfferedOutputExists
       /\ \A i \in Instances :
             /\ Running(i) /\ pc[i] # "audit" => status[job[i]] \in {"PROCESSING", "CANCELED"}
             /\ \/ pc[i] = "patched"
                \/ pc[i] = "finish" /\ verdict[i] = "COMPLETED"
                => outDisk[job[i]]

\* Retention only meets jobs that ended and that nobody runs any more.
ExpiryInv ==
    /\ \A j \in Jobs : expired[j] => status[j] \in Terminals /\ \A i \in Instances : ~Runs(i, j)
    /\ \A i \in Instances : pc[i] = "clear" => expired[job[i]]

\* A run that stops early leaves no output behind, one that completed has
\* named it, and cleanup blanks the names of files that are gone.
UnpatchedPoints == {"check", "verdict", "reason", "complete", "inspect", "results", "patch"} \cup PoolPoints

OrphanInv ==
    /\ NoOrphanFiles
    /\ Spared({"crash", "drop", "storage"}) => \A i \in Instances :
          /\ \/ pc[i] \in UnpatchedPoints
             \/ pc[i] = "finish" /\ verdict[i] = "FAILED"
             => ~outDisk[job[i]]
          /\ pc[i] = "audit" => outputFile[job[i]]
          /\ pc[i] = "clear" => ~inDisk[job[i]] /\ ~outDisk[job[i]]

\* The cursor of a run separates what its workers have from what is on the
\* page, and nobody else saves accounts of its job.
CursorInv ==
    Spared({"drop"}) => \A i \in Instances :
       /\ pc[i] \notin (RunPoints \ {"start", "check"}) \cup {"release"} => page[i] = {}
       /\ pc[i] \in PoolPoints =>
             /\ \A a \in inflight[i] : a <= after[i] /\ a \notin done[job[i]]
             /\ \A a \in page[i] : a > after[i] /\ a \notin done[job[i]]

\* While every commit is answered, the input of an accepted job is there
\* until the job ends.
InputInv ==
    Spared({"ambiguous"}) => \A j \in Jobs :
       upload[j] \in Instances \/ status[j] \in {"QUEUED", "PROCESSING"} => inDisk[j]

\* The pool of a run whose context is alive misses no account: each one is
\* checkpointed, with a worker, on the page, or still to be fetched.
Covered(i) ==
    /\ \A a \in inflight[i] : a <= after[i] /\ a \notin done[job[i]]
    /\ \A a \in page[i] : a > after[i] /\ a \notin done[job[i]]
    /\ \A a \in Accounts \ done[job[i]] :
          \/ a \in inflight[i]
          \/ pc[i] = "pool" /\ a > after[i] /\ (a \in page[i] \/ \A p \in page[i] : p < a)

\* A run may give up: its job has ended or an account cannot be looked up.
Excused(i) == Ended(i) \/ ~(BadAccounts \subseteq done[job[i]])

\* While processes only die, nothing but an excuse ends a run early.
Unharmed(i) ==
    /\ ~root[i] /\ ~lost[i]
    /\ pc[i] \notin RunPoints \cup {"release"} => ~failed[i]
    /\ pc[i] \notin (RunPoints \ {"start", "check"}) \cup {"release"} => after[i] = 0 /\ page[i] = {}
    /\ Running(i) /\ failed[i] => ctx[i]
    /\ Running(i) /\ ctx[i] => Excused(i)
    /\ pc[i] \in PoolPoints /\ ~ctx[i] => Covered(i)
    /\ pc[i] \in {"verdict", "reason", "complete"} /\ ~ctx[i] => done[job[i]] = Accounts
    /\ pc[i] = "finish" /\ verdict[i] = "FAILED" => Excused(i)

CrashInv ==
    Spared(AllFaults \ {"crash"}) =>
       InterruptionNeverFails /\ \A i \in Instances : Unharmed(i)

IInv ==
    /\ TypeOK /\ HasJob /\ PoolInv /\ CheckedInv /\ CompletedIsComplete /\ ProgressExact
    /\ RowInv /\ AuditInv /\ LockInv /\ ProcessingInv /\ OutputInv
    /\ ExpiryInv /\ OrphanInv /\ CursorInv /\ InputInv /\ CrashInv
=============================================================================
