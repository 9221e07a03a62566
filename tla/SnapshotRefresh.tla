--------------------------- MODULE SnapshotRefresh ---------------------------
(***************************************************************************)
(* The current-day loan snapshot of internal/snapshot: schedulers and      *)
(* manual requests of all instances refresh one table under an advisory    *)
(* lock that, unlike the one of the SLIK queue, nobody watches.  A dataset *)
(* is what the report of the core system said at one moment of one day.    *)
(***************************************************************************)
EXTENDS Naturals

CONSTANTS
    Schedulers,     \* RunScheduler goroutines, one per instance
    Requests,       \* manual refreshes from the browser
    MaxDay,         \* bound on the business days of a behaviour
    MaxVersion,     \* bound on the changes of the report
    FaultKinds,     \* the faults a behaviour may contain
    MaxFaults       \* bound on the number of faults of a behaviour

Refreshers == Schedulers \cup Requests
Nobody     == "nobody"
AllFaults  == {"crash", "drop", "db", "ambiguous", "report", "cancel"}

ASSUME NobodyAssumption == Nobody \notin Refreshers
ASSUME BoundsAssumption == MaxDay \in Nat \ {0} /\ MaxVersion \in Nat
ASSUME FaultsAssumption == FaultKinds \subseteq AllFaults /\ MaxFaults \in Nat

VARIABLES
    dataset,        \* current_loan_position_snapshot: as_of_date and contents
    lastStatus,     \* snapshot_refresh_state.last_status
    lockOwner,      \* MySQL's lock 'trs:current-loan-snapshot-refresh'
    day, version,   \* today, and the version of the report of the core system
    pc, businessDate, rows, canceled,   \* one Refresh per refresher
    before,         \* the dataset when the attempt was recorded
    trail,          \* audit events of the attempt
    dayStart,       \* history: the version of the report when a day began
    faults                \* the number and the kinds of the faults so far

sourceVars == <<day, version, dayStart>>
vars == <<dataset, lastStatus, lockOwner, sourceVars, pc, businessDate, rows,
          canceled, before, trail, faults>>

Datasets == [day : 0..MaxDay, version : 0..MaxVersion]
Empty    == [day |-> 0, version |-> 0]
Points   == {"idle", "mark", "fetch", "replace", "fail", "audit", "release"}
Refreshing(r) == pc[r] # "idle"

Fault(k) ==
    /\ k \in FaultKinds /\ faults.count < MaxFaults
    /\ faults' = [count |-> faults.count + 1, kinds |-> faults.kinds \cup {k}]
NoFault == UNCHANGED faults

\* None of these faults has happened so far.
Spared(kinds) == \A k \in kinds : k \notin faults.kinds

Goto(r, point) == pc' = [pc EXCEPT ![r] = point]

\* An audit event of the attempt is appended; a failure is only logged.
Audit(r, event) == trail' = [trail EXCEPT ![r] = @ \cup {event}]

\* Refresh returns or dies with its locals.
ForgetRefresh(r) ==
    /\ Goto(r, "idle")
    /\ businessDate' = [businessDate EXCEPT ![r] = 0]
    /\ rows' = [rows EXCEPT ![r] = Empty]
    /\ canceled' = [canceled EXCEPT ![r] = FALSE]
    /\ before' = [before EXCEPT ![r] = Empty]
    /\ trail' = [trail EXCEPT ![r] = {}]

\* A statement under the refresh's own context does not get through.
StatementFails(r) == (canceled[r] /\ NoFault) \/ Fault("db")

(***************************************************************************)
(* Definitions named Bug_... are plausible mistakes in the definition that *)
(* follows them.  Nothing uses them: they show that the properties notice. *)
(***************************************************************************)
-----------------------------------------------------------------------------
\* The lock is not held while the report is downloaded and stored.
Bug_AcquireLock(r) ==
    /\ pc[r] = "idle" /\ lockOwner = Nobody
    /\ Goto(r, "mark") /\ NoFault
    /\ UNCHANGED <<dataset, lastStatus, lockOwner, sourceVars, businessDate, rows, canceled, before, trail>>

\* A refresh that finds the lock taken returns ErrRefreshInProgress and
\* changes nothing; so does one whose query fails.
AcquireRefreshLock(r) ==
    /\ pc[r] = "idle" /\ lockOwner = Nobody
    /\ lockOwner' = r
    /\ \/ Goto(r, "mark") /\ NoFault
       \* the answer is lost: the lock lives on with its connection
       \/ Fault("ambiguous") /\ UNCHANGED pc
    /\ UNCHANGED <<dataset, lastStatus, sourceVars, businessDate, rows, canceled, before, trail>>

MarkAttempt(r) ==
    /\ pc[r] = "mark"
    /\ \/ /\ ~canceled[r]
          /\ lastStatus' = "running"
          /\ businessDate' = [businessDate EXCEPT ![r] = day]
          /\ before' = [before EXCEPT ![r] = dataset]
          /\ Goto(r, "fetch")
          /\ \/ Audit(r, "started") /\ NoFault
             \/ Fault("db") /\ UNCHANGED trail
       \/ /\ StatementFails(r) /\ Goto(r, "release")
          /\ UNCHANGED <<lastStatus, businessDate, before, trail>>
       \* recorded, but the answer is lost: Refresh returns without a failure
       \/ /\ ~canceled[r] /\ Fault("ambiguous")
          /\ lastStatus' = "running" /\ Goto(r, "release")
          /\ UNCHANGED <<businessDate, before, trail>>
    /\ UNCHANGED <<dataset, lockOwner, sourceVars, rows, canceled>>

\* The rows are filed under the attempt's date, whatever the report says.
Bug_AnyDate(r) ==
    /\ pc[r] = "fetch"
    /\ \/ /\ ~canceled[r] /\ NoFault
          /\ rows' = [rows EXCEPT ![r] = [day |-> businessDate[r], version |-> version]]
          /\ Goto(r, "replace")
       \/ /\ (canceled[r] /\ NoFault) \/ Fault("report")
          /\ Goto(r, "fail") /\ UNCHANGED rows
    /\ UNCHANGED <<dataset, lastStatus, lockOwner, sourceVars, businessDate, canceled, before, trail>>

\* The report carries the date of the core system; every date but the one the
\* attempt began with is rejected.
FetchCurrentLoanPositions(r) ==
    /\ pc[r] = "fetch"
    /\ \/ /\ ~canceled[r] /\ NoFault
          /\ rows' = [rows EXCEPT ![r] = [day |-> day, version |-> version]]
          /\ Goto(r, IF day = businessDate[r] THEN "replace" ELSE "fail")
       \* the download fails, or the report is empty, inconsistent or invalid
       \/ /\ (canceled[r] /\ NoFault) \/ Fault("report")
          /\ Goto(r, "fail") /\ UNCHANGED rows
    /\ UNCHANGED <<dataset, lastStatus, lockOwner, sourceVars, businessDate, canceled, before, trail>>

\* DELETE and INSERT are not one transaction: an error leaves the table empty.
Bug_ReplaceInPlace(r) ==
    /\ pc[r] = "replace"
    /\ \/ /\ ~canceled[r] /\ NoFault
          /\ dataset' = rows[r] /\ lastStatus' = "succeeded" /\ Goto(r, "audit")
       \/ StatementFails(r) /\ dataset' = Empty /\ Goto(r, "fail") /\ UNCHANGED lastStatus
    /\ UNCHANGED <<lockOwner, sourceVars, businessDate, rows, canceled, before, trail>>

\* The success is audited before the transaction ends.
Bug_AuditBeforeCommit(r) ==
    /\ pc[r] = "replace" /\ Audit(r, "succeeded")
    /\ \/ /\ ~canceled[r] /\ NoFault
          /\ dataset' = rows[r] /\ lastStatus' = "succeeded"
          /\ Goto(r, "release")
       \/ StatementFails(r) /\ Goto(r, "fail") /\ UNCHANGED <<dataset, lastStatus>>
    /\ UNCHANGED <<lockOwner, sourceVars, businessDate, rows, canceled, before>>

\* One transaction: all rows and the success.
ReplaceAll(r) ==
    /\ pc[r] = "replace"
    /\ \/ /\ ~canceled[r] /\ NoFault
          /\ dataset' = rows[r] /\ lastStatus' = "succeeded"
          /\ Goto(r, "audit")
       \/ StatementFails(r) /\ Goto(r, "fail") /\ UNCHANGED <<dataset, lastStatus>>
       \* the commit reaches MySQL and its answer is lost
       \/ /\ ~canceled[r] /\ Fault("ambiguous")
          /\ dataset' = rows[r] /\ lastStatus' = "succeeded"
          /\ Goto(r, "fail")
    /\ UNCHANGED <<lockOwner, sourceVars, businessDate, rows, canceled, before, trail>>

AuditSuccess(r) ==
    /\ pc[r] = "audit"
    /\ \/ ~canceled[r] /\ NoFault /\ Audit(r, "succeeded")
       \/ StatementFails(r) /\ UNCHANGED trail
    /\ Goto(r, "release")
    /\ UNCHANGED <<dataset, lastStatus, lockOwner, sourceVars, businessDate, rows, canceled, before>>

\* A failed attempt tries again for the date it began with.
Bug_FailureRetries(r) ==
    /\ pc[r] = "fail" /\ NoFault
    /\ Goto(r, "fetch")
    /\ UNCHANGED <<dataset, lastStatus, lockOwner, sourceVars, businessDate, rows, canceled, before, trail>>

\* MarkFailure and its audit event, under a context of their own.
MarkFailure(r) ==
    /\ pc[r] = "fail"
    /\ \/ NoFault /\ lastStatus' = "failed" /\ Audit(r, "failed")
       \/ Fault("db") /\ lastStatus' = "failed" /\ UNCHANGED trail
       \/ Fault("db") /\ Audit(r, "failed") /\ UNCHANGED lastStatus
       \/ Fault("db") /\ UNCHANGED <<lastStatus, trail>>
    /\ Goto(r, "release")
    /\ UNCHANGED <<dataset, lockOwner, sourceVars, businessDate, rows, canceled, before>>

Release(r) ==
    /\ pc[r] = "release"
    /\ \/ NoFault /\ lockOwner' = IF lockOwner = r THEN Nobody ELSE lockOwner
       \* RELEASE_LOCK does not get through: its error is ignored
       \/ Fault("db") /\ UNCHANGED lockOwner
    /\ ForgetRefresh(r)
    /\ UNCHANGED <<dataset, lastStatus, sourceVars>>

-----------------------------------------------------------------------------
(***************************************************************************)
(* The world around a refresh.                                             *)
(***************************************************************************)
\* The core system posts transactions.
ReportChanges ==
    /\ version < MaxVersion /\ version' = version + 1
    /\ UNCHANGED <<dataset, lastStatus, lockOwner, day, dayStart, pc, businessDate, rows,
                   canceled, before, trail, faults>>

Midnight ==
    /\ day < MaxDay /\ day' = day + 1
    /\ dayStart' = [dayStart EXCEPT ![day + 1] = version]
    /\ UNCHANGED <<dataset, lastStatus, lockOwner, version, pc, businessDate, rows, canceled,
                   before, trail, faults>>

\* The browser goes away, the 30 minutes pass, or the scheduler is stopped.
CancelContext(r) ==
    /\ Refreshing(r) /\ ~canceled[r] /\ Fault("cancel")
    /\ canceled' = [canceled EXCEPT ![r] = TRUE]
    /\ UNCHANGED <<dataset, lastStatus, lockOwner, sourceVars, pc, businessDate, rows, before, trail>>

\* The process dies; MySQL still sees its lock connection for a while.
Crash(r) ==
    /\ Refreshing(r) /\ Fault("crash")
    /\ ForgetRefresh(r)
    /\ UNCHANGED <<dataset, lastStatus, lockOwner, sourceVars>>

\* MySQL notices that the connection of a dead process, or one that was given
\* up with the lock still held, is gone.
ReapConnection(r) ==
    /\ lockOwner = r /\ ~Refreshing(r)
    /\ lockOwner' = Nobody
    /\ UNCHANGED <<dataset, lastStatus, sourceVars, pc, businessDate, rows, canceled, before, trail, faults>>

\* The lock connection of a running refresh is dropped; nobody notices.
DropConnection(r) ==
    /\ lockOwner = r /\ Refreshing(r) /\ Fault("drop")
    /\ lockOwner' = Nobody
    /\ UNCHANGED <<dataset, lastStatus, sourceVars, pc, businessDate, rows, canceled, before, trail>>

-----------------------------------------------------------------------------
Init ==
    /\ dataset = Empty /\ lastStatus = "never"
    /\ lockOwner = Nobody
    /\ day = 1 /\ version = 0 /\ dayStart = [d \in 1..MaxDay |-> 0]
    /\ pc = [r \in Refreshers |-> "idle"]
    /\ businessDate = [r \in Refreshers |-> 0]
    /\ rows = [r \in Refreshers |-> Empty]
    /\ canceled = [r \in Refreshers |-> FALSE]
    /\ before = [r \in Refreshers |-> Empty]
    /\ trail = [r \in Refreshers |-> {}]
    /\ faults = [count |-> 0, kinds |-> {}]

\* The steps of Refresh once it holds the lock.
RefreshStep(r) ==
    \/ MarkAttempt(r) \/ FetchCurrentLoanPositions(r) \/ ReplaceAll(r)
    \/ AuditSuccess(r) \/ MarkFailure(r) \/ Release(r)

Next ==
    \/ \E r \in Refreshers :
          \/ AcquireRefreshLock(r) \/ RefreshStep(r)
          \/ CancelContext(r) \/ Crash(r) \/ ReapConnection(r) \/ DropConnection(r)
    \/ ReportChanges \/ Midnight

Spec == Init /\ [][Next]_vars

\* Refresh steps carry deadlines, MySQL reaps dead connections, and the ticker
\* of a scheduler tries again and again.
FairSpec ==
    /\ Spec
    /\ \A r \in Refreshers : WF_vars(RefreshStep(r)) /\ WF_vars(ReapConnection(r))
    /\ \A r \in Schedulers : SF_vars(AcquireRefreshLock(r))

-----------------------------------------------------------------------------
(***************************************************************************)
(* Properties                                                              *)
(***************************************************************************)
\* Type correctness of the snapshot tables and of the refreshes
\* (snapshot/service.go, snapshot/repository.go).
TypeOK ==
    /\ dataset \in Datasets
    /\ lastStatus \in {"never", "running", "succeeded", "failed"}
    /\ lockOwner \in Refreshers \cup {Nobody}
    /\ day \in 1..MaxDay /\ version \in 0..MaxVersion
    /\ pc \in [Refreshers -> Points]
    /\ businessDate \in [Refreshers -> 0..MaxDay]
    /\ rows \in [Refreshers -> Datasets]
    /\ canceled \in [Refreshers -> BOOLEAN]
    /\ before \in [Refreshers -> Datasets]
    /\ trail \in [Refreshers -> SUBSET {"started", "succeeded", "failed"}]
    /\ dayStart \in [1..MaxDay -> 0..MaxVersion]
    /\ faults \in [count : 0..MaxFaults, kinds : SUBSET FaultKinds]

\* The dataset never goes back: while no lock connection is dropped, no refresh
\* overwrites what a later one read from the report, neither contents nor date
\* (snapshot/service.go Refresh holds the lock from the download to the commit).
NoRegress ==
    [][Spared({"drop"}) =>
         dataset'.version >= dataset.version /\ dataset'.day >= dataset.day]_vars

\* A refresh that reports a failure has preserved the previous successful
\* dataset, as the page tells the user (features/snapshots/handler.go Refresh,
\* snapshot/repository.go ReplaceAll).
FailurePreserves == \A r \in Refreshers : pc[r] = "fail" => dataset = before[r]

\* The same until the answer of a commit is lost or a lock connection dropped
\* (snapshot/repository.go ReplaceAll).
AnsweredFailurePreserves == Spared({"drop", "ambiguous"}) => FailurePreserves

\* What is stored under a date is what the report said on that date: a refresh
\* that straddles midnight never files one day's balances under another, with
\* or without the lock (snapshot/source.go parse, snapshot/service.go
\* validateRows).
OfItsDay(d) ==
    /\ d.day <= day /\ d.version <= version
    /\ d.day # 0 => dayStart[d.day] <= d.version
    /\ d.day < day => d.version <= dayStart[d.day + 1]

DatasetIsOfItsDay == OfItsDay(dataset)

\* The audit trail of an attempt tells the truth: never both outcomes, and,
\* while no refresh lock has been lost, a success only when the table and the
\* state say so too (snapshot/service.go Refresh).
TrailTellsTruth ==
    \A r \in Refreshers :
       /\ ~({"succeeded", "failed"} \subseteq trail[r])
       /\ Spared({"drop"}) /\ pc[r] = "release" /\ "succeeded" \in trail[r] =>
             dataset = rows[r] /\ lastStatus = "succeeded"

\* Today's data is eventually served for good: when the days, the changes and
\* the faults end, some scheduler gets through (snapshot/scheduler.go).
EventuallyCurrent == <>[](dataset.day = day)

-----------------------------------------------------------------------------
(***************************************************************************)
(* The inductive invariant behind the safety properties.                   *)
(***************************************************************************)
\* The days so far began in order, and what was read or stored is of its day.
HistoryInv ==
    /\ \A d \in 1..day : dayStart[d] <= version
    /\ OfItsDay(dataset)
    /\ \A r \in Refreshers : pc[r] = "replace" => OfItsDay(rows[r])

\* Without a dropped connection, refreshing is holding the lock ...
LockInv == Spared({"drop"}) => \A r \in Refreshers : Refreshing(r) => lockOwner = r

\* ... so what a refresh is about to store is no older than what it replaces,
NewerInv ==
    Spared({"drop"}) =>
       \A r \in Refreshers : pc[r] = "replace" =>
          rows[r].version >= dataset.version /\ rows[r].day >= dataset.day

\* ... and, while commits are answered, nothing has changed since it began.
PreserveInv ==
    Spared({"drop", "ambiguous"}) =>
       \A r \in Refreshers : pc[r] \in {"fetch", "replace", "fail"} => dataset = before[r]

\* An outcome is audited last, so there is only one ...
OutcomeInv ==
    \A r \in Refreshers :
       /\ pc[r] # "release" => {"succeeded", "failed"} \cap trail[r] = {}
       /\ ~({"succeeded", "failed"} \subseteq trail[r])

\* ... and, under the lock, what was committed stands until the release.
CommittedInv ==
    Spared({"drop"}) =>
       \A r \in Refreshers :
          pc[r] = "audit" \/ (pc[r] = "release" /\ "succeeded" \in trail[r]) =>
             dataset = rows[r] /\ lastStatus = "succeeded"

SInv ==
    /\ TypeOK /\ HistoryInv /\ LockInv /\ NewerInv /\ PreserveInv
    /\ OutcomeInv /\ CommittedInv
=============================================================================
