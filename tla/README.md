# Verification of TRS

TLA+ models of the parts of TRS (`src/`) whose correctness depends on the order
of steps of several goroutines, instances and services, and of the calculation at its
core; TLC configurations that check them on small instances; and TLAPS proofs of their
safety for every value of the constants.

## 1. The system

TRS is a Go web application in front of the core banking system *Fincloud*. Any
number of instances share one MySQL database and one storage directory.

| Part | Source | State | Operations | What makes it correct |
|---|---|---|---|---|
| SLIK queue and runner | `slik/manager.go`, `slik/repository.go` | `slik_jobs`, `slik_job_accounts`, input and output files, advisory lock | submit, cancel, download; loop: acquire, recover, claim, run, release, clean up | one job at a time, exact progress, resumable, terminal once, no file left behind |
| SLIK workbook | `slik/xlsx.go` | files only | Inspect, Patch | only target cells change |
| Fincloud session | `fincloud/session.go`, `fincloud/client.go` | session, retired session, login in progress | Session, Invalidate, Close, do | one login at a time, no leaked session, one retry, every call ends |
| Snapshot refresh | `snapshot/*.go` | `current_loan_position_snapshot`, `snapshot_refresh_state`, advisory lock | Refresh by scheduler or by hand | all or nothing, right date, never backwards |
| Contractual calculator | `contractual/calculator.go` | none (pure) | Calculate, BuildSchedule | money is conserved, schedule adds up |
| Loan inquiry | `api`, `features/loaninquiry`, `position`, `fincloud/loan.go`, `dwh`, `mso`, `snapshot` lookup | none of its own; reads five sources one after the other | resolve an account and a date to a position | right loan, right day, honest errors, stable history |
| Browser login | `browserauth`, `auth`, `user`, `fincloud/authenticator.go` | failure table, `sessions`, `users` | login, resolve, logout, cleanup | guesses are bounded, one user per name, nothing in the name of an inactive user |
| Access control | `access`, `features/users` | `permissions`, `user_permissions` | replace permissions, (de)activate, bootstrap | a manager always remains, deactivation revokes, the audit trail is true |
| LPS report | `lps`, `features/lps` | none; a pool of goroutines per report | generate | every holder once or an error, arrears of the right loan, no goroutine left |
| Lifecycle | `app/app.go`, `server` | goroutines | start, drain, stop in order | nothing runs after its dependency is closed |
| Schema | `dbschema`, `cmd/migrate` | `schema_migrations` | verify, migrate | applied migrations are a prefix of the known ones |
| HTML, configuration, tools | `features`, `platform`, `config`, ... | little | translation and rendering | not of interest here |

Interactions: the SLIK workers and the snapshot refresh call Fincloud through
`Client.do`, which takes a session from the shared `SessionManager`; MySQL rows and
`GET_LOCK` locks are the only communication between instances, and each lock lives
as long as one connection; a browser request cancels a job by changing its row, and
the runner finds out by polling. Browser requests meet in the `users`, `sessions` and
`user_permissions` tables and in the failure table of their process; an inquiry reads
tables that the snapshot refresh and other systems replace meanwhile. Hard are: a lock that disappears under its holder;
a commit whose answer is lost; a crash between two files or between a file and a row;
a context that ends in the middle of a multi-step operation; shutdown at any point;
results applied after something newer has happened; two administrators, or a login and
an administrator, at once; and reads of one answer taken at different times. `PROJECT.json` lists these
hazards with their lines and the properties that address them.

## 2. Modules

| Module | Role |
|---|---|
| `SlikManager` | the SLIK queue: instances, rows, files, lock, worker pool, faults |
| `SlikQueue` | abstract specification: what the queue promises to the user |
| `SlikProofs` | proofs about `SlikManager`, including the refinement of `SlikQueue` |
| `FincloudSession`, `FincloudProofs` | the session manager and `do`, and proofs |
| `SnapshotRefresh`, `SnapshotProofs` | the snapshot refresh, and proofs |
| `Contractual`, `ContractualProofs` | the contractual calculator with a daily ledger as reference, and proofs |
| `LoginThrottle` | the failure table, as functions of the table and the time |
| `Portal`, `PortalProofs` | login, sessions, users, access management, bootstrap, over `LoginThrottle`, and proofs |
| `LoanInquiry`, `InquiryProofs` | one inquiry: account resolution, choice of the source, errors, and proofs |
| `LpsReport`, `LpsProofs` | one LPS report: downloads, files, worker pool, cancellation, and proofs |
| `Sums` | what a sequence of amounts adds up to, for the properties that count |
| `Induction` | induction over the natural numbers, functions defined step by step and sums, for the proofs |
| `MCSlik`, `MCFincloud`, `MCSnapshot`, `MCContractual`, `MCPortal`, `MCInquiry`, `MCLps` | the modules the configurations instantiate for TLC |

`SlikManager`, `FincloudSession` and `SnapshotRefresh` follow the same conventions. A process is a function from its name to
a control point (`pc`), and one action is one step between two points where other
processes can interfere: a statement or a transaction in MySQL, a file operation, a
critical section, a request to Fincloud. `Fault(k)` guards an outcome that needs a
fault of kind `k`, and `faults` records how many and which kinds have happened; a
configuration chooses the kinds and bounds their number. A property that depends on the
absence of a fault says so in its premise: `Spared({"drop"}) => P` means that P holds as
long as no lock connection has been dropped so far, in behaviours where that may still
happen, so one run checks a component under every fault at once. Definitions `Bug_...` are plausible programming mistakes that
replace the definition after them, to show that a property notices.

### 2.1 SlikManager

State: `status`, `done`, `processed`, `inputFile`, `outputFile`, `expired`, `audited`
are the rows (`done[j]` the completed account rows, `expired[j]` that `expires_at`
has passed); `inDisk`, `outDisk` are the files; `lockOwner` is who
holds `trs:slik-job-worker`. Per instance: `pc`, the `job` it runs, `lost` (the closed
`lost` channel), `root` (the canceled root context), `ctx` (the canceled run context),
`failed` (a failure reason is recorded), `verdict` (the status `finish` was called
with), and the pool: `after` and `page` of the producer, `inflight` accounts in
workers, `alive` workers.

The loop is `AcquireLock`, `Recover`, `ClaimSelect`/`ClaimUpdate`, the run, `Release`,
`Tick`. `ClaimNext` is two statements and therefore two actions. The run is
`RemoveStaleOutput`, `FirstCheck`, then the pool (`FetchPage`, `Dispatch`,
`ProducerStop` for the producer; `Save`, `LookupFails`, `WorkerInterrupted`,
`WorkerReturns` for the workers), `AfterPool`, `CancelCheck`, `FailureCheck`,
`CheckComplete`, `InspectInput`, `Results`, `Patch`, `PatchedCheck`, `Finish`,
`AppendAudit`. `Heartbeat` and `ContextCanceled` are the two goroutines beside it; the
latter also stands for `activeCancel`, which a `Cancel` calls even when its statement found
the job already ended.
Requests: `UploadInput` and `Submit`, `Cancel`; retention: `Expire`, `CleanupRemove`,
`ClearFiles`. Around them: `Close` (shutdown), `Crash`, `Restart`, `ReapConnection`,
`DropConnection`.

Abstractions: accounts are numbers in the order in which they are read; what a lookup
returns is not kept, but whether it can fail by itself is (`BadAccounts` may); the
seven days are a nondeterministic moment, the same for the application's clock (is the
download offered?) and for MySQL's (may the cleanup take it?); a download reads the row and
opens the file in one step, where the code answers "expired" if the cleanup comes in
between; `logDone` only logs.

### 2.2 FincloudSession

State: the four fields of `SessionManager` (`loginErr` reduced to nil, a context error
or another error), per caller the position in `do`/`Session`, the attempt, the session
in hand and the one to log out; at the server the sessions alive and those it `ended` by
itself. Each critical
section of `manager.mu` is one action; the login is two (`ServerLogin` at the server,
`LoginSucceeds` when the answer is published), so that a context may end or an answer
be lost between them. Session identifiers are numbers, fresh at each login or, with
the fault "reuse", one handed out before. `Close` is possible when nobody is inside
`do`: `app.go` stops the HTTP server, the scheduler, the SLIK manager and the cleanup
before it. A drain that times out breaks this assumption and is not modelled.

### 2.3 SnapshotRefresh

State: the table as one `dataset` (its date and the version of the report it was read
from), `last_status`, the lock, today's date and the version of the report in the core
system, and per refresh its business date, its rows, its context, the dataset found at
the start and the audit events written. `dayStart` is a history variable. The steps are
`AcquireRefreshLock`, `MarkAttempt`, `FetchCurrentLoanPositions` (download and all
validation), `ReplaceAll` (one transaction), `AuditSuccess`, `MarkFailure`, `Release`.
The report carries the date of the core system when it is produced; that both change
at the same midnight is an assumption about Fincloud.

### 2.4 Contractual

One behaviour is one call of `Calculate`, one action one iteration of a loop: `Validate`
(everything up to the first row of `BuildSchedule`), `BuildRow`, `ScheduleBuilt`,
`ValidateTimeline`, `ScanRepayment` and `RepaymentsScanned` (`effectiveRepayments`),
`SkipPastDue`, `AccrueDue` (one iteration of `accrueThrough`), `ApplyRepayment`,
`FinishLoop`. `state` is `calculationState`; `received` and `accrued` are history
variables. The sort of the repayments is modelled by taking the least remaining row.
Amounts are integers: the code computes with exact rationals, and all amounts of one
calculation are multiples of some unit. `principalPerPeriod` and `interestPerPeriod`
are inputs because the rounding policy may return anything; the schedule copes with it.
Penalty, early penalty and DWP, which are treated alike, are one component `other`.
The trace counters and the collectability of the result, a pure function of the
timeline, are left out.

`DailyLedger` is the reference: day by day, accrue what falls due, then spread the net
receipts of the day. It knows no order of payments within a day, no pairing of
reversals, and no separate treatment of arrears and advance payments; that the
code's loop computes the same balances is `MatchesDailyLedger`.

### 2.5 LoginThrottle and Portal

`LoginThrottle` has no state of its own: `Cleanup`, `IsBlocked`/`AfterBlocked`,
`AfterFail` and `AfterClear` are the methods of `loginFailures`, each one critical
section. Missing map entries are `NoEntry`, Go's zero time is `Never`.

`Portal` composes it with the tables. State: `users` (with their permissions),
`sessions`, `log` (the audit events written inside access transactions), `failures`,
`req` (per request in flight its step and what it has read), `lock` (the transaction
that holds the manage-permission row), `phase` and `clock`. `owner` tells which tokens
browsers hold; `epoch`, `provisioned` and `guesses` are history variables. One action
is one statement: `LoadPrincipal`, `FindValidSession`, `FindByID`,
`RevokeUnauthenticated`, `ListPermissionKeysForUser` (the middleware); `SubmitLogin`,
`Blocked`, `Authenticate`, `FailLogin`, `ClearFailures`, `FindByUsername`,
`CreateUser`, `CreateSession` (the login, with the time captured at its start);
`BeginChange`, `LockManagePermission`, `ReplacePermissions`/`SetUserActive`, `Commit`,
`Rollback` (an administrator); `Bootstrap`, `DeleteExpired`, `Crash`, `Tick`.

What it takes from MySQL: both access transactions begin with `SELECT ... FOR UPDATE`
of the manage permission, so the rows they count afterwards are the committed ones;
they lock the target's row, and an insert into `sessions` waits for that lock because of
its foreign key (`CreateSession`); other reads see committed rows. `Patience`, the
client timeout of Fincloud (30 s), is shorter than the window and the lockout (15 minutes
in `.env.example`); `Tick` respects it.

### 2.6 LoanInquiry

`Bank` and `Quality` are what is true of the loans; `closing`, `snapshot` and `dwh` are
what Fincloud, the snapshot table and the warehouse hold at the moment, changed by
`CloseLoan`, `RefreshSnapshot`, `LoadDWH` and `NextDay` between any two steps. A request
(`AskAPI`, `AskPage`, `AskPDF`) goes through `GetLoan`, `ResolveAlternate`,
`GetResolvedLoan`, `Route`, then `SnapshotPosition` or `DWHPosition` with `Lineage`,
`HistoricalPosition`, `OpeningState` and `Reconstruct`; `ReadFails` is any failing read.
A position is its source, loan, day and collectability instead of amounts. Errors are
sets of kinds, because the code joins them; `PositionError` and `InquiryError` are the
two translations.

What Fincloud answers is external, and the code compares only part of it, so the model lets
it answer anything that is about loans of the bank: the first `GetLoan` may bring the
contract of another loan (accepted) or none (any HTTP 404, "Data not found" and an empty
id are the same to the caller); the search a page of at most `PageSize` rows (50) of any
loans, with or without their alternate account, even without an id; the second contract may
be another loan's (refused as `ErrInvariant`) or none ("not found", although the search had
found the loan). `misled` records which of this was not so: "other" (a contract of another
loan), "denied" (no contract of a loan it has), "blank" (a row without alternate account
for a loan with another one), "omitted" (a loan with the account is not on the page). The
two properties about the resolution say which of these a wrong answer takes:
`AnswersTheRightLoan` and `NotFoundMeansUnknown`. The number is passed to MSO as it is;
the dots that `formatFincloudAltNoToMSO` puts into a ten-digit number are left out, and a
number MSO does not know under them is one of the failures of `ReadFails`.

### 2.7 LpsReport

`book` is the world of one generation: the reports, the detail file whole or in parts,
the live customers and MSO. The request's goroutine goes through `Validate`,
`DownloadRates`, `Download`, `DownloadWhole`/`DownloadPart`, `ParseCustomers`,
`BuildDN`, `StartPool`, `Collect`, `Collected`, `Archive`, `Answer`; beside it `Hand`
and `ProducerReturns` (producer), `Inquire` and `WorkerReturns` (workers) and `Cancel`.
`Joined` and `Glued` say what concatenating the bytes of the parts does to the table.

## 3. Runs

| Run | Question | Bounds |
|---|---|---|
| `slik_faults` | exact counters, sound completion, one audit event, no stuck producer, no orphaned files, crashes alone never fail a job, no saved account is looked up again, one job globally while the lock is kept, offered downloads exist, refinement of `SlikQueue` | 2 instances, 1 job, 2 accounts (one may fail), 2 workers, page 1, 2 faults of every kind |
| `slik_live` | every job ends and is cleared | 2 instances, 1 job, 2 accounts, 1 fault of every kind |
| `slik_shutdown` | disagreement, see section 6 | 1 fault |
| `slik_retention` | disagreement | 1 instance, 1 job, 1 crash |
| `fincloud` | one login at a time, a call fails on its session only after two of them were ended, a late rejection drops nothing live, no live session is forgotten or survives Close, every call ends | 3 callers, 2 faults of every kind |
| `fincloud_retired` | disagreement | 1 caller, 2 denials |
| `snapshot` | right contents under every date, never backwards, a failure preserves the dataset, honest audit trail, current in the end | 1 scheduler, 1 request, 2 days, 2 versions of the report, 2 faults of every kind |
| `contractual` | balances of the daily ledger, conservation of money, a schedule that adds up, the final check never fires | 19588 calculations: up to 3 repayments on 3 dates, reversals and malformed rows, 2 or 3 instalments on, before and after the cutoff, rounding up, down and exact, changing collectability |
| `portal_access` | a manager remains, the audit trail replays, deactivation revokes, inactive users are not served | 2 users (one inactive with a retired permission, one new), 2 requests, 2 sessions, 3 changes, 2 ticks |
| `portal_login` | one provisioning per name, bounded guesses | 2 spellings of one name, 2 requests, limit 3, window and lockout 4, table of 1 entry, 5 ticks |
| `inquiry` | right loan, evidence of its day, not-found means unknown, stable history | 4 loans (migrated flat and annuity, native, without alternate), asked for by 2 primary, 2 alternate (one of them shared) and 1 unknown number, pages of 2 rows, cutoff and 3 days after it, 1 request at a time |
| `lps` | every holder once, right arrears, every generation ends | 5 customers, 3 of them only in the accounts, 2 parts, 2 workers, 14 worlds |

Why the bounds are enough: two instances are what a lost lock needs, one to lose it and
one to take it; the interplay of several jobs is left to the theorems, which hold for any
set of them; two accounts, one of which may fail, let a failure meet a checkpoint in
flight; a page of one forces the producer to page; two faults let a fault hit the
recovery from another. Three callers are a leader, a waiter and a caller with an old
session; two ended sessions are what the claim about one retry is about. Two days are a
midnight, and two refreshes are what a lost lock or a late commit needs. For the
calculator, two rows are a row and its reversal and a third stands between, before or
after them; two instalments are one before the last and the last, with payments before,
on and after their dates, smaller and larger than what is owed. Two requests are two
administrators, two first logins, or an administrator and a login; two sessions are one
deleted by a deactivation and one created beside it. The clock of `portal_login` is longer
than the window and the lockout, so that both run out, and the window is long enough for
the bound to be reached: a leftover of one window, a full one, and a request past the check. For an inquiry, the days are one
before, at and after the cutoff and two midnights; requests do not share state, so one at a
time meets every change of the world; a page of two rows holds a match and a stranger, or
two matches, and leaves a third out. The other two loans are reached as what Fincloud
mistakes a number for. Three missing customers for two workers leave one to
hand out after a result. The theorems of section 4
lift the safety part to any number. Deadlock checking is on except in `lps`,
where a behaviour ends with the request it describes.

Fairness, and why the code gives it. SLIK: every step of an instance that is up
happens (statements have deadlines, a lookup two minutes), `Restart` (systemd
restarts the service), `ReapConnection` (MySQL ends dead connections), the heartbeat of
a lost lock, cleanup, and strong fairness where another instance can disable a step in
between (acquiring the lock). Fincloud: every step of a call, because every request has
a timeout. Snapshot: the steps of a refresh, `ReapConnection`, and strong fairness of a
scheduler's acquisition, because its ticker tries for ever; nothing is assumed of
manual requests. LPS: every step of the request's goroutine, of the producer and of each
worker, because goroutines are scheduled and every remote call has a timeout; a step that
may fail may always fail. Portal and inquiry claim no liveness. Faults are never fair and their number is bounded: the liveness
properties say what happens once faults stop.

## 4. Proofs

The theorems hold for all sets of instances, jobs, accounts, callers, refreshers, users,
requests, loans and workers and all bounds; the assumptions on constants are the named
`ASSUME`s of the modules, and TLC evaluates each of them on the instances of the runs.
`PROJECT.json` lists the theorems.

*SLIK.* The inductive invariant `IInv` is the conjunction of named parts, each proved
step by step: `TypeOK`; `HasJob` (a running instance has a job whose row exists);
`PoolInv` (workers alive and in flight are consistent, and the context is canceled
before a worker leaves: `ProducerNeverStuck` follows); `CheckedInv` (past
`CheckComplete` with the verdict COMPLETED every account is done, which holds although
the instance may have lost the lock, because account rows never go back); `RowInv`,
`AuditInv` (only an instance that itself made the row COMPLETED reaches the audit step,
and the row never becomes anything else, so there is no second event); `LockInv`,
`ProcessingInv` (without a dropped connection, believing to hold the lock is holding
it); `OutputInv`; `ExpiryInv` and `OrphanInv` (a run that ends without success has removed
its output, one that completed has named it, and cleanup blanks a name only after the file
is gone), which give `NoOrphanFiles`; `InputInv` and `CrashInv`, which give
`CrashNeverFails`. The last one is about the resumption of a job: as long as processes only
die, `Covered` says that an account that is not checkpointed is with a worker, on the page
or still to be fetched, so a pool that drains has checkpointed all of them, and whatever
ends a run early is one of the excuses the property names. `CursorInv` (the cursor of a run
separates what its workers have from what is on the page, neither of which is saved, and
nobody else saves) gives `NoWorkRepeated`. `TerminalIsFinal` and the refinement of
`SlikQueue` are step properties proved from the invariant.

*Fincloud.* `FInv`: `FlightInv` (a login in progress is marked, alone, and without a
session), `IdInv`, `ForgottenInv`, `DeadInv` (a rejected, retired or logged-out session
is dead), and the argument for the retry: `DeadEnded` (while nothing is denied or reused, a
dead session is one the server ended) and `SecondAttempt` (a caller in its second attempt
has left a dead session behind that it cannot meet again), so a second rejection is of a
second session that the server ended.

*Snapshot.* `SInv`: `HistoryInv` (what was read or stored lies between the versions at
the two midnights around its date), `LockInv`, `NewerInv` (what a holder of the lock is
about to store is no older than what it replaces), `PreserveInv`, and for the audit trail
`OutcomeInv` (an outcome is audited right before the release, so there is one) and
`CommittedInv` (under the lock what was committed stands until the release).

*Contractual.* `CInv`: `StartInv`, `BalanceInv` (balances are consistent from the
validation on), `RowsInv` (rows of the schedule and amounts of accepted repayments are
not negative, which `BalanceInv` needs), `TableInv` (the rows built and the balance after
them make up the contract, and the last row takes what is left), `MoneyConserved`, and `ScanInv` (what has been
scanned stands before what has not, and its reversals are paired). The heart is
`WaterfallFacts`: in both orders the buckets keep the balances consistent, lose nothing
and leave a rest only when everything is paid; paying in advance is sound only because
the principal due was paid first.

`MatchesDailyLedger` has an invariant of its own: `ContractInv` (the rows built are the
scheduled ones of the ledger), `KeptInv` (the rows kept are in order, and those kept and those not
yet looked at still add up to the net receipts of every day: a reversal and its row
cancel out), `OpeningInv`, and `LoopInv`: the loop has reached some day of the ledger, on
which the instalments up to that day are accrued and a part of its receipts is spread.
Three facts carry the loop from day to day. The buckets of `allocate` spread a payment like
the ledger, which does not tell arrears from advances (`AllocateSpreads`); two payments of a
day are spread like their sum, in both orders of the buckets (`SpreadTwice`); and on a day
without instalment or receipt the ledger stands still (`IdleDays`), so accruing only when
a payment comes is accruing in time. That due dates increase is what makes
one instalment fall due on a day. The ledger is a recursive function: that it exists, and
is what its definition says, is again an induction (`DailyLedgerIs`).

*Portal.* `PInv`: `PointInv` (what a request knows at each point), `LockInv` (a transaction
past its first statement holds the lock row), `RowInv` (rows are never deleted and only a
name without one is provisioned), `CommitInv` (what a transaction will commit was checked
under the lock, so it still leaves an active manager and a deactivation still takes every
session of the user with it), `SessionInv`, `TrailInv`. `ManagerRemains`,
`DeactivationRevokes`, `InactiveNotServed` and `TrailReplays` are parts of it; the trail is
replayed by induction over its length. `ASSUME` adds that the configured managers are
finitely many and that a row that does not exist is blank.

`GuessesBounded` has an invariant of its own, `ThrottleInv`: `AgeInv` (the client's timeout
keeps an attempt young until it is judged), `EntryInv` (an entry without a lock is short of
the limit) and `PaceInv`. While an attempt of a span can still be judged, the entry tells
how many were rejected in it: those the entry counted; before them the leftovers of one
window that ended in the span, whose first failure came before it; and once the entry is a
lock that fell in the span, also those still past the check, of whom there are no more to
come. An attempt carries the time of its beginning into the table, so a late failure
backdates a window or a lock by up to the timeout; with a span that is shorter than window
and lockout by one timeout only, more requests than the limit could pass the check twice,
before a backdated lock and after it. The span is therefore shorter by two. The theorem
assumes that the requests in flight are finitely many.

*Inquiry.* `IInv`: `WorldInv` (close dates and the warehouse), `ProgressInv`, `LoanInv`
(before the contract `misled` is what the first try left; from the resolution on the
request has a loan of which the two conclusions of `AnswersTheRightLoan` hold, each unless
Fincloud said something untrue that it names), `CloseInv` (a close date read early is still the one, or the loan was closed
not before the day the request calls today), `ExactInv` (the route and the day of the exact
position agree). Nothing is locked between the reads, so these say what later changes may
and may not do to what was read. The assumptions say that an alternate number is never
another loan's primary number and that a loan has one true collectability a day; of
Fincloud's answers nothing is assumed. `CandidatesAre` says what the filter of the rows
guarantees: each candidate has the number unless a blank row was a stranger's, and each
loan with the number is a candidate unless it was left out.

*LPS.* `LInv`: `BuildInv` (the DN lines follow the customers of the report), `OnceInv` (a
missing customer is unsent, with one worker, in the channel or collected, and only one of
these), `NoneLostInv` (it is in one of them until a result is an error; the producer only
leaves customers unsent when the request is canceled, and then the report fails),
`DetailInv` (the details hold the rows of the parts read, in one order of columns) and
`FileInv`. `parseCustomers` is shown by induction to keep each CIF once. `BooksAssumption`
states what the sources are taken to be: tables; a detail source that has one arrears of a
loan; and a Fincloud that answers about the CIF it was asked about, which `buildLiveDN`
does not compare.

*Induction.* The library's induction theorems take a predicate as a parameter, which the
installed provers cannot instantiate. `Induction` derives induction for a set of numbers
from the well-foundedness of `<`, and from it that a function defined step by step exists
and is the only one; the proofs about `parseCustomers`, the audit trail, the daily ledger and sums use these forms.

Each inductive invariant contains the type invariant of its module, and the type
invariants, `TerminalIsFinal`, `OneProcessingRow`, `ReversalsArePaired` and
`UnappliedOnlyWhenSettled` are theorems without a run of their own.

No theorem assumes that a kind of fault is absent: those that need it state `Spared` in
the property, like the runs, and the parts of the invariants carry the same premise.

Model-checked only: liveness and the fair part of the refinement, which are outside what
the installed provers do. Every invariant and every action property of a run is a theorem.

## 5. Not modelled

- The workbook (`slik/xlsx.go`): ZIP and XML rewriting of one file by one goroutine. What
  could go wrong is in the bytes, which a model of this kind does not have; the runner's
  view, success or failure, is modelled.
- Parsing and formatting of money, decimals, dates and report columns, PDF and HTML,
  navigation and branding: conversions without state.
- Configuration, logging, the database connection and the schema commands: read or run once,
  by one process, before anything else.
- The order of start and shutdown (`app/app.go`) is an assumption of the models: `Close` of
  the Fincloud session comes last. A drain that times out and leaves handlers running breaks
  it.
- An error of a database in the middle of a browser request is one 500 page
  (`InternalError`); an insert of a user that was applied and whose answer is lost is the
  error of the step after it. In `portal_login` no name has a row at the start, so that
  nobody is provisioned who had one is left to the theorem.
- The audit log's search page, the developer tools, and what happens inside MySQL, Fincloud,
  MSO, the warehouse and net/http.

## 6. Where the code and its documentation disagree

1. `slik_shutdown`: a shutdown that begins after the pool has drained makes
   `CheckComplete` or `Results` fail under the canceled root context, and the job ends
   FAILED; the comment at `manager.go:455` and `docs/PRODUCTION.md:101` promise that it
   resumes.
2. `slik_retention`: an output written just before a crash has no name in the row; if the
   job is canceled before it is claimed again, nobody removes the file, while `README.md:19`
   says that the files of canceled jobs expire. `EveryJobIsCleared` and `NoOrphanFiles`
   therefore speak of the output only as long as no process died, no lock was dropped and
   the storage did not fail.
3. `fincloud_retired`: `Close` does not log out a retired session that is still alive
   (`docs/PRODUCTION.md:102`).

Some promises hold with a proviso, which the property states:

- `OneJobWhileLocked`: until the next heartbeat after a dropped lock connection two
  instances may run the same job (`README.md:21` says that one runs globally). Counters,
  checkpoints, completion and audit stay right all the same.
- `AnsweredFailurePreserves`: a commit whose answer is lost is reported as "the previous
  successful dataset was preserved" (`features/snapshots/handler.go:62`).
- `GuessesBounded`: attempts in flight are past the check when the lock falls, a failure is
  dated by the beginning of its attempt, a window may end one failure short of the limit, and a full table counts no further names; the bound
  says how much that adds up to. A successful login on the account and a restart forget the
  failures, and the count begins anew.
- `RetrySuffices`: a server that denies a live session or hands out an identifier twice
  makes a call give up earlier.
- `AnswersTheRightLoan`: the first contract is not compared with the number asked for
  (`fincloud/loan.go:91`), and a row of the search without alternate account counts as a
  match (`loan.go:167`); the property names both. With a stray blank row the answer is still
  no other loan than the one with the number, unless Fincloud denied that or left it out of
  the page of 50.
- `NotFoundMeansUnknown`: every HTTP 404 of Fincloud counts as "not found"
  (`fincloud/client.go:181`), also for a loan that the search has just returned.
- `ArrearsReported`: split detail files must list their columns in one order and end their
  last lines (`UniformParts`); the code compares the headers as sets and joins the bytes.
- `HistoryIsStable`: the warehouse must hold one value for the day; `ExactPosition` takes
  any of several (`LIMIT 1`), while the timeline refuses them. For today a reconstruction
  may lack yesterday's collectability as long as the warehouse is not loaded. The model
  loads the warehouse day by day without gaps and dates no closing back; a late correction
  of either changes what a past day answers.

## 7. Plan

Done: models, runs and proofs of the SLIK queue, the Fincloud session, the snapshot refresh,
the contractual calculator, browser access, loan inquiries and LPS reports.

Next: the parts the component list calls partly modelled, in particular the reader of
Fincloud loans and reports, and with them the theorems that compose a reader with the
inquiry that uses it.
