# Formal models of the fuel and vehicle dispatch management system

This directory holds TLA+ specifications of the parts of the system that keep state, the
configurations with which TLC checks them on small instances, and proofs that TLAPS checks
for every instance. `PROJECT.json` is the index: which definition stands for which lines,
which run checks which property, which code is known not to do what its documents say.

## 1. The system and its parts

FVDMS is a Next.js application over one MySQL database, with two background workers. Every
state-changing request is one use case in `src/src/application`, run in one database
transaction that writes the business rows and an audit event together. There is no state
in the processes between requests; every interaction between parts goes through rows.

| Part | State | Operations | What makes it hard | What makes it correct |
| --- | --- | --- | --- | --- |
| Dispatch workflow (`application/dispatch`) | dispatch rows (status, references, date), the singleton schedule policy, append-only conflict evidence | create, edit, dispatch, complete, cancel, set policy | several row locks per transaction, plain and locking reads in the same transaction, an acknowledgment made before the transaction starts | no double booking that nobody acknowledged; evidence that was true when written; terminal states final; the audit trail follows the lifecycle |
| Fuel issuance (`application/fuel`) | issuance rows, monthly RIS counters, append-only ledger | create, edit, post, void, balances | posting touches six rows in order; a rolled-back posting must give its number back | RIS numbers unique and without gaps; the ledger says what the issuances say |
| Budget allocations (`application/budget`) | allocation rows (status, office, quarter, year, deletion) | create, edit, activate, close, cancel, delete, restore | an allocation changes while a posting relies on it | lifecycle graph, terminal states, identity fixed once active |
| Master data (`application/office`, `driver`, `vehicle`) | office, driver and vehicle rows | create, edit, delete, restore | records referenced by running transactions | a deleted or inactive record takes no new work |
| Audit (`application/audit`) | outbox, hash chain and its head, sink deliveries, sink, verification runs | append (inside every use case), chain a batch, deliver a batch, verify | outbox positions are given before commits; crash between delivery and mark; two databases | every committed event is chained once, in order, and delivered |
| Exports (`application/reporting`) | export jobs, download tokens, files | request, claim, renew, complete, retry, fail, expire, link, download, clean up | leases, crashes, timeouts, two kinds of executor, a file system beside the database | one owner per running job, every job ends, files and rows agree |
| Authentication and administration (`application/auth`) | users, roles, sessions, challenges, TOTP factors, failure counters, settings | login, challenge steps, logout, password and factor resets, user and role administration | checks made in one transaction and used in another; clocks | one use per challenge and TOTP counter; resets and changes of rights end what came before them |
| Schema (`database/migrations`, `scripts`) | the tables, the seeded permissions and grants, `kysely_migration` | migrate, roll back, refresh, first administrator, demonstration data | MySQL commits each statement that defines a table; grants are edited between runs | no statement is refused, but for one grant that an administrator gave before; the rows of the migrations in force, and old events, are there |
| HTTP routes (`app/api`, `lib/http`) | the CSRF token of a session | one per use case | a token is replaced whenever a page asks for one | what a screen offers, the route accepts |
| Browser (`app`, `components`) | the screen, its token, the fields of a form, lists being polled or paged | open, submit, refresh, look up, acknowledge, poll, page | answers that overtake each other or are lost, other tabs, effects torn down and started again | nobody acknowledges what he has not seen; no form locks itself out; polling neither stops nor doubles |
| Reports (`database/reporting`, `infrastructure/reporting`) | none of their own | page, total, stream into a workbook | pages without a common read view | no row that stayed the same is missed or repeated; totals are those of the rows |
| Configuration, logging, composition, health | none | | | not modelled: parsing and wiring |

The parts meet in three places: the office, driver and vehicle rows that dispatch and fuel
lock and master data changes; the allocation rows that fuel locks and budget changes; and
the outbox to which every use case appends and which the audit worker reads.

MySQL is external. It is modelled from how the repository uses it: exclusive and shared row
locks held to the end of the transaction, read views for plain reads, rollback of deadlock
victims, unique keys. The repository sets no isolation level, so the server's default,
REPEATABLE READ, applies, and the models assume it: the first plain read of a
transaction fixes what its later plain reads see, and only reads that lock see later commits.

## 2. Plan

The order was by importance of the behaviour; each item names the modules it led to.

1. The dispatch workflow: `DispatchTransactions`, proofs in `DispatchTransactionsProofs` (the
   locks and the conflicts, then the rules that rest on them).
2. Fuel posting with the budget allocations it relies on: `FuelTransactions`, the abstract
   ledger `FuelBook`, the refinement and the proofs in `FuelTransactionsProofs`.
3. Audit: `AuditChain`, the abstract log `AuditLog`, `AuditChainProofs`.
4. Export jobs: `ExportJobs`, the lifecycle a requester sees `ExportLifecycle`,
   `ExportJobsProofs`.
5. Authentication and administration: `Identity` (rows and statements), `SignIn` and
   `Accounts` (use cases over them), composed and checked by `IdentityMC`; proofs in
   `IdentityProofs`.
6. The schema and the tools that change it: `Migrations`, `Deployment`, `DeploymentMC`;
   proofs in `DeploymentProofs`.
7. The browser: `Access` and `Screens` (routes and screens as data), `Workbench` (a user at
   work), the forms `DispatchDraft` and `FuelDraft`, `ExportList`.
8. Read paths: `Reports` and `Registry`. `BrowserMC` composes items 7 and 8 for TLC;
   `BrowserProofs` has the proofs of both.
9. `DataTheorems`: what the proofs of 2, 3 and 8 need about finite data. Least elements,
   induction over finite sets, the laws of sums (a sum over a set splits over its parts and
   its groups and does not depend on names), sorted enumerations.

Every safety and every action property of a passing run is now also a theorem for every value
of the constants. Four liveness properties (`ChainedIsDelivered`, `CapturedIsFinalized`,
`QueuedEnds`, `CompletedExpires`) stay with TLC: the provers have neither fairness nor ENABLED.

Left: one lock order for dispatch and fuel together, to show that only the
known deadlocks exist; fiscal periods and decimal rounding against reference definitions.

Induction in proofs: the library's induction theorems take the property as an operator, which
the provers cannot instantiate. `BySubsets` of `DataTheorems` takes it as the *set* of the
subsets that have it, which is enough for what is said of finite sets of rows, ledger entries
or events; it rests on `LeastSubset`, that is on the finiteness of the set alone.

## 3. Dispatch: `DispatchTransactions`

### State and actions

`status`, `booking`, `evidence`, `settings` and `trail` are the committed rows: the dispatch
lifecycle, its office, driver, vehicle and date, the conflict-override rows, the policy
(its `revision` stands for `updated_at`, which enters the fingerprint) and the audit events
of each dispatch. `operational` says which master-data record may be used. The rest is per
session: `pc`, the request (`op`, `target`, `want`, `ack`), what it has read (`view`), what
it will append, and its row locks.

A request is `Begin...` (what it reads before any lock), `LockRows` (office, driver and
vehicle in this order, found operational, then the dispatch row), `Resolve` (the policy and
the conflicting rows, read and locked in share mode, then
`DispatchConflictResolutionService.resolve`) and `Commit...`; `Rollback` is every other end:
a refused conflict, a status error, a missing record, a deadlock victim, a lost connection.
`Complete`, `Cancel` and `ChangeMasterRecord` lock a single row before they read it and are
one action. Locks taken between two reads are taken together: a lock acquisition commutes
to the right of what other sessions do, so nothing is lost by this except where exactly a
waiting session waits, and no property is about that. A client's acknowledgment is the
fingerprint as of some earlier moment (`Reviews`), and any number of commits may happen
between it and the locks.

Only `DispatchVehicle` makes a plain read before it takes its locks: it has to find out which
office, driver and vehicle to lock. That read fixes the view of its transaction, so `view` is
set by `BeginDispatch`, and `RowRead` (what `findByPublicIdForUpdate` returns: it locks the row
and then reads it with a plain query) gives a dispatch the row of its view, an update the row
as it is. Two reads of one view never differ, so the comparison at `dispatch-vehicle.ts:60-67`
never fires. `overtaken` is a history variable: the dispatches that were sent out by a session
whose view of their status or booking was no longer that of the row.

### Properties

What the code does to a dispatch it sends out on an out-of-date view is the subject of the
violation below. The other properties say that this is the only way to break the rules: they
hold of everything but `overtaken`, however the rest interleaves.

- `NoUnacknowledgedDoubleBooking`: two reserving dispatches that share the date and a driver
  or vehicle have evidence of an acknowledgment of that kind of conflict between them.
- `BlockAddsNoConflict`: no step under BLOCK adds a conflicting pair.
- `AcknowledgmentIsCurrent`: an override row is written only under WARN_AND_ACK, by a session
  that may override, with a review of the policy revision in force that names the conflict; this
  holds of every dispatch. Unless the dispatch is overtaken, the review is of the booking that
  the commit *leaves in the row*, the conflict still holds, and the review names every other
  conflict of that booking (`ReviewsBooking`) but those with overtaken dispatches.
- `TrailIsLegal`: the audit trail of a dispatch follows the lifecycle. Row and event are
  written by one commit, as in the code, where they share a transaction; the property is about
  the order of commits, not about a row without its event.
- `DispatchedResourcesOperational`: a dispatch goes out with records then in service.
- `TerminalIsFinal`: a completed or cancelled dispatch stays so, as `src/README.md:248` has it and
  without the exception. The code does not.
- `TransactionsOK`: `SessionsOK`, `LocksOK`, `ReadsStand` and `JudgmentsStand`, the inductive
  invariant of the proofs.

### Runs

| Run | Instance | Shows |
| --- | --- | --- |
| `dispatch_rules` | 2 sessions, 2 dispatches, 2 days, 1 vehicle, 1 driver who goes out of service and back, 2 policy changes | the conflict rules, the lifecycle, the reviews and the check of the references while drafts are moved between days and cancelled and the policy turns to BLOCK and back |
| `dispatch_terminal` | 2 sessions, 1 dispatch | **violation** of `TerminalIsFinal` |

Two sessions are enough for every pairwise race, which is what locks on rows can get wrong;
two dispatches are enough to conflict, two days let a booking move away from a conflict and back,
and two policy changes let an old acknowledgment meet a policy that is WARN_AND_ACK again. With
one driver and one vehicle every conflict is by both; that the kinds are told apart is left to the
proofs, which are for any of them. `MaxRevision` bounds policy changes and `MaxTrail` audit events
of one dispatch, and `Volatile` the records that change. Where a bound stops a session, no progress is claimed: these
runs turn deadlock checking off, and no liveness is stated, because a request waits for its
locks, gives up, or is rolled back, and the client, not the system, decides whether it tries
again.

### The violation

The row that `DispatchVehicle` locks is examined as it was at the discovery, and the `UPDATE` of
its commit writes the status whatever the row has become. In `dispatch_terminal` a cancellation in
between is overwritten: the cancelled dispatch is DISPATCHED. Two other promises of the
documents break by the same cause, and the properties above name it as their exception:

- BLOCK (`src/README.md:266`, "rejects every conflict"): a draft is moved to another day and
  cancelled, and its new day is taken by another dispatch. The command judges the old day, finds
  no conflict, and brings the draft back on the new one.
- The recheck of the references (`src/README.md:234-236`): a draft is moved to another driver, who
  is then deactivated. The command locks and checks the first driver and sends out the second.

### Proofs

`DispatchTransactionsProofs` proves, for any number of sessions, dispatches, drivers,
vehicles and dates:

- `TypeCorrect`: the type invariant with `SessionsOK` (what each pc says of the session's
  fields); `LocksExclude`: `LocksOK` (which locks it then holds, and that locks exclude);
- `ReadsAndJudgmentsStand`: `TransactionsOK`, which adds `ReadsStand` (a dispatch judges the
  booking of its view and knows no evidence that is not there; the row an update read under its
  lock is still so) and `JudgmentsStand` (from the judgment to the commit every conflict of the
  judged booking, but those with overtaken dispatches, is acknowledged);
- `DoubleBookingAcknowledged`: `NoUnacknowledgedDoubleBooking`, from these. The property alone is
  not inductive: it says nothing of what happens between the conflict query and the commit, which
  is what `JudgmentsStand` adds. No conflict can appear there: whoever would write the same driver
  or vehicle needs a lock this session holds (`SharersLock`, `StepAddsNoConflict`), unless it
  writes a row whose booking is not the one it locked for, and that dispatch is overtaken;
- `AcknowledgmentsCurrent`: `AcknowledgmentIsCurrent`. From its judgment to its commit a session
  holds share locks on the policy row and on the dispatches it lets through (`OverridesStand`),
  so nobody can change those, however old its view. That the review is of the booking left in the
  row and leaves out no conflict is `ConflictsStand` with `CommitWrites`;
- `BlockBlocks`: `BlockAddsNoConflict`, from `ConflictsStand`: the conflicts a session has judged
  are those there are until its commit, up to overtaken dispatches;
- `DispatchesGoOutUsable`: `DispatchedResourcesOperational`, from `ResourcesUsable`: the records a
  session has locked stay usable until it ends;
- `TrailsLegal`: `TrailIsLegal`, from `TrailFits` (the trail of a dispatch is the one its status
  calls for), and `OnlyOvertakenReopened`: what `TerminalIsFinal` says, of all but the dispatches
  that are overtaken after the step. An up-to-date view had a draft, so the row is one
  (`FreshDispatch`).

`ReviewAssumption` only says that the mark for "no acknowledgment" is no fingerprint.

### Not modelled

Odometer readings, texts and permissions other than `dispatch.conflict.override` (they
gate a request without touching state; `Access` has them) and the calendar (read-only; the
availability check is `Reviews` here and a lookup in `DispatchDraft`). Lists are in
`Registry`, reports in `Reports`.

## 4. Fuel and budgets: `FuelTransactions`, `FuelBook`

### State and actions

The committed rows are the issuances (`status`, `details`, `ris`, `liters`), the last RIS
number of each month (`counter`), the append-only `ledger`, the budget-`allocation` rows and,
for drivers, vehicles and offices, whether they are `operational`. Per session there are
`pc`, the request (`op`, `target`, `want`), the `number` taken and the exclusive locks.

`BeginCreate`, `BeginUpdate` and `BeginPost` start a request. `LockIssuance`, `TakeNumber`
(postings only) and `LockReferences` follow the code's lock order: the issuance, the month's
counter, then driver, vehicle and the allocation with its office. A commit writes all rows
at once; `Rollback` is every other end. Each read is made by the statement that locks the
row, so the isolation level plays no part here, unlike in `DispatchTransactions`. The liters
of a posting are an input of its commit: how a price and an amount round is left out. The
void and the seven budget commands lock what they change before they read it and are one
action each. `Volatile` bounds which records change while issuances run.

`FuelBook` is what the workflow promises: an issuance is prepared any number of times, posted
once, which gives it the next number of its month and a negative net quantity, and voided at
most once, which brings the net back to zero. It has no sessions, locks, counters or ledger.

### Properties

- `NumbersDense`: the RIS numbers of a month are 1 up to its counter, each given once.
- `LedgerAgrees`: the ledger has exactly the rows the issuances' statuses call for.
- `BalancesAgree`: any balance report opens and closes on what posted issuances took out.
- `PostedAgainstEligible`: a posting commits against records in service and a current,
  ACTIVE allocation of the entry date's quarter.
- `Serialized`: the inductive invariant of the proofs.
- `ImplementsBook`: each commit is one step of `FuelBook`, every other step a stutter.

### Runs

| Run | Instance | Shows |
| --- | --- | --- |
| `fuel_posting` | 2 sessions, 2 issuances, 2 quantities, 2 offices, 1 allocation, 2 months of 2 quarters; driver and allocation volatile | numbers, ledger, balances and the refinement; postings are eligible when they commit |

Two issuances share a month or do not, and a rolled-back number can be taken by the other
posting; days 1 and 2 are the last of a month and quarter and the first of the next. The
state is finite without a bound on time: an issuance is posted once, so the counters end.
A session can always give up, so no state is without a successor, and no liveness is stated,
for the reason given for the dispatch runs.

### A divergence

An issuance stores its allocation and no office; the report queries join the allocation's
office as it is now (`kysely-report-query-repository.ts:164`). An ACTIVE allocation that is
deleted and restored comes back as DRAFT, a DRAFT may be given another office
(`update-budget-allocation.ts:50-76`), and nothing looks for posted issuances. So a posted
issuance can move to another office in the reports, while `src/README.md:303-304` says that
historical labels are persisted transaction facts. The model has these steps; no property
of the project claims otherwise.

### Proofs

`FuelTransactionsProofs` proves, for any sessions, issuances, records, calendar and
quantities that satisfy the three assumptions of the module (identifiers are distinct,
quantities are positive, every date has a month and a period):

- `FuelTypeCorrect`: the type invariant;
- `PostingsSerialized`: `Serialized`, the conjunction of `SessionsOK`, `LocksOK` and
  `ReadsStand`. `NumbersDense` alone is not inductive: nothing in it says that the number a
  session carries is still the next one when the session commits. `ReadsStand` does, and
  needs `LocksOK`: only the holder of a counter's lock changes the counter;
- `PostingsEligible`, `NumbersGivenOnce`, `LedgerFollowsIssuances`: `PostedAgainstEligible`,
  `NumbersDense` and `LedgerAgrees`, from `Serialized`;
- `BookImplemented`: the refinement, `Spec => Book!Spec`. `CommitCreate` and `CommitUpdate` map to
  `Prepare`, `CommitPost` to `Post` by `NumbersDense`, `VoidIssuance` to `Void` by
  `LedgerAgrees`; every other action is shown to stutter.

- `BalancesFollowLedger`: `BalancesAgree`. `LedgerAgrees` says that the ledger has, for every
  issuance, just the entries its status calls for. So the sum over the ledger splits into one
  sum per issuance: a posted one has one entry, a voided one has two that cancel. The ranges
  of a report (before, within, up to) split the same way by date. A sum needs a finite set:
  that the ledger is one is an invariant of its own, since each step adds one entry.

### Not modelled

Decimal amounts and their rounding, the PPMP identity of an allocation (it only decides
whether a create is refused), and the audit events, which each use case writes in its own
transaction. Lists are in `Registry`, the form and its options in `FuelDraft`.

## 5. Audit: `AuditChain`, `AuditLog`

### State and actions

The outbox is `tx`, `position` and `lastPosition`: each event is appended by a business
transaction of its own, which takes the next auto-increment position when it inserts
(`AppendEvent`) and becomes visible, or vanishes, when it ends (`EndTransaction`); the counter
never goes back. `chain` and `head` are `audit_chain_entries` and the one row of
`audit_chain_heads`; `due` and `sent` are the delivery rows whose retry time has come and
those marked delivered; `sink` is the table of the second database and `runs` that of the
verification runs. A worker process has `wpc`, what it holds or has read (`headLock`, `seen`,
`rows`) and the deliveries it has listed (`todo`); `verifier` is the running verification.

| Code | Actions |
| --- | --- |
| `KyselyAuditOutboxStore.append` in any use case | `AppendEvent`, `EndTransaction` |
| `AuditChainWorker.runBatch`: head row locked, outbox read beyond it, records hashed | `ReadOutbox`, or `FindNothing` (IDLE), `Halt` (a row does not validate: the batch, good rows before it included, is rolled back and the process exits) |
| the end of the same transaction: entries, delivery rows and head | `AppendRecords` |
| `AuditSinkDeliveryWorker.runBatch` | `ListPending`, then for each record in order `SinkAppend` and `MarkSinkDelivered`, or `ScheduleSinkRetry`; `RetryComesDue` |
| `runAuditWorker` and its supervisor | the order of the above in `wpc`; `Crash`, `Restart` |
| `VerifyAuditChain.execute` | `StartVerification` (captures the head), `VerifyPage`, `AbandonVerification` |

`SinkAppend` and `MarkSinkDelivered` are two actions because they are transactions of two
databases. A failed append may have reached the sink, so `ScheduleSinkRetry` allows both. A
page of the verifier is one action: its chain entries never change, so when they are read
makes no difference, and its copies are read by one statement. SHA-256 over the canonical
form is taken to be injective: a hash is the sequence of the events it covers.

`AuditLog` is the promise: captured events are appended to one log, each at most once; the
log never changes; the sink holds copies of log entries; a copy is confirmed after it is made.

### Properties

- `ChainLinked`: sequences without gaps, each record linked to the one before it, outbox
  order, committed and valid events only, and the head row is the last entry.
- `HeadStands`: what a worker read under the head's lock still holds when it appends.
- `DeliveredIsCopied`: the sink has only exact copies, and whatever is marked is there.
- `AuditInv`: these with `PositionsGivenOnce` and `WorkersDeliver`, the inductive invariant.
  `HeadStands`, `DeliveredIsCopied` and `AuditInv` are the proofs' and in no run.
- `PassedRangeMatches`: a passed run's range is in the sink and hashes to the recorded hash.
- `OnlyLagIsReported`: running beside the workers, the verifier reports at worst a copy that
  was not there yet.
- `ImplementsLog`: each step is one of `AuditLog`, or a stutter.
- `ChainedIsDelivered`, `CapturedIsFinalized`: the liveness properties.
- `NothingSkipped`: no committed event is left behind the head.

### Runs

| Run | Instance | Shows |
| --- | --- | --- |
| `audit_chain` | 3 events, one of them poison; 2 workers; batches of 2 and 1; 1 verification run | every safety property and the refinement, with crashes anywhere |
| `audit_delivery` | 2 events, 1 worker, fair | every chained record is delivered, every captured event chained or passed by |
| `audit_skip` | 2 events, 1 worker | **violation** of `NothingSkipped` |

Three events make a batch of two possible, with a third before, between or after them;
two workers are what the head lock and the repeated delivery are about; a page of one record
makes the verifier stop between records. `MaxRuns` bounds the recorded runs: they are
independent of each other, so one is enough, and the liveness runs do without. In
`audit_chain` the workers and the two valid events are symmetric. A worker can always crash
or be restarted, so deadlock checking stays on.

Fairness: a crash and an outage may happen at any time, but not for ever at the same step. So
the steps a worker tries again and again (`ReadOutbox`, `FindNothing`, `AppendRecords`,
`ListPending`, `SinkAppend`, `MarkSinkDelivered`) are strongly fair: the loop retries every
delivery whose time has come, without a last attempt. `Restart` is weakly fair (compose says
`restart: unless-stopped`), and so are the passing of time and the end of a transaction.
Nothing is fair about `Halt`, `Crash`, the start of transactions or the verifier.

### The violation, and a divergence

`audit_skip`: positions are taken at insertion and seen at commit. The transaction with
position 1 is still open when the one with position 2 is chained; the head moves to 2, and
when the first one commits its row lies behind the head, where the worker does not look.
This is why `CapturedIsFinalized` has its second disjunct: an event is chained, or passed by.

The loop (`scripts/audit/worker.ts:34`) runs the chain batch first, and the process exits when
that halts. The restarted process halts at the same row before its first sink batch, so a record
that is chained and not yet delivered stays undelivered, although `src/README.md:413` calls the
two operations independent. The model has these steps. `audit_delivery` has no poison row: what
it shows of delivery is not for this case.

### Proofs

`AuditChainProofs` proves, for any events, workers and batch and page sizes, from the two
assumptions of the module (sizes are positive; `None` is no worker and poison is of events):

- `AuditTypeCorrect`: the type invariant. `HeadStands` and `WorkersDeliver` go into it, since
  what is appended and copied is typed only because it is not empty and in the chain;
- `ChainStaysLinked`, `ReadUnderLockStands`: `ChainLinked` alone is not inductive, because an
  append continues the head a worker has *read*. `HeadStands` says it is the head there is,
  by the row lock: whoever holds it is between its read and its append, and a crash drops
  both. `LinkedGoesOn` and `OrderGoesOn` are about sequences alone: a linked, ordered chain that is
  continued by records linked to its last entry stays linked and ordered;
- `DeliveredStaysCopied`: a worker about to mark a record has its copy in the sink
  (`WorkersDeliver`), whoever else delivers or marks it, because chain and sink only grow;
- `AuditInvariant`: all of them together, and `PositionsGivenOnce`;
- `LogImplemented`: the refinement. The commit of a transaction is `Capture`, `AppendRecords`
  is `Finalize` (no event twice, because the sources of the chain increase), a step that
  reaches the sink is `Copy`, `MarkSinkDelivered` is `Confirm`; everything else stutters.

- `PassedRunsMatch`, `OnlyLagReported`: `PassedRangeMatches` and `OnlyLagIsReported`. Neither is
  inductive without `VerifierStands`: the head a verification has captured stays a record of the
  chain with that hash, and the pages it is done with stay copied, whatever workers and other
  verifications append meanwhile. A page compares up to its first difference: that there is a
  first one is the least number of a set (`LeastNumber`), and that the records before it are
  exact copies is `ComparedIsPrefix`. A difference can only be a missing copy (`OnlyMissing`),
  because whatever is in the sink is an exact copy (`DeliveredIsCopied`).

Liveness is out of the prover's reach.

### Not modelled

Canonical JSON and the fields of an event, the length of the retry delays and the count of
attempts (a retry is due or not yet), the queries of the audit page, the backfill of events
from before the outbox, tampering with the tables: the models are of what the program does
with its own rows.

## 6. Exports: `ExportJobs`, `ExportLifecycle`

### State and actions

`job` holds the rows of `export_jobs`: status, mode, attempts, lease owner, whether the lease
and the backoff are over, which attempt's file the row names and whether its retention has
passed (`withdrawn`). `trail` is the job's audit events, `pending` and `stored` are the files
under their temporary and final names, `token` and `download` the one-time links and who uses
them. `exec` is what each process is doing: a worker, or the request that created a job,
which has the job's name and, like `workerId` null in the code, no lease owner.

A request creates its job (`RequestExport`) and, when the report is small, starts it
(`StartInRequest`) and executes it. A worker claims (`ClaimNext`: first a job that has used
its attempts, otherwise all expired leases are requeued and one job is taken). Both then go
through `Begin` (checks, `createPending`), `ExportFile` or `ExportFails`, `Complete` or one
of its failures, and `SettleFailure` (`Retry`, `Fail`, or the conflict that ends the
process). `RenewLease` runs beside generation. Between jobs a worker cleans up: `ListExpired`,
then for each job `DeleteFile` and `MarkExpired`, then `FinishCleanup`. `Crash` is possible at
every step of a worker or a request, `LeaseExpires` also while a process is alive but stalled.

Every statement that changes a job compares its status and, but for `start`, `markExpired`
and the claim, its lease owner (`Mine`). Claims lock rows and skip locked ones, so a claim is
one action. An attempt is named by its number: `attempts` grows with every claim that may
generate, and each generation has a random key of its own.

### Properties

- `HolderSettles`: a running job leaves that status by its current executor, or by a claim
  after its lease expired; an attempt that lost its lease changes nothing.
- `LinkLeadsToFile`: a token that is not over leads to a stored file.
- `ImplementsLifecycle`: every step is one of `ExportLifecycle` or a stutter. A job ends once,
  each request, end and download writes one audit event, and a token serves one download.
- `ExportInv`: the inductive invariant of the proofs, with `LatestAttemptStands` (a completed
  job has the file of its latest attempt) and `ExpiredHasNoFile` (EXPIRED is written only
  after the file is gone); these are in no run.
- `QueuedEnds`, `CompletedExpires`: liveness.

### Runs

| Run | Instance | Shows |
| --- | --- | --- |
| `export_jobs` | 1 job with 3 attempts and its request, 2 workers, 1 token, 2 downloads | every safety property and the refinement, with crashes, stalls and cleanup anywhere |
| `export_live` | 1 job with 2 attempts, 2 workers, no links, fair | queued jobs end, completed ones are expired |

Jobs meet only in the workers that run them and in the requeueing of a claim, so one job with
three possible executors has the races; three attempts let one that generates lose its lease to
another that generates (the last attempt of a worker only fails the job, since `execute`
compares `attempts >= max_attempts` after the claim has counted it). Two downloads race for
one token. In `export_jobs` workers and downloads are symmetric.

Fairness: `ClaimNext`, `Begin`, `SettleFailure` and the cleanup steps are strongly fair, since a process
may die at any of them but not every time. `Begin` and `SettleFailure` are so while the
worker still has its lease: a lease lasts 16 minutes and these are single statements. Without
that, two workers can take a job with exhausted attempts from each other for ever. The other
steps of an execution, `Restart` (compose: `unless-stopped`) and the passing of a backoff and
of the retention are weakly fair. A lease is certain to expire only once no worker has the job.

### Proofs

`ExportJobsProofs` proves, for any jobs, workers, tokens, downloads and number of attempts,
from the two assumptions of the module (there is an attempt to have; workers and jobs have
different names, and `None` is neither), every safety property that the runs check:
`ExportTypeCorrect`, `AttemptStands`, `ExpiredFilesGone`, `LinksLeadToFiles`,
`OnlyTheHolderSettles` and the refinement `LifecycleImplemented`. They follow from
`ExportInv`, the inductive invariant (`ExportInvariant`):

- `RunnerOK`: an executor runs an attempt that its job has had, and its latest one if it has
  the lease. This makes `LatestAttemptStands` inductive: `complete` compares the owner, and
  the owner's attempt is the latest;
- `AttemptsApart`: no two executors that can still produce a file have the same attempt of a
  job, nor one that a job ended with. A claim that may generate takes a new number; a claim of
  a job whose attempts are used up does not, and only the comparison in `execute` keeps that
  worker from generating in an attempt another process may still be in;
- `CleanerOK`: what a cleaner has listed stays over, and between the deletion and the mark no
  attempt puts the file back (`GoneStaysGone`, from `AttemptsApart`). So `ExpiredHasNoFile`
  holds for every order of deletions, marks and crashes of several cleaners;
- `FilesOK`, `LinksOK`: the file of a completed job is there until its retention passes, and a
  token that is not over belongs to such a job, since it never outlives the file.

`StepEffects` and `LinkEffects` say once what any step may do to a row, an executor, the files
and a link; the conjuncts are proved from these and not action by action. Liveness
(`QueuedEnds`, `CompletedExpires`) stays with TLC.

### What the code leaves behind

Three things are in the model and are excluded from the properties by name:

- a commit whose answer is lost (`CompleteUnheard`): the handler deletes the file of a job that
  is COMPLETED. `LinkLeadsToFile` excepts the jobs in `unacknowledged`, a history variable;
- a process that dies between the rename of a file and the commit that names it: the file stays
  in `stored`, where cleanup, which goes by rows and by temporary names, does not find it;
- a request that dies after `StartInRequest`: its job is RUNNING without a lease, and no claim
  matches it. `QueuedEnds` is therefore about jobs of mode QUEUED.

`claimNext` does not look at the mode: a worker may take a small job between its creation and
its start, and the request then ends with a conflict, while the job goes on in the worker.

### Not modelled

What an export writes (here it succeeds or fails; `Reports` has the rows), the listings of own
jobs (`ExportList`), the order in which jobs become available, batch limits
of the cleanup, and the instant between `lstat` and the opening of a file.

## 7. Sign-in and administration: `Identity`, `SignIn`, `Accounts`

### State and actions

`Identity` has the rows of the identity tables (`user`, `role`, `factor`, `challenge`,
`session`, `rate`, `mfaRequired`) and one operator for each statement of a repository:
`Revoke`, `Consumed`, `CanAccept`, `RateAfterFailure` and so on. `now` is the clock. A
request is a `job`: what it has read and found so far. `resets` is a history variable that
counts how often a user's earlier access was ended.

| Code | Actions |
| --- | --- |
| `Login.execute` | `LoginCheck` (user, both buckets, password), `LoginFail`, `LoginReread` and `LoginCommit` |
| `StartTotpEnrollment`, `ConfirmTotpEnrollment`, `CompleteTotpChallenge` | `AuthenticateChallenge`, `Verify` (bucket, factor, code), `WrongCode`, `RereadProven` and the commit |
| `ChangePassword`, `Logout`, `AuthenticateSession`, `UpdateActivity` | one action each |
| every use case of user, role and settings administration | one action each, in `Accounts`, carrying the rights the session had when it was authenticated; all but the two of the next line |
| `UpdateRole`, `AssignRolePermissions` | `ReadRole` (the role and who holds it), then `UpdateRole` or `AssignRolePermissions`, which commits for the holders that were read |

The transaction that issues a credential first reads with plain queries and then writes; the
model has the reads and the writes as two actions, since nothing is locked in between. So it is
with the two changes of a role: `findByPublicId` fixes the view in which
`kysely-role-repository.ts:116-125` then finds the holders. The other transactions lock or compare
what they change in the statement that changes it.
Passwords and tokens are left out: a request says whether its password matched what was read,
and a code is the counter it belongs to. The audit events of these use cases are inputs of
`AuditChain`.

### Properties

- `ProofSpentOnce`: a challenge, and a code of a factor, are each worth one session at most.
- `ResetsEndEarlierAccess`: a session that is good does not rest on a challenge from before a
  reset of password or factor, a password change or a deletion. It is about challenges only: a
  login that has compared the old password (`login.ts:57`) when the reset commits goes on to a
  session or a challenge of its own, which counts from its issue, and nothing excludes it.
- `RevokedForGood`: a revoked session is never written again.
- `RightsChangeEndsSessions`: a step that changes what a user may do ends the user's sessions,
  whether it changes the user, a role, a role's permissions or its status; except those of a user
  who was given the role after the request had read its holders.
- `ChangesRevokeAffectedSessions`: the same without the exception, as
  `src/docs/tickets/fuel-and-vehicle-dispatch-system.md:69` has it. The code does not.

### Runs

`identity` checks the first four: an administrator with a session, a clerk, two roles, two more sessions, two
challenges, two requests at a time and four in all, a clock of two instants at which every
timeout can pass. Two requests are enough for every pair of use cases to interleave; four are
enough for a login, an enrolment or verification, and an administrative request between any
two of their steps. All times-to-live are one or two, and one failure locks. Requests,
challenges and unused sessions are symmetric. A run ends when its requests are used up, so
deadlock checking is off, and no liveness is stated: the client decides whether to go on.

`identity_rights`, with the same instance, is a **violation** of
`ChangesRevokeAffectedSessions`: one request reads who holds a role, another gives the role to a
user, whose sessions it ends and who signs in again; then the first commits the role's new
permissions and ends the sessions of the holders it had read. The new holder's session goes on
with rights that were changed under it.

### Proofs

`IdentityProofs` proves the four properties of `identity` and the type invariant, for any users, roles,
challenges, sessions, requests, clock and times-to-live: `TypeCorrect`, `ProofsAreSpentOnce`,
`ResetsEndAccess`, `RevocationIsFinal`, `NewRightsEndSessions`. Assumed are that the bounds are
numbers, that `None` is no row, and that the first administrator and clerk are users with
roles (`BoundsAssumption`, `NoneAssumption`, `FirstRowsAssumption`).

The transactions of sign-in read before they write and hold no lock, so the properties rest on
what a compare-and-set statement finds. `Inv` (`Invariant`) has for this:

- `JobsOK`: what a request carries from its earlier transactions: a user who is there and a
  challenge that is that user's. That the challenge is still open or the code still new is not
  carried; only the issuing statement finds that out;
- `RowsExist`: users and roles that rows refer to are there; a deleted row stays;
- `OpenIsCurrent`: an open challenge is of the time since the user's last reset, since a reset
  closes those there are. It gives `ResetsEndEarlierAccess`: a session is issued only for a
  challenge that the issuing statement still finds open;
- `ChallengeSpent`, `CodeSpent`: the challenge behind a session is no longer open, and the code
  behind it is one its factor does not accept again (of an earlier factor, or not after the
  counter). These make `ProofSpentOnce` inductive: a new session takes an open challenge and a
  counter beyond the last.

The some twenty-five actions change sessions in five ways only. `Effect` names them (sessions
kept or ended; a user's access ended; signed in; put off to a challenge; proved), and
`Standing` does the same for roles and rights. Each action is shown once to have one of these
effects, and the conjuncts are proved of the effects.

## 8. The schema and its tools: `Migrations`, `Deployment`

`Migrations` is data: for each of the ten migrations the tables it creates with the tables
their foreign keys name, the permissions and grants it seeds, and its statements up and down,
in the order of the code. `Possible` and `Dropped` are MySQL's: a table is created once, is not
dropped while another refers to it, a key is not inserted twice. `Deployment` runs the tools
(`Migrate`, `Rollback`, `Fresh`) one `Statement` at a time, `Record` being the row of
`kysely_migration`; between commands the application records events and an administrator edits
grants, which takes a table for the event that goes with it: that of the first release, which ran
with two migrations applied and could edit roles, or the outbox (`EditGrants`). The scripts create
the first administrator and the demonstration data. `Crash` is possible between any two
statements, since MySQL commits each statement that defines a table. One operator at a time is assumed: Kysely's migration lock enforces it.

### Properties and run

- `RunsThrough`: no statement is refused, unless an earlier run died between two statements, or it
  is the audit migration's grant of `audit.read` to SYSTEM_ADMIN and an administrator of the first
  release had given it already. `20260828_000003:289-296` inserts that grant without looking for
  it, the unique key refuses it, and the migration is left cut in the middle.
- `AppliedIsComplete`: between commands, tables, permissions and grants are those of the
  migrations in force, up to the edits; the super administrator holds every permission that
  nobody edited away.
- `EventsSurvive`: the events of the first release survive the move to the outbox and back,
  and a death at any statement of it.

`deployment` gives two events and three commands: enough to migrate, roll back and migrate
again, with edits of a grant that a later migration seeds, of one that an earlier one did and
of the one, SYSTEM_ADMIN's `audit.read`, that undoing the audit migration revokes by name.
After a crash in the middle of a migration the next run may be refused at a table that is
there (`cut`); the code has no repair for that, and the properties say so.

### Proofs

`DeploymentProofs` proves all three and the type invariant for any number of events and
commands and any set of editable grants. The scripts are the repository's ten, so the proof
is about these; only that edits are of seeded roles and permissions is assumed
(`DeploymentAssumption`).

`RunsThrough` and `AppliedIsComplete` are not inductive: they say nothing of a migration under
way. The invariant (`SchemaInv`) says where the database is at every statement:

- `Steady`: rows stand only in tables there are and hold only what the catalogue names; the
  tool is at a statement of the script it runs, or just beyond it.
- `Sound`: with no migration cut short, the database is `Risen` to the next statement of the
  migration that is applied, or `Fallen` to that of the one being undone. `Risen(d, n, k)` names
  the tables, permissions and unedited grants that n migrations and the first k - 1 statements
  of the next leave, and which grants and rows edits cannot have added yet; `Fallen` what is
  left of them. `Allowed`: every grant, edited ones too, is of a permission there is, which is
  why no permission is withdrawn while a grant refers to it.
- `Moved`: past the backfill every old event has its copy in the outbox, and past the restoration
  every copy is back, so the table dropped next takes nothing with it. This part holds after
  crashes, too.

That the next statement is possible, or is the audit migration's grant given early (`NextIsSound`),
then rests on its place: `Born`, `Place` and `Undo` give for
each table its migration and the statements that create and drop it, every table comes after
those it references and goes before them (`ReferencesFirst`), and a migration permits, fills
and grants each thing once, after what it needs (`AllMakings`, `AllUnmakings`, one lemma for each
script). `RisingStep` and `FallingStep` prove one statement; `RisenWhole`, `FallenNone` and
`FallenWhole` that the end of a script is the beginning of the next.

The proof showed two things the first statements had wrong: a grant given before its migration is
refused by that migration's insert, which is the exception in `RunsThrough` and is disclosed in
chapter 13; and `AppliedIsComplete` had said that the super administrator holds every permission
even where an administrator had taken it away.

## 9. Routes and screens: `Access`, `Screens`, `Workbench`

`Access` has what every route asks: which cookie, which permissions, whether the CSRF token,
and whether it refuses its own caller. The rights of a role are computed from the grants in
`Migrations`. `Screens` has every screen: who may open it, whether rendering it takes a token,
its controls with the requests they send, and its links. Both are data; `Workbench` is the
machine: the server renders a screen (`Follow`, `Reload`, `Render`, `Arrive`), a form asks for a
token and sends its requests one after the other (`Submit`, `Ask`, `Deliver`, `Fail`), answers
are lost, another tab takes the token (`Rotate`), another user changes the record
(`ChangeRecord`), the session ends (`EndSession`).

- `OffersHold`: a control of a screen is never refused for a permission, a link leads to a
  screen that opens, and a screen may read what it is filled with.
- `NoSelfLockout`: the forms of a screen never leave it with a token they themselves replaced.
- `FreshAfterSave`: after a form said "saved" and the screen settled, the screen shows the
  record as the server has it, unless something happened elsewhere.
- `SignInLeadsOn`: a step of signing in leads to the screen that takes the credential it earned.

Bounds: one record and one form at a time. No link is followed while a form waits, but a
form may be submitted while a screen is on its way, so its answer may arrive when its screen,
or even its record, has been left (`here`, `shown`).

### Proofs

`BrowserProofs` proves the four for any set of user roles among the seeded ones
(`UserRolesAssumption`). The routes, the screens and the grants are those of the code; what is
proved about them is proved screen by screen. None of the four is inductive; the invariant
(`WorkInv`) has what a form, the screen shown, the one on its way and the token agree on:

- `FormFits` and `ComingFits`: a form under way is one of a screen, its phase fits how it gets its
  token, and while its screen is shown the two are on the same side of signing in; a screen
  on its way to the same record is one of that record's screens.
- `DraftsShown`: a dispatch that is a draft is shown as one. The dispatch pages have forms that
  ask for a token of their own only when they are not editing, so this decides which forms meet.
- `TokensFit`: a good token was taken by the screen that holds it, a form that asks for one is not
  beside another that holds one, and no form leaves a replaced token. `NoSelfLockout` is the
  last part; it needs the others.
- `SignedOut`: whoever a form leads from the application to signing in has no session; else the
  sign-in screens could take a token from a form that still waits.
- `UpToDate`: once saved, the screen is as the server has the record or the answer that will make
  it so is on its way; so it is, too, while the answer of a form whose screen was left is
  awaited. `FreshAfterSave` is a part.
- `ScreensOpen`: the screen shown, the one on its way and those that forms lead to open for the
  user, which gives `OffersHold`.

`SignInLeadsOn` is about one step, and follows from `FormFits` and the table of
`nextAuthenticationPath`.

The invariant failed at first where a form was submitted while another screen was on its way:
the model took the form's answer to be about the screen that had arrived. `here`, `shown` and
`about` of a form, and `StatesBefore`, are the repair.

## 10. Forms and lists in the browser: `DispatchDraft`, `FuelDraft`, `ExportList`

React effects are torn down and started again when what they depend on changes; an answer
that arrives for a torn-down effect is dropped when its request was aborted, and not
otherwise. `DispatchDraft` has the guidance lookup, the review dialog with its box and the
acknowledged save; `FuelDraft` the options that depend on the entry date; `ExportList` the
timer and the questions of the list of exports.

- `AckIsReviewed`: a draft saved over conflicts was saved over those its user ticked, for the
  slot saved.
- `GuidanceIsCurrent`: guidance shown with no question under way was read after the slot was
  chosen.
- `SelectionIsListed`: once a list has arrived, the allocation the form would send is in it.
- `AsksOnce`: an unfinished list has exactly one timer or question, a finished one none.

`BrowserProofs` proves all four for every value of the constants (`AckStaysReviewed`,
`GuidanceStaysCurrent`, `SelectionStaysListed`, `ListAsksOnce`). Each needs an invariant of
what is under way: a live lookup is for the slot in the form; a live question is for the date in
the form, and its list, once read, has only allocations of that date's quarter; an
acknowledgment on its way is one its user ticked; at most one of timer and question exists,
and only for an unfinished list. `SlotAssumption` (0 is no slot) is the only assumption.

`BrowserProofs` has the proofs of chapters 9, 11 and 12, too.

## 11. Reports: `Reports`

Issuances and dispatches change (`ChangeFuel`, `ChangeDispatch`) while a user reads one of the
nine reports page by page (`GetReport`, `ReadPage`, `Totals`, `NextPage`) or an export streams
it (`RequestReportExport`, then pages until the cursor ends). Each page, and the totals, is a
query of its own. A cursor carries the fingerprint of its filters.

- `NothingMissed`: pages hold their rows in the report's order, none twice, and together every
  row that stayed as it was since the report was asked for.
- `TotalsAgree`: with nothing touched, queried totals, totals collected from the rows and the
  cells of the sheet agree. Three limits are the code's: a query counts rows only up to 100 000
  (`CountedRows`; one, in the run, so that there are reports beyond it), so the numbers of rows
  agree up to there; the exporter adds up no liters of the amounts by period and no distance of
  an office's dispatches (`AddedUp`); and some cells of the row of totals hold another number
  than their heading says (chapter 13).

### Proofs

`BrowserProofs` proves both for any issuances and dispatches, filters, page sizes, limits and
number of changes. Assumed are that rows have the columns of their tables and are finitely
many (`FactsAssumption`), and that a page has a row, a month a day, and a filter a type
(`RequestsAssumption`); the run checks both assumptions of its instance.

- `PagesMissNothing`: `NothingMissed`. The invariant (`ReportInv`) is about what is read *so
  far*, at any cursor: the rows read are in order; a row of the report whose facts nobody
  touched is read or beyond the cursor, and what is read and untouched is in the report
  (`ReadSoFar`). A page is the first rows of what is beyond the cursor (`PageHolds`; that any
  finitely many rows can be sorted is `SortedExists`). A change may move any number of rows,
  yet a row of which no fact has changed is the same row as before, or is absent as before
  (`RowStays`): a row is made of the facts of its group alone, and `touched` has the groups
  that facts left and entered.
- `TotalsOfReports`: `TotalsAgree`. Queried totals are one sum over all facts that go in, a
  column is the sum over the rows of sums over their groups: the same by `TotalGrouped`, as the
  groups do not overlap. `NothingMissed` then gives that the pages hold exactly these rows, and
  numbering them changes no sum (`TotalRenamed`). Totals shown stay right, as an untouched
  report has the facts it had (`TotalsInv`). Columns and totals of a sheet are the same number
  of blanks followed by what `StandsRight` allows, type by type (`SheetParts`).

`TotalsAgree` used to claim equal row counts. The proof did not go through for a report beyond
the limit of the count, and the code does differ there; hence `CountedRows`.

## 12. Reference records and their lists: `Registry`

`CreateRecord`, `UpdateRecord`, `SoftDeleteRecord` and `RestoreRecord` write a row and its events
in one transaction, which locks the row first; a vehicle's update may write two events.
`OpenList` and `TurnPage` are the admin lists with their keyset cursors in both directions; the
lists of allocations, issuances and dispatches page in the same way, so they are kinds of
records here, with `OtherRecord` for what other use cases do to them.

- `WalkMissesNothing`: whatever changes between two pages, a record nobody changed has been
  shown or is still ahead.
- `TrailTells`: replaying the events of a record gives the row, and each event starts from
  what those before it left.

### Proofs

`BrowserProofs` proves both for any records, names, views, page size and edits, assuming that
the records there are at first have the columns they are sorted by (`RegistryAssumption`).

- `ListsMissNothing`: `WalkMissesNothing`. The order of a list compares two or three values one
  after the other, in either direction each (`PrecedesIs`), and is total (`PlacesAreOrdered`).
  The invariant (`RegistryInv`) adds that the page on show came from `listPage`: it is sorted, and
  its links name its own first and last row (`PageRight`). A page turned forward then skips
  nothing between the last row of the old page and the first of the new, one turned back
  nothing that was not seen before. Edits disturb only rows in `edited`.
- `TrailRetellsRecords`: `TrailTells`. `FoldLeft` over a trail one event longer is one step more
  (`TrailWith`, by induction over the sets of indices), so each command has to be shown only to
  write the event that tells what it did to its row (`ChangeSays`, `StatusSays`, `DeletionSays`,
  `RestoreSays`); a vehicle's update that changes details and status writes two, of which the
  second starts from what the first left (`BothTold`).

### The run `browser`

`BrowserMC` composes chapters 9 to 12 for TLC. They share no state, so a behaviour takes place
in one of six scenes, and the run has the sum of their states instead of the product. Users
have each seeded role but the super administrator's, whose rights include all others. Two slots
that change twice let an answer be older than the choice and than the acknowledgment; three
dates of two quarters let a list be of another quarter or of the same; two jobs let one end
before the other. Three issuances and three dispatches with pages of one row give groups of
one and of two rows, and two changes one before and one behind the cursor. Three records, one
to a page, two of which share the value the list is sorted by, and two changes do the same
for the lists. Deadlock checking stays on.

## 13. What is not modelled, and where code and documents differ

Not modelled: configuration, logging, composition and the health check, which keep no state
and wire the rest; request schemas and the mapping of errors to answers (`lib/http`,
`lib/*/route-schemas.ts`), stateless translations; layout and wording; MySQL's deadlock detection, of
which the models have the rolled-back victim. A lock order common to dispatch and fuel has
not been examined.

Three divergences are runs: `dispatch_terminal` (chapter 3), `audit_skip` (chapter 5) and
`identity_rights` (chapter 7). Chapters 3 to 8 name others. These were met as well; the properties
leave them out by name:

- The audit migration cannot be applied where an administrator of the first release gave
  SYSTEM_ADMIN `audit.read` (excepted in `RunsThrough`).

- The form of a user always sends `isActive`, and `update-user.ts:28` refuses that of the
  caller's own account, so an administrator's own details can never be saved; the role form on
  the own account is refused, too (`assign-user-roles.ts:30`).
- The role form of a user without `role.assign_privileged` sends `isPrivileged` false, so
  `update-role.ts:34-40` refuses every edit of a privileged role by a SYSTEM_ADMIN; the user
  form offers that user privileged roles.
- The schedule's link "New dispatch" is shown to users who may not create one.
- The dialog of a one-time credential never resets `acknowledged`
  (`one-time-credential-dialog.tsx:24`, against `src/README.md:91`).
- A first page that was reached by "previous" offers "previous" again, which leads to an empty
  page without links (excepted in `WalkMissesNothing`).
- Sheets: the totals of FUEL_TYPE_TOTALS are those of a sheet with one column more, so they stand
  one column off; "Issuances" of a grouped fuel report is the number of groups; the total
  under "Passengers" of the dispatch sheet is the number of dispatches; a missing odometer
  reading or distance is printed as 0.
- A dispatch draft that is moved to another day between two pages may be in a report twice or
  not at all; `NothingMissed` is about rows that nobody touched.
