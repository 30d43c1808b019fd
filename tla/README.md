# surreal_ck: a verification project in TLA+

surreal_ck is a workspace product for legal and claims teams: a Bun/Hono server over
SurrealDB, a Svelte web application, "virtual employees" that work on the tables of a workspace
when something happens there, an AI chat that is charged against an allowance, and a control
plane that sells, provisions and limits workspaces. These modules model the parts of it in which
several actors share state across awaits, processes and crashes. TLC checks them on small
instances and TLAPS proves the main safety results for every value of the constants.

This document says what the system consists of, what is modelled and how it corresponds to the
code, what each run and each theorem shows and under which assumptions, what disagrees with the
code's own documentation, and what comes next. `PROJECT.json` holds the same in machine-readable
form: components, runs, mutants, the lines behind each definition, hazards, findings, theorems.

Paths below are relative to the repository; `office/` stands for `server/ai/office/`.

## 1. The system

### 1.1 Components

| Component | State it keeps | Operations | Modelled |
|---|---|---|---|
| Trigger runtime (`office/employee-trigger-runtime.ts`) | rows `employee_trigger` and `employee_window`; per process a lane per employee: task tail, mutexes, cached session, waiters, abort reason | enqueue, runWindow, driveRun, resumeRun, reconcile, abortWindow, stop | `TriggerRuntime` |
| Durable run driver (`office/employee-mastra-runner.ts`) | the Mastra snapshot of a run | load, start, resume, cancel | its effects, in `TriggerRuntime` |
| Employee supervisor (`office/employee-supervisor.ts`) | none | reconcile of every employee at boot | `Boot` in `TriggerRuntime` |
| Employee gates (`office/employee-gates.ts`) | token usage per employee and day | admission, usage signals | attempts and chain depth only |
| Effect ledger (`office/employee-effects.ts`) | rows `employee_effect` | runEffect | `EffectLedger` |
| Employee session registry (`office/employee-runtime.ts`) | sessions, closing connections, gate flags, epochs, chain of works | openSession, register, close, stop | `EmployeeSessions` |
| Employee lifecycle (`office/employee-lifecycle.ts`) | `virtual_profile.status`, `employee_credential` | create, pause, resume, retire | `EmployeeLifecycle` |
| AI allowance (`server/src/ai-allowance`) | buckets, reservations, notices, upgrades and terminations of billing cycles | reserve, resume, finishByRun, settle, release, sweep, balance, grant, sync of a cycle | `AllowancePromise`, `AllowanceLedger`, `AiAllowance` |
| Chat runs (`server/src/ai`, `routes/ai-chat.ts`) | `chat_delivery`, `workflow_run`, `chat_write_fence`, the in-process registry | send, recover, confirm, reject, resume, execute, sweep | `ChatRuns` |
| Quota materialization (`server/src/quota`: reconciler, control-plane store, audit) | operations, leases, projections, the policy in the database | claim, load, INFO, DEFINE, read-back, settle, audit, pause, resume, reopen | `QuotaMaterialization` |
| Subscription intake (`server/src/quota`: lifecycle, refresh, sweep) | inbox of provider events, intents, subscriptions, items, overrides, desired entitlement | ingest, claim, apply, refresh, settle, fail, sweep | `SubscriptionIntake`, in part |
| Trial provisioning (`server/src/workspaces`) | `pro_trial_claim`, `pro_trial_slot`, the workspace, its control-plane rows, its database | claim, reserve, saga, template, owner, index, gate, deliver, activate, finish, undo | `Provisioning` |
| Workspaces: members, settings, scopes (`server/src/workspaces`) | members, settings | single statements | no |
| Invitations (`server/src/invitations`) | invitations, their delivery, bindings | invite, collect, complete, revoke | no, planned |
| Database access (`server/src/db`) | root connection, session pool, applied migrations | connect, probe, reconnect, migrate | no, planned |
| Quota migration (`server/src/quota-migration`) | manifests, cohorts, per-workspace stage | scan, assign, migrate, sign off | no, planned |
| Web data table runtime (`web/src/lib/data-table-runtime.ts`) | rows of a table with pending edits, live query | edit, refresh, live message | no, planned |
| Trigger adapter, employees, claims reminders (`office/`), router workflow (`server/ai/mastra`) | domain rows, snapshots | handlers of triggers, daily schedule, route | no |
| Quota readers, product entitlement, internal AI, rollout, operations agents, claims portal | their own rows | read models, grants, approvals, submissions | no |
| Web application, content readers, funnel, HTTP surface, deployment, shared schema | UI state, caches, none | rendering, queries, dispatch | no |

### 1.2 How the parts interact

Virtual employees:

- A domain event calls `enqueue`. The delivery inserts a trigger row under its idempotency key,
  leaves a *waiter* in the lane and schedules a window, or joins one that is already planned.
- A *window* is a task of the lane. It gets a session (from the session registry), acquires the
  `employee_window` row, claims triggers one by one, drives each run to an outcome, sweeps the
  remaining waiters and releases the row. `housekeeping` ends every task: it schedules a
  follow-up, or closes the lane's session.
- A *drive* is one execution of a run. When a window is aborted (watchdog, closed session, stop)
  its drive is cancelled but may still be executing when the next window begins. Handlers run
  their effects through `runEffect`, so a step that is replayed returns what was committed first.
- The *lifecycle* writes the employee's row and then calls `register` or `close` of the registry.
  A closed session aborts the lane's window through `onSessionClosed`. The employee's access rule
  in the database decides whether a sign-in is granted. The *supervisor* reconciles every employee
  once when a process boots.

Chat and allowance:

- A send registers a `chat_delivery`, reserves an amount of the allowance and starts an execution
  in the background. A tool that writes suspends the run under a key and raises a *fence*; tabs
  confirm (the write consumes the fence), or reject, and then resume the run. The end of an
  execution stores the answer and settles the reservation, or gives it back.
- The allowance is a ledger of buckets in the workspace's database. The sync of a billing cycle
  grants what a plan gives, raises it at an upgrade, and terminates the buckets of a trial that
  has been converted.

Control plane:

- Events of the payment provider and intents of operators change subscriptions, items and
  overrides. The refresh resolves what a workspace is entitled to, and leaves an operation that
  brings the compiled policy into the database (*materialization*); an audit compares what is
  there with what should be.
- A trial claims the slot of its billing account, and goes through the same subscription,
  entitlement and policy inline, before the workspace is activated under the claim's lease.

### 1.3 What is hard in it

`PROJECT.json` lists 40 hazards at their lines. In groups:

- *Interleaving.* Two processes and one employee row; a pause in the middle of a sign-in; two tabs
  and one suspend; calls that read one bucket and debit it later; foreign policies that appear
  between INFO and DEFINE; requests with different keys for one trial.
- *Stale state.* A status read before an await and used after it; leases that run out under
  whoever holds them; a hold released after its bucket has ended; writes without lease or status,
  and those that were given up and take effect when the rows are in other hands.
- *Ordering.* Provider events out of order and repeated; the sync of a trial after its conversion;
  a recovery that meets a run which has just settled.
- *Crash and retry.* Between a status and what it announces, between an effect and its commit,
  under a lease, at any step of the saga; queries whose answer is lost although they took effect.
- *Partial failure.* A close that fails after the session has left the registry; an answer that is
  stored and cannot be charged; several statements that are not a transaction.
- *Liveness.* Everything accepted must be answered, closed or settled in the end.

### 1.4 What makes each part correct

- Trigger runtime: one window and one execution per employee; a final status stays; the row
  agrees with the durable run; no accepted trigger is forgotten; what a caller is told is true,
  and every caller is told.
- Effect ledger: what a caller was told is durable; replays agree; the business write happens once.
- Session registry: one connection per employee and none lost; nobody uses a dead session;
  nothing comes up while the employee is paused; a failed close neither blocks nor leaks.
- Lifecycle: legal transitions only; no active employee that cannot sign in; a pause that
  answered is effective.
- Allowance: the books balance; a key holds once; a hold is closed once and for no more than was
  shown; what has ended is not revived; a cycle never grants more than its plan.
- Chat runs: a suspend is written once and decided once; a run is charged once and only for an
  answer that is stored; no row stays running.
- Materialization: what is said to be applied was there; no policy is replaced that was not
  judged; operations end.
- Intake: a subscription is never behind an event that counts as processed; workspaces end with
  what they are entitled to; what is closed acts no more; everything accepted is closed.
- Provisioning: an active workspace has all its parts; claim, workspace and customer agree; an
  account has one trial at a time; a trial that is asked for again arrives.

## 2. The modules

| Module | Models | Proofs | Instances |
|---|---|---|---|
| `EffectLedger` | one effect key, its attempts | `EffectLedgerProofs` | `MCEffectLedger` |
| `TriggerRuntime` | one employee in several processes | `TriggerRuntimeProofs` | `MCTriggerRuntime`, three configurations |
| `EmployeeSessions` | the registry of one process, one employee | `EmployeeProofs` | `MCEmployeeSessions` |
| `EmployeeLifecycle` | the lifecycle, EXTENDS `EmployeeSessions` | `EmployeeProofs` | `MCEmployeeLifecycle` |
| `AllowancePromise` | what the allowance promises, abstractly | | |
| `AllowanceLedger` | tables and transactions of the allowance | | |
| `AiAllowance` | the calls and syncs over the ledger, EXTENDS it, implements `AllowancePromise` | `AiAllowanceProofs` | `MCAiAllowance` |
| `ChatRuns` | one chat run, its requests and executions | `ChatRunsProofs` | `MCChatRuns` |
| `QuotaMaterialization` | operations, workers, audits and the databases they work on | `QuotaMaterializationProofs` | `MCQuotaMaterialization`, two configurations |
| `SubscriptionIntake` | events, intents, subscriptions and refreshes | `SubscriptionIntakeProofs` | `MCSubscriptionIntake` |
| `Provisioning` | the trials of one billing account | `ProvisioningProofs` | `MCProvisioning` |

A definition whose comment begins "Mutant of X" is not part of a model. It is a plausible mistake
in the definition X after it (a dropped guard, a limit off by one, a status too many), kept to
show that a property notices it: with X replaced by it, TLC finds the property violated.

### 2.1 Steps and faults

JavaScript runs to the next await without interruption, so a step is what one actor does between two
awaits. A query is one step: it takes effect and answers. A text of several statements that is no
transaction is several steps where its parts matter. Where the code can meet it, the query may also
throw, without effect or *after* its effect, or be *given up*: a deadline (15 s of a session's
query, the deadline of a quota statement) rejects the promise and cancels nothing, so that the write
may take effect at any later time, on whatever others have made of the rows. A crash takes what a
process had in memory and leaves the rows. Leases are not clocks: they are live or past, and expire
by a step of the environment, under whoever holds them too. Several modules bound which disturbances
may come together: `Troubles`/`MaxTrouble` (runtime), `MaxCuts` (allowance), `MaxTroubles` (chat,
provisioning), `Scenes` (materialization, intake): a *scene* is a set of kinds of events and how
many of them one behaviour may have, chosen in the initial state.

### 2.2 EffectLedger

`runEffect(key, fn)` claims the row, returns the stored result if the row is committed, otherwise
runs `fn` and commits. `Claim`, `RunFn` and `Commit` are its three awaits; `CommitGivenUp` is a
commit whose answer never comes, and `CommitLands` its UPDATE taking effect later, if it does;
`Crash` may strike between any two. `row` is the ledger row, `got` what an attempt holds. A result is
stored as `result ?? null` (`Stored`): an `fn` without a result is told nothing, and its replay null.
Attempts are the executions of the same key: the first run, a replay, the rest of an aborted window.
They overlap in any way and in any number. Two variables are history: `wrote`, the attempts whose
`fn` has run, and `overtaken`, the attempts that were on their way when another one's commit took
effect. Nothing in `employee-effects.ts` keeps two of those apart, so the two properties speak of
the others: `Replayed` (what was told is committed, and every attempt returns the same) fails only
where an overtaken attempt commits after all, and `OneWrite` counts the executions of `fn` without
those that crashed before their commit and those that were overtaken.

### 2.3 TriggerRuntime

| Variable | Code |
|---|---|
| `trig` | `employee_trigger`: status, lease, attempts, chain depth |
| `arrivals` | the order of `created_at`, which the scan and the claim follow |
| `win` | the `employee_window` row: holder and lease |
| `snap` | the status in the run's durable snapshot |
| `lane` | per process: cached session, abort reason, planned and follow-up flags, the queue behind the task tail, waiters, persist mutex |
| `task` | the task that is executing: a window, a reconcile or a resume, and where it is |
| `drv` | per trigger and attempt, the driveRun or resumeRun that executes it, cut off or not |
| `call` | the enqueue calls; `displaced`: another delivery of the key has taken the waiter's place |
| `sent` | writes whose query was given up and which may still take effect |
| `late`, `strays` | history, see below |

`WindowLeaseExpires` and `TriggerLeaseExpires` may happen at any time. Under a process that is still
at work they count as a disturbance (`"lease"` of `Troubles`), and nothing in the code prevents them:
a window takes a lease of 60 s which nobody renews, and its watchdog, 5 s later, is armed anew for
every trigger. Two history variables remember what has happened to whom, and restrict no step.
`late` are the processes whose window lease has run out under them, until they acquire again. `strays`
are the triggers that were claimed while somebody else was still at them (`Contested`: a task that
drives the trigger, a drive with an open session that goes on without its task, or a write of the
trigger that was given up): from then on two parties write one row without asking for its lease. The
safety properties speak of processes that are not late and triggers that have not strayed. No other
assumption is made of leases, aborts or queries. `Contested` and `Straying` model no code, and have
no lines in `PROJECT.json`.

`LateWrite` is a write of `sent` taking effect: a status or a run's snapshot unconditionally, a claim
or the clearing of a lease under its WHERE clause as it is then. Other writes that are given up add
no case: an INSERT, `acquireWindow` and `releaseWindow` are conditional on what they find, and take
effect with the throw (`EnqueueThrows`, `CascadeLost`, `AcquireThrows`, `ReleaseThrows`) or not at
all; later they would do what another delivery, a lease that is not released or an expiry does. A
session that has been closed writes no more, and what a process had under way when it crashed has
taken effect or does not.

`EnqueuePersist`, `EnqueueRegister` and `EnqueueReturn` are a delivery. `TaskStart`,
`TaskSession`, `ReconcileScan`, `ResumeLook`, `Acquire`, `Claim`, `DriveReturns`, `Sweep`,
`Release`, `TaskTidy`, `TaskFinally` and `TaskEnd` are a task of the lane, `DriveLoad`,
`DriveMark`, `DriveStart`, `DriveEnd` and `DriveSettle` an execution of a run, with an action
ending in `Throws` where a query may fail. `Watchdog`, `InvalidateSession`, `StopBegin`, `Crash`,
`Boot` and the expiry of leases are the environment.

A trigger *is* its idempotency key; payloads, metrics and log lines are left out; what a handler
does is its outcome (success, suspended, failed) and the triggers it cascades. Two groups of awaits
are one step each: the SELECT of `claimNextPending` with its compare-and-set (`Claim`: a lost round
of the up to eight is a claim by somebody else before it), and the reads of `sweepWaiters`, one per
waiter, with the answers they lead to (`Sweep`).

### 2.4 EmployeeSessions and EmployeeLifecycle

Calls of the registry are jobs of a kind: `open` (openSession of a window), `activate` (register
by create or resume), `idle` (close by the lane), `pause`, `retire`, `stop`. `chain` is the
promise chain of `serialized`; `epoch` is the counter that a close bumps; `gate` holds the sets
blocked, suspended, retired and the flag stopped; `session` and `closing` are the maps of the same
names; `conns` are the connections that may be open at the database, whatever the registry
believes; `confirmed` is `closeConfirmed`; `lane` is the session cached by the trigger runtime's
lane. `CloseSession` takes the session out of the registry, and by the synchronous
`onSessionClosed` out of the lane, before the first close.

An operation of the lifecycle reads the row, writes status and credential in queries of their own
and then calls the registry: an operation *is* the registry call with its name. A retirement of an
employee who is retired already reads the credential once more after its close (`OpRereadFails`).
`life` is the service's `inflight` chain per employee. `secret` counts rotations, so that a sign-in
with an old secret can be told from one with the current secret. `SigninGranted` is the access rule
of the database: active, and the secret matches. The steps of the registry are those of
`EmployeeSessions` by construction, with the sign-in under that rule.

### 2.5 The allowance

`AllowanceLedger` has one operator per transaction: `ReserveTx`, `CloseTx`, grants, sweeps and
terminations on `bucket`, `resv`, `dead`, `ended`, `notices`. `AiAllowance` has the calls that run
them: a call looks up its key, reads candidates, tries one bucket after another, checks after a
conflict whether a rival has taken the key, posts its settlement or release, and leaves notices. A
sync (plan-cycle.ts) inserts or reads the upgrade row, creates base and supplement buckets and
terminates the source that it replaces. A bucket's column `status` has no field: it is created
`active` and no statement of the repository ever writes another value. `upgrade` is
`ai_plan_upgrade_state`; `source` is the base source of the current entitlement. A key of a resume
is a pair, for the suffix `:after:` the code appends to it.

`AllowancePromise` knows three things: how much a bucket was funded with, the holds with their key,
amount, charge and state, and that a hold is closed once. `Promise == INSTANCE AllowancePromise
WITH ...` maps the ledger's rows to it, and `KeepsPromise` is checked and proved.

### 2.6 ChatRuns

A request (send, recover, write, resume) that starts an execution goes on as that execution.
`row` is the status of `chat_delivery`, `wf` the status of `workflow_run` and the key of the
suspend it is at, `fence` the row of each suspend and its decision, `window` the claim of the
resume window, `known` whether the registry of the process has the run, `hold` and `charges` what
the allowance has of it (its operations are atomic here, as `AiAllowance` shows they may be taken
for). `written` and `decided` record what became of each suspend. `Forget`, `Sweep` and
`WindowLapses` are the ends of in-memory entries, of reservations and of windows. A reservation may
expire at any time, under a run that is resumed too: `allowance.resume` continues an open one without
a new deadline.

### 2.7 QuotaMaterialization

A projection is the number of its revision in its workspace, and also the identity of its
operation; `Content` gives the policy it stands for, so that two projections may have one policy.
A worker claims the oldest operation that is due, loads, asks INFO, renews its lease, rebuilds an
untrusted ledger, applies, reads back and settles; a DEFINE whose answer is lost is judged by INFO
(`Recover`). It had taken effect, never will, or is one of `late`: `DdlLands` is such a statement
taking effect at any later time, after the INFO, under another operation or another lease, if the
generation it names is still there. `native` is the database: policy, generation, ledger. `look` is
the audit of a workspace. `since` is history: the policies the database has had since the last claim.
The five reads of `loadMaterializationLease` are one step (`Load`). `Desire`
is a refresh that wants another policy; `Pause`, `Resume` and `Reopen` are intents of operators.

### 2.8 SubscriptionIntake

Events and intents are *jobs* with a lease and a token. A run claims one, applies it to `sub`,
`item` or `override`, refreshes each workspace affected (`ReadRow`, `ReadItems`, `ReadSources`,
`Commit`: the statements of a context that is read without a transaction), and settles. `want` is
`desired_entitlement` with what its digest is made of. `Sweep` finds the workspaces whose access
has ended by the clock and refreshes them. The end of access is given twice, `cut` for the
resolver and `due` for the sweep, since the code computes them apart: of a subscription that is
paused, canceled or expired the resolver takes the earliest date and the sweep the first of them that
is set (quota/entitlement-resolver.ts:274-287, quota/lifecycle-sweep.ts:82-109). The event `e4` of the
instance has its access ended at 1 and is looked for at 2. `Awaits` names a workspace between the two
dates, and `Lent` one whose subscription operators have given to another workspace as well, which
changes it without a refresh of the first.

### 2.9 Provisioning

A request key is also its slug, so also its claim and its workspace. `claim` is the row with its
lease (who holds it) and whether its seven days are over; `ws` is the workspace row, what hangs on
it in the control plane (`source`, `entitled`, `applied`, `trusted`, `index`, `given`) and its
database (`state`, `policy`, `ready`, `schema`, `owner`); `call` are the requests, which may be
repeated for ever. `Claim` is the transaction `CLAIM_TRIAL_SQL`; `Reserve` to `Applied` are
`runProvisioningQuotaSaga`; `Template` to `Activate` are the rest of `tryCreateWorkspace`; `Undo`
and `Drop` are what handlers do; `Finish` is the `finally` of `ProTrialService.start`. `Writes`
gives every query of a saga its three outcomes: it goes on, or it throws with or without effect
and its handler comes next. A reservation that is released loses its workspace and index rows, while its
subscription, entitlement and projection stay behind in the control plane; of those the subscription
still counts for the claims of the account (`left`). `outlived` is history: the keys with a request
that worked beyond its lease.

Two returns of the catch of the index, for a slug or a database name that is taken, are not modelled
apart: a slug is reserved by then and a database name registered, both under a unique index, so that
another workspace cannot have them.

## 3. The runs

All but one pass (`expect: pass`), each exhaustive:

| Run | Instance | Shows |
|---|---|---|
| `effects` | 4 attempts that overlap in any way, 3 results, null among them, and an `fn` without one | `Replayed`, `OneWrite` through crashes, lost answers and late commits |
| `trigger_one` | 1 process, 2 triggers, 2 calls with different keys or the same one, reconciles and resumes, one failed or late query, expired lease, abort or crash | `WaiterKept`, `AnswersAreTrue` |
| `trigger_two` | 2 processes, 1 trigger, 1 call, two of: crash, failed or late query, closed session, expired lease, watchdog | `OneAtATime` (windows and executions), `RowsAreTrue` (rows agree with runs, finals stay) |
| `trigger_answers` | 1 process, 2 triggers with cascades, 2 calls with keys of their own, fairness, one failed or late query, closed session or stop | `EveryCallAnswered`, and undisturbed `HousekeepingIsSafe` |
| `sessions` | 2 windows, 2 idle closes, an activation, a pause and a stop; closes, sign-ins and credentials fail any number of times; fairness | `Accounted` (one connection, none lost, the lane is current), `ClosedMeansClosed`, `BlockedForCause`, `NoSessionWhilePaused`, `EveryCallEnds` |
| `lifecycle` | 2 creates, a pause, a resume, 2 retirements beside a window; one query throws, closes and sign-ins fail any number of times | `ActiveHasCredential`, `TransitionsHold` |
| `allowance` | 8 calls and 3 syncs over 5 buckets in six groups, one call or sync cut, an expiring cycle, a trial that converts | `HeldIsOpen`, `CyclesKept`, `NoRevival`, `KeepsPromise` |
| `chat` | 7 requests in five groups, 2 suspends, one query that throws or crash; fairness | `WrittenOnce`, `ChargedIsDelivered`, `OneDecision`, `RowSettles` |
| `quota` | 2 workers, 2 workspaces, up to 3 projections that go there and back, nine scenes; fairness | `AppliedIsTrue`, `GuardedApply`, `OperationEnds` |
| `quota_outdated` | the same | violated: `OutdatedEnds` (section 5.1) |
| `intake` | 2 runs, 4 events, 6 intents, 2 workspaces, twelve scenes; fairness | `LatestSnapshot`, `WantedIsEntitled`, `ClosedActsNoMore`, `JobsEnd`, `DueIsSwept` |
| `provisioning` | 2 requests of one key and one of another, 2 names each, two disturbances of seven kinds, or one request slower than its lease; fairness | `ActiveIsWhole`, `ClaimMatches`, `OneTrial`, `TrialArrives` |

`allowance`, `chat`, `intake` and `provisioning` also check the type invariant `TypeOK` of their
module, which says in `allowance` that nothing available falls below zero, and in `provisioning`
that no request draws more names than it may. The others are proved, and not checked again.

### 3.1 Why the bounds are enough

- *Two processes, one trigger.* Mutual exclusion of windows and executions is about pairs, and
  the order of triggers inside one window does not matter to it. `OneAtATime` and `RowsAreTrue`
  are also proved for all numbers.
- *Two triggers, two calls.* Coalescing needs a delivery that arrives while a window drains another;
  the sweep needs a waiter whose trigger another window has handled; a cascade needs a second key; a
  second delivery of a key takes the place of the waiter of the first (`trigger_one`).
  `trigger_answers` gives every call a key of its own, because a displaced call is never answered
  (5.2), and leaves the watchdog to the other two for its size. *MaxAttempts 2* lets a trigger be
  claimed, fail and be retired by attempts; the value 5 of the code repeats the first case.
  *MaxPerWindow 2* lets a window drain both triggers.
- *One trouble with one process, two with two.* Each disturbance may strike at any await, in
  combination with all interleavings; two expired leases make two processes work on one trigger. Any
  number of them is what the theorems add.
- *Faults of the registry* are not counted: every close and sign-in may fail.
- *Four attempts.* Two that overlap, one of which comes late, and replays on either side.
- *Allowance.* Five buckets are the least for a compensation, a trial and a paid cycle with their
  supplement; *MaxHolds 3* a first hold, its repetition and one of a resume; *MaxTries 2* a
  conflict and a last try; *MaxTime 1* with a window of 1 the end of a hold and of a bucket at the
  same moment. `Together` names the groups of calls whose rows meet; all calls at once would only
  add interleavings of calls that touch different rows.
- *Chat.* Two suspends tell the one the run is at from one that is decided. The five groups are:
  a repeated send and a recovery; two confirmations and a resume; a confirmation and a rejection;
  two opposite resumes; a resume and a recovery.
- *Materialization.* Two workers are one and its successor; three projections are needed for a
  policy that comes back (`ThereAndBack`); a second workspace shows that a workspace does not
  starve another. A scene has two or three events of kinds that act on one another.
- *Intake.* Three events are two revisions and a repetition; the fourth, `e4`, has its two ends of
  access apart. The clock reaches the boundaries 1 and 2 and their other side. The scenes pair jobs that change the same row.
- *Provisioning.* Two requests of one key race for one lease, the third races for the slot. Two
  disturbances allow a failure during the recovery from another. A request slower than its lease
  comes without another disturbance.

### 3.2 Deadlock

All configurations say `CHECK_DEADLOCK FALSE`: the calls of an instance are finite, so the system
stops when they are over. The liveness properties say that it does not stop earlier.

### 3.3 Fairness

Nothing obliges a delivery, a request or an event to come, nor anything to fail. What is fair,
always weakly:

- `TriggerRuntime!Fairness`: the steps of the task at the head of a lane, of calls and of drives (a
  promise whose continuation is ready is run by the event loop; a handler ends, or the watchdog
  cuts it); `Boot` and the steps of a stopping process (a deployment restarts its processes); the
  expiry of leases.
- `EmployeeSessions!FairSpec`: every call that can go on. `closeTimeoutMs` (3 s) bounds a close.
  That a sign-in is answered *or* rejected is an assumption: `connect()` of the SDK retries without
  a deadline, and the code sets none (a hazard).
- `ChatRuns!FairSpec`: a request that was accepted, and an execution, go on: their queries answer
  or throw, and an execution ends or meets its deadline.
- `QuotaMaterialization!FairSpec`: workers take turns and go on (the loops of `quota/runtime.ts`
  with their watchdogs), leases expire, a ledger that is being rebuilt is built, an audit that has
  begun ends, a back-off passes.
- `SubscriptionIntake!FairSpec`: the same for runs, sweeps, back-offs and leases; time passes up to
  its bound.
- `Provisioning!FairSpec`: requests go on, *customers repeat* a request that was not told "active"
  (the page keeps its fields for that), leases lapse, and a right that was withdrawn comes back
  (`TrialArrives` is vacuous while it is not there). A crash only ends the request.

`TrialArrives` is stated over `Possible`: the right is there, the seven days are not over, slug and
database are not somebody else's. What becomes of the other cases is in 5.2.

## 4. The proofs

`tlapm` checks all of them, for arbitrary constants subject to the `ASSUME`s of the modules, which
TLC evaluates on every run. Each module has an inductive invariant, an induction step with one
case per action, and its theorems as consequences. Only those of 4.4 have a
hypothesis beyond those, that a sign-in may fail. Every
invariant and every action property that a passing run checks is the subject of a theorem, with one
exception: of `HousekeepingIsSafe` one half is proved.

### 4.1 EffectLedger

`TypeCorrect`, `Durability`, `ReplayIsTrue` (`Replayed`) and `WriteOnce` (`OneWrite`), for any number
of attempts that overlap. The invariant `LedgerInv` adds to the properties that who has run `fn` holds
a result (`Durable`) and that whoever is on its way once the row is committed was overtaken
(`Overtaken`): a commit finds every other attempt before its claim, overtaken, or at its end, so that
the results of those that returned are the committed one until an overtaken attempt commits.

### 4.2 TriggerRuntime

- `TypeCorrect` needs more than `TypeOK`: a drive about to write its outcome has one, a call beyond
  its INSERT has a process and a key, and a waiter is a call with the key it is registered under.
- `OneWindowAtATime`. The invariant `WindowBacked` says that a process inside its window that is not
  late is the holder of a live row. With it the CAS of `acquireWindow` keeps the others out, and the
  release of a late process, which asks for its own name in the WHERE clause, frees nobody else's row.
- `OneExecutionAtATime`: a drive with an open session that has not been cut is the one its process
  attends to, in a window that is not aborted (`Attended`); every abort cuts the drives of its lane.
  Two of them would be two tasks in two windows. `OneThingAtATime` joins the two.
- `RowsMatchRuns`, `FinalsAreFinal` and, joined, `RowsStayTrue`. The invariant is stated per trigger,
  as long as it has not strayed (`Steady`): a drive that may write has the row leased or running, and
  is the only one; it is its task's; it settles with what the run says; a write that was given up is
  the only one there is, no drive is left beside it, and nobody has been told anything else; what a
  task was told is what the row says. A claim is where this could break, and there either somebody
  was still at the trigger, which makes it a stray, or nobody is (`Deserted`) and all of it is
  vacuous. The watchdog, a stop, a closed session and a lost answer leave a drive or a late write
  behind, which is allowed; nothing is assumed of how long they last.
- `WaitersAreKept`, through deliveries of the same key: the later one displaces the earlier, whose
  call no longer waits. The invariant adds that a call under way belongs to a process that runs (a
  crash drops its calls, so that a boot never empties a lane somebody waits in).
- `AnswersTrue` (`AnswersAreTrue`) follows from `Steady`: a waiter is answered with the outcome of the
  drive its task waits for, or with the row that the sweep reads. It speaks of calls that wait. The
  early returns of enqueue report what their own INSERT has read two awaits before; a claim elsewhere
  may come between, and nothing is said of them.
- `WindowsKeepTheirSession`, the first half of `HousekeepingIsSafe`: as long as nothing disturbs the
  employee (`trouble = 0`), no window loses its session, in any number of processes and with any
  requests. The invariant (`Kept`) is a count (`Line`): a lane plans a window exactly while it has one,
  in its queue or as its task, and exactly one. So the housekeeping of a delivery that returns early
  finds `planned` set. The second half, `NothingStranded`, is checked and not proved; it is a property
  of one process without resumes and with cascades up to `MaxPerWindow` (5.2 says what happens
  beyond).

### 4.3 EmployeeSessions

`EmployeeProofs` proves about this module and the next, which extends it.

`TypeCorrect`, `SingleConnection`, `NothingLost`, `LaneFollows`, `ConfirmationHolds`,
`StopIsComplete`, `PausedStaysOut`, `BlockIsCaused`, and joined `ConnectionsAccounted` and
`ClosedIsClosed`, without an assumption about faults. The invariant has two halves.

- `LineInv`, who runs: the chain lists exactly the works under way, each once, and only the first
  has begun.
- `HandInv`, who has the connection: a work that has begun has taken the session out of the
  registry; while it closes it has the only connection in hand; what may be open is the session,
  or in `closing`, or signing in; after `stop()` has drained the chain no one connects; suspended
  implies blocked.

"One connection" is not inductive without "none lost": the next register may connect only because
what an earlier close has left is still known.

`BlockIsCaused` rests on two facts more. `CauseInv`: while the gate is shut and nobody has suspended
or stopped the employee, the last work of the chain is the close that was called last, because a
register behind it would have lifted the block and another close would be the last; so the epoch it
compares is current when its turn comes and it opens the gate, unless it fails. `ClosingInv`: until
`stop()` a work that closes has its connection in `closing`, where a failure leaves it.

### 4.4 EmployeeLifecycle

- The steps of the registry are those of 4.3 by construction, so that its invariants hold here as well;
  a denied sign-in is one that fails, whence the hypothesis `"signin" \in Faults`.
- `LifecycleTypes`; `CredentialBehindStatus` and `TransitionsAreLegal`, for any number of queries
  that throw: the first operation of the queue has the record to itself, and so what it has read
  is still true when it writes. The UPDATE of `transit` has no such check in its WHERE clause; the
  theorem is why one process does not need it.
- `AnsweredIsShut` joins both levels: the gate stays shut from the call of a pause to its answer,
  because only a create or a resume would open it and they wait in the queue; and a call of the
  registry that is done has left no connection. `TransitionsAreKept` joins it with the legal
  transitions.

### 4.5 AiAllowance

`AllowanceInv` is the types, `Sound` (a bucket that is absent is empty; a hold is of the one amount
and on a bucket that exists) and, per call, `Good`: what it has read and still relies on. From it:
`AllowanceTyped` (nothing available below zero), `AllowanceNoRevival` (no step reserves on a bucket
that has ended or gives anything back to it), and `AllowanceKeepsPromise`, the refinement: each
transaction is a step of `AllowancePromise`, everything else a stutter, and the first states are
first states. So a key holds once and a hold is closed once for any number of calls, conflicts and
lost answers.

`AllowanceBalanced` (`HeldIsOpen`): what a bucket has reserved is the sum of its open holds, what it
has settled the sum of what its holds were charged, and the four parts add up to its total, through
conflicts, cuts, sweeps and terminations. `HeldInv` adds that an open hold is not charged yet.
`AllowanceCyclesKept` (`CyclesKept`): `CyclesInv` follows a sync through its transactions. The end of
a trial is recorded before its buckets are marked and marks them all before a paid bucket is made
(`EndedFirst`, `TrialStaysEnded`); a cycle is raised in the one transaction that gives its supplement,
and after its base (`RowsFirst`, `BaseFirst`); what it gives is rounded down and never more than the
difference to the highest amount (`Floored`). Both are about sums over finite sets. `SumFunctionOnSet`
of the community modules is a recursive function on subsets; that it exists, is unique and grows by
what is added (`SumsExist`, `SumsUnique`, `SumStep`) is proved by the well-foundedness of strict
inclusion: among the sets that have not a property one is minimal. Of the directives they assume that
the identifiers of base and supplement, which plan-cycle.ts:169-176 derives from the period and the
event, are distinct and belong to that period (`AllowanceAssumption`).

### 4.6 ChatRuns

The invariant `Kept` has five parts beside the types. `Alone`: one execution is under way, or one
resume is about to begin one, or the first request is. `Stored`: who hands the answer out has it
stored. `Claimed`: a claimed decision stands until it is undone or the run goes on with it.
`Placed`: the run is at the last of its suspends, whose cards were shown. `Decided`: decided
suspends are closed and, while no fence was lost, are those before the one the run waits at. From
it `TypesHold`, `SuspendsAreWrittenOnce`, `ChargesAreDelivered`, `DecisionsAreTakenOnce` and
`AnswersStay` (one half of `RowSettles`). `OneDecision` is conditional on `AllFenced` (5.2).

### 4.7 QuotaMaterialization

`Truths` adds four parts to the types. `Present`: the policy in force is among those since the last
claim. `Told`: a success that the owner of the lease is about to settle is one the database has had.
`AllSeen`: what a worker has seen before it applies is not its target, is foreign only with an
operator's leave, and, as long as the generation it saw lasts, nothing else is in force. The last
is the point: the guard of DEFINE on the generation makes a worker that was overtaken harmless, and
for the same reason a statement that its run has given up (`LateSeen`).
`AppliedOnesWereThere` and `StatementsAreGuarded` follow; `QuotaTypes` says the rest. The native
generation only grows: that is assumed of the database.

### 4.8 SubscriptionIntake

`Kept` is the types, `Unique` (no two runs hold one lease), `AppliedMoved` (an event counts as
applied when it has changed the subscription, which is not behind it since), `Known` (the owner of
an event that has gone past it knows what became of it) and `LatestSnapshot` itself. From it
`IntakeTypes`, `SnapshotsAreLatest` and `ClosedJobsRest`: the token in the WHERE clause of every
write keeps a run that was overtaken from acting.

`WantedEntitled` (`WantedIsEntitled`): what the workspaces' desired entitlement says is what follows
from subscription, item, override and time, or their time has run out and the sweep will find them,
or somebody still owes them a refresh. `Owing` is what makes this inductive. `Owed` names the
debtor: a job that is not settled and whose every owner has the refresh of that workspace before it,
so that a run which loses its lease leaves the debt with the job. `Flights` is about a refresh that
has no other beside it: what its eight statements have read is what there is, or another job owes
the workspace a refresh. `Titles` says whose items the end of a subscription may reach. Nothing is
assumed of the dates of an event or of the subscriptions that operators assign: the property itself
says what is left out, a workspace whose access has ended for the resolver and not yet for the sweep
(`Awaits`) and one whose subscription is shared (`Lent`).

### 4.9 Provisioning

`Inductive` has, beside the types and `ActiveIsWhole` itself, six parts. `Leased`: a claim that has
a lease is not active yet. `Slotted`: the claim that runs is the one of the slot, from which
`TrialIsAlone` follows. `Settled`: who is told that the trial runs has it. `Exclusive`: on a key
that nobody has outlived a request at work holds the lease, so that it works alone (`Alone`).
`Staged`: what the steps before have reached in the workspace is there when the next one begins,
step by step up to the activation; it holds across resumptions, because each attempt starts again
at the reservation and every step but the drop of the database only adds. `Matched`: claim and
workspace are active together. `ClaimAndWorkspaceAgree` and `NothingIsHalf` follow. The premise "nobody
has outlived the key" is part of the properties and needed for them (5.2); `TrialIsAlone` is without
it.

### 4.10 Checked and not proved

- Liveness (`EveryCallAnswered`, `EveryCallEnds`, `RowSettles` in its half that rows end,
  `OperationEnds`, `JobsEnd`, `DueIsSwept`, `TrialArrives`): out of the prover's reach.
- `NothingStranded`, the second half of `HousekeepingIsSafe`.
- What a recursive definition computes for every input. What the proofs need of one, the sums of 4.5,
  is had from the well-foundedness of inclusion, and the oldest claimable trigger (`Oldest`) from the
  least element of a set of numbers.

## 5. Where code and documentation disagree

### 5.1 The finding

`quota_outdated`: an operation that has not started and that a newer projection has overtaken is
never superseded. The reconciler settles it with `supersededBy` set to the newer *projection*, and
the column takes a materialization *operation*; the transaction fails, the operation is claimed
again after every lease, and the newer one, being younger, waits behind it for ever. The planning
document says that it is superseded at once. `OperationEnds` holds of everything else.

### 5.2 Limits met while modelling

Disagreements and weaknesses that counterexamples showed on the way. The properties are stated so
as to leave them out; most can be seen again by widening a configuration or dropping a condition.

Trigger runtime, registry and lifecycle:

- A second delivery of a key in one process overwrites the waiter of the first, whose promise never
  settles (`lane.waiters.set` in enqueue). `trigger_one` lets both calls bring one key and excepts
  the displaced call (`WaiterKept`); `trigger_answers` gives the calls keys of their own.
- The watchdog is armed anew for each trigger and nothing renews the 60 s lease of a window, so that a
  window of several triggers outlives it and a second process enters, although the header of the
  runtime says that an employee has one window at a time (office/employee-trigger-runtime.ts:41). `late`
  marks whom this has happened to; without it TLC finds two processes in their windows.
- After a crash inside a window the reconcile at boot is turned away by the crashed window's live
  lease; nothing asks again, and a pending trigger waits for the next delivery or boot.
- A drive that has lost its trigger can write a final status over, or have its own overwritten:
  `setStatus` (:1055-1073) checks neither lease nor status, although the header calls failed the final
  state of its key (:33). `strays` marks these triggers; without it TLC finds a process whose leases
  have run out, its successor, which has claimed the trigger and loaded its run while it was still
  running, the first one's "failed", and the successor's "running" over it. With overlapping attempts
  two executions of an effect both run `fn`, and a commit that comes late replaces the earlier result.
- A delivery that has been told "waiting" early may be overtaken by a resume elsewhere. The
  housekeeping of an enqueue that returns early may close the session a resume is about to use. With
  cascades beyond `MaxPerWindow` a follow-up can be consumed between two tasks and a trigger left.
- The scan of reconcile is outside its try; the answer of an INSERT may be lost and no window
  planned; attempts count resumes of a conversation.
- A close by the lane that fails leaves the employee blocked, although only pause and retire are
  meant to block (`BlockedForCause` names the cause). A resume whose UPDATE took effect and whose
  answer was lost reads active when repeated, skips the call of `register` (employee-lifecycle.ts:333)
  and answers ok: the registry of this process stays suspended, although the operation is called
  idempotent (:6). A pause and a retirement do repeat their call; `TransitionsHold` says so of those.
- A pause in one process leaves the session that another process holds open, and a create in one can
  activate an employee whom another is retiring: the queue of operations is per process. The
  secret's cache may be written after a retirement has cleared it.

Allowance and chat:

- A second upgrade within a cycle is compared by the denominator of its fractions and is never
  compensated (plan-cycle.ts:420, :445, against the comment at its head).
- An answer can be delivered whose hold was given back (ai-chat.ts:326).
- A crash after a decision was claimed leaves the suspend "resumed" with nobody to go on. A suspend
  whose fence could not be raised lets more than one decision through (`AllFenced`). The hold of a
  resume whose gate fails to bind stays until the sweep. Executions abandoned at a deadline, which
  may still write, are not modelled.

Control plane:

- An operation whose outcome was unknown may be taken up again after the newer one was applied, and
  then brings its own, older policy back (reconciler.ts:267). So may a statement that was given up and
  takes effect after a newer projection is called applied, if the generation allows it:
  `AppliedIsTrue` says that the policy was there since the claim, not that it still is, and the next
  audit sees a drift.
- The policy of an operation that was overtaken may be taken for drift; observations are written
  without a fence; an operation of a paused workspace keeps others waiting; a reopened operation
  has its attempts used up; a workspace that cannot be loaded makes its operation return for ever.
- An intent is recognised as applied by what the subscription names as its cause: an event in
  between makes a retried `subscription_end` apply again, although the planning document calls
  replays harmless. An intent retried late refreshes at its old time.
- The context of a refresh is eight statements and no transaction: a torn read drops the job as
  invalid although its change was made. Two refreshes beside each other may leave an old resolution
  (`sound` marks where `WantedIsEntitled` speaks). An older override can be activated by a replay.
- An assignment that names another's subscription extends the other workspaces' items without
  refreshing them (quota/lifecycle-store.ts:1345-1358; `Lent`). A subscription with `canceled_at` alone,
  whose item ends later, is looked for by every sweep from its cancellation until its item has ended,
  since the resolver takes `canceled_at` only in the absence of another end; the instance has no such
  event, and `DueIsSwept` would not hold of it.

Provisioning:

- The lease is meant to prevent concurrent execution (docs/runbooks/explicit-pro-trial.md). Delivery
  and activation are fenced by it, the rest is not: a request that works longer than ten minutes
  may mark an active workspace as failed, drop its database, or delete the row another request has
  taken up. `ActiveIsWhole` and `ClaimMatches` therefore speak of keys without such a request;
  `OneTrial` and `TrialArrives` hold for all.
- A database that is not ready is dropped when the error names the missing capability, although the
  runbook says that it is kept. Its request comes through all the same.
- A request that takes up a reservation also takes over a database of the same name that it never
  made; if that has a policy of its own, the trial fails until it is over.
- A slug that somebody takes between claim and reservation leaves the account's only trial
  undeliverable for seven days.

## 6. What is not modelled, and why

- Inside the modelled parts: clocks other than the boundaries named, metrics, logs and messages, the
  order of equal timestamps, the semaphore of window slots, the token budget, the cache of secrets,
  token renewal, the observation probe; rates and texts of the ledger; the stream of a chat, its
  encryption, tools and prompts; the compilation of policies and digests; trials, payers and the
  expiry of overrides as sources of an entitlement, and the cascade to product entitlement and plan
  cycle; names, offers and contents of a trial, names already registered that are drawn again, and
  `provisioning_stage`.
- Several employees, chat runs or billing accounts: they share only slots and pools.
- Mastra's engine and SurrealDB: modelled by what the code relies on. A statement is atomic and so
  is a transaction, a unique index turns a second INSERT into an update or an error, a snapshot is
  durable once written.
- *Quota migration, database access, the data table runtime of the browser, invitations*: they have
  protocol state and are next (section 7).
- *Everything else of 1.1*: rendering, parsing, queries, aggregations, single statements under a
  unique key, scripts. It is most of the repository's lines (screens, routes, read models), and has
  no steps that interleave.

## 7. What the plan has left

1. Proofs beside the runs: `NothingStranded` in one process without resumes, and `WantedIsEntitled`
   with two refreshes beside each other.
2. `Invitations` (`invitations/`): issue, delivery, collection and completion. Seen while reading:
   a retry under a new key grants a second allowance (`invite:<key>`), a link is handed out twice
   when a collection falls between a completion and its read, and `fail` overwrites what is
   complete.
3. `RootConnection` (`db/root-connection.ts`): single-flight reconnects, stale events of replaced
   instances, probes. No late event turns a healthy state; a live database is found again.
4. `DataTableRuntime` (`web/src/lib/data-table-runtime.ts`): optimistic edits against live messages
   and refreshes.
5. `QuotaMigration`, the driver's abort state machine, the window slots.
6. Compositions: `SubscriptionIntake` with `QuotaMaterialization` through the desired projection;
   `Provisioning` with both; `TriggerRuntime` with an abstract `EmployeeSessions`.

## 8. Running it

    tlc -workers 2 -config MCSessions.cfg MCEmployeeSessions
    tlapm TriggerRuntimeProofs.tla

Each instance ends within three minutes with two workers; the largest are `trigger_one`,
`lifecycle` and `trigger_two` (4 to 5 million states each) and, of those with fairness,
`trigger_answers` (about a million). The proofs take some minutes per module from nothing, those
of `TriggerRuntime` and `ChatRuns` the longest.
