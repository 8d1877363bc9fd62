# Seltra: formal models

TLA+ models of the parts of Seltra in which several actors change shared state:
the persisted runs of the builder and their event stream, the credit account of
a user, the ledger and the payouts of a merchant, the gateway that starts a
process per workspace, calls language models and saves the files agents write, and
two parts of the builder engine that decide which work may run at a time. TLC checks them on small instances; TLAPS proves their safety
properties, and the refinement of what they promise, for every instance.

## 1. The system

Seltra is a monorepo (`src/seltra-web`) with three programs and one database.

| part | where | state | operations |
|---|---|---|---|
| Builder runs | `backend/src/build` | tables `runs`, `run_events`, `project_snapshots` | start, continue, append, stop, heartbeat, stream, lease reaper |
| Builder sessions | `backend/src/builder` | tenants, files of a workspace, redeemed tickets | session, web socket ticket, entitlement, file sync, usage report |
| Credits | `backend/src/credits`, `common/credit-plan.ts` | tables `user_credits`, `workspace_credits`, `user_credit_ledger` | ensure, mirror, reset, commit usage |
| Engine | `backend/src/engine` | `seltra_engine_usage`, keys, image cache | authenticate, reserve, call a provider, settle, release |
| Gateway supervisor | `core/server/src/workspace_supervisor.ts` | maps of runtimes and pending starts, child processes | get, start, getByKey, exit, collect idle, close |
| Gateway breaker | `core/server/src/resilience` | state, failures, probes per model | admit, succeed, fail |
| Gateway HTTP | `core/server/src/main.ts` | caches, budgets | proxy, model requests with fallbacks and retries |
| File sync | `core/server/src/main.ts`, `backend/src/builder/builder.service.ts` | walks per socket, one sync per workspace, file rows, run snapshots | poll, coalesce, post in batches, save, announce, snapshot |
| Gateway repair loop | `core/server/src/verify` | one loop's counters | verify, classify, repair, give up |
| Control store | `core/server/src/control_store.ts`, `prisma_control_store.ts` | workspaces, audit entries | get or create, append |
| Payments | `backend/src/payment` | merchant balances and ledger, disbursements | initialise, verify, webhook, request payout, OTP, confirm |
| Sign-in | `backend/src/auth` | users, one-time codes, refresh tokens, scheduled mail | request and verify a code, rotate, revoke, dispatch mail |
| Orders, invoices | `backend/src/orders`, `invoices` | orders with a status and a timeline | create, update, message the agent |
| Storefront agent, AI | `backend/src/agent`, `ai` | pending actions, conversations | propose, confirm, execute |
| Administration | `backend/src/store`, `tenant`, `marketing`, `internal-ops`, ... | their tables | create, read, update |
| App operations | `core/src/ipc/services/app_operation_coordinator.ts` | owners, queue, blocks and deletion of an app | run, cancel, release resources, block, begin deletion, drain |
| Admission gate | `core/src/distributed_machines/keyed_admission_gate.ts` | generations and fences per key | capture, dispatch, create, begin fence, seal, commit, abort, release |
| Builder engine, the rest | `core/src` | state machines per chat, app and operation | transactional dispatch, chat stream, app runs, test queue |
| Frontend | `frontend` | a page's view of a run | start, post events, stop, continue |
| Schema | `backend/prisma` | unique and partial indexes | refuse rows |

How they interact. The dashboard asks the backend for a run, opens its event
stream, and drives the gateway; what happens in the gateway it posts back as run
events. The gateway starts a child process (the builder engine) per workspace,
proxies requests to it, serves its model requests through a breaker per model,
and reports usage and changed files to the backend, which charges the credit
account, saves the files and appends `files.persisted` to the active run. Inside the
child, whoever touches an app's repository, processes or functions goes through the
app's coordinator, and events reach an app's actors through the admission gate, which
the deletion of the app closes. All backend processes
share one PostgreSQL; the reaper and the mail dispatcher run in each of them.

What is hard about it, by kind:

* **Interleaving and atomicity.** Handlers read, await and write; only some of
  them do so in a transaction, and several API processes run at once. Two starts,
  two continuations, a stop against an append, a claim against a heartbeat; two
  resets of one credit window; a plan change under a reset; two requests that start
  one workspace; two reports of one payment; two confirmations of one payout; two
  sockets that walk one workspace; a deletion against work that was admitted, waits,
  or was authorised and is yet to come.
* **Order and staleness.** A poll starts while the one before is unanswered; row and
  events are read by two queries; an exit event names an older child; an operation
  of a breaker ends two states later; a mirror is written from an older row; files
  are read long before they are saved; an actor reports under a generation that a
  fence has ended since; a queued operation is passed by a later one.
* **Failure, timeouts and retries.** Lost workers and their lease; broken event
  streams; settlement refused after the work is done; a start that outlives its
  deadline; a process that dies with a reservation, or between a transfer of money
  and the write that records it.
* **Limits.** Capacity of the gateway, probes of the breaker, a balance at zero,
  a sweep that lists fewer runs than are stale.
* **Waiting.** A deletion drains, a seal waits for work that begins new work, a writer
  waits behind sessions that others may pass.

`PROJECT.json` lists every hazard at its line, with the property that covers it
or the reason why none does.

## 2. The modules

Every definition that stands for code is mapped to its lines in `PROJECT.json`.
An action is a stretch of code that no other actor can see the middle of: the
code between two awaits in a JavaScript process; one SQL statement; or a
transaction that locks the row it works on with its first statement.
Operators commented "Variant" are faulty forms of the operator after them; they
are used by nothing and exist to test that the properties notice.

### RunService: runs in the database

`row`, `log` and `snaps` are the tables, `now` the clock, `call[c]` a start or
continue request with the step it has reached, `sweep[i]` the reaper of API
process `i` with the runs it has listed, the phase each was listed with and the cutoff
it computed. `had[r]` are the phases row `r` has had: `stop` writes back the phase it
read before its transaction, so a stop may bring back any of them. An event has a type
and a phase; `run_events` has no column for the state its posting asked for.

| actions | code |
|---|---|
| `StartCall`, `LookupKey`, `LookupActive`, `Create`, `CreateRefused` | `start`: each database call is a step; a refused insert goes through both lookups again |
| `ContinueCall`, `ContinueInsert`, `ContinueRefused` | `continueRun` |
| `Heartbeat`, `Append`, `Stop` | `append` (also `appendInternal`), `stop` |
| `SweepBegin`, `Claim`, `ClaimLost`, `SweepAbort`, `Tick` | `reaper`, `runReaperSafely` and the lease |

`CanInsert` and `IndexAllows` are the unique indexes of the migration. `Posted`
is what the dashboard and the file sync post; any posting may come at any time,
so a late one can revive an ended run, as in the code.

### RunFeed and EventFeed: one run's log and its stream

RunFeed opens the transactions that RunService treats as one step (row lock,
insert, counter, commit, rollback) and models `RunService.stream`: timer polls that
overlap, the query for the row and the one for the events, the shared cursor, a
broken connection with a partial batch and the reconnect with `Last-Event-ID`.
EventFeed is what the stream promises: the subscriber holds a growing prefix of the
log, and the stream ends only after an event that ended the run. `Feed` is the
refinement mapping: the prefix held is read off `got`, the endings off `events`.

### Credits: the account of one user

`acct`, `mirror`, `ledger` (totals by kind) and `usage` are the tables; `req[c]` a
call with what it has read. `EnsureStart` to `ResetWrite` are `ensureAccount`,
`ensureWorkspaceMirror` and `grant`; `ReportUsage` is `commitUsage` of the
credits service; `Reserve`, `Settle`, `SettleRefused`, `ProviderFails`, `Release`,
`Crash` the engine's calls. Accounts share nothing, so one is modelled.
A call that has created the account goes on to the test of window and plan like any
other (`TestCreated`).

### CircuitBreaker: one model's breaker

The private fields are the variables; `op[o]` is an operation that was admitted
and has not ended. `AdmitClosed` and `AdmitProbe` are `admit`, `Succeed` is
`succeed`, `FailOther`, `FailProbe` and `FailClosed` are `fail`. Time is counted in
ticks; `execute` awaits the operation, so any number of ticks may pass in between.
The code's list of failure times is a set here, each time kept with the operation that
failed then; an operation ends once, so both have the same length.

### WorkspaceSupervisor: one process per workspace

`runtimes` and `starts` are the two maps, `child` the processes, `call` the
requests. `GetActive`, `GetPending`, `GetStart` are the three ways into `get` (the
last includes the capacity check of `start`); `Spawn`, `Ready`, `StartFails`,
`PrepareFails` the rest of a start; `Exit` the exit event, `SpawnError` a child that
could not be spawned, `GrowIdle` and `CollectIdle` the collector, `Close` the
shutdown. A child told to stop is `"killed"` until its exit event. A connection to the
child's port is taken to reach that child, although the port is reserved and freed before
the child is spawned.

### MerchantLedger: the money of one store

`order`, `balance`, `credits`, `debits` and `disb` are the tables, `sent` the transfers
Moolre has made, `job[h]` the request a handler works on and its next step. `Place` and `Link` are `initializePaymentMoolre`; `Report` is
`handleMoolreWebhook` and, with the same test and the same effect,
`verifyMoolrePayment`: the webhook takes its body's word, so whoever knows the order's
reference can report it, paid or not, and any number of times (all reports are taken to
name the same amount); `Find` to `Stamp` are the statements of
`creditMerchantLedger`, which is no transaction. `Request` to `Withdraw` are
`requestDisbursement`, `Confirm` to `Mark` are `confirmDisbursement`; only `Commit`
is a transaction. `Throw` ends a handler before any of its calls. A transfer has four outcomes:
`Transferred` and `Refused` as answered; `AnswerLost`, made and taken for refused
(`initiateTransfer` returns a failure for every exception and for every answer that is
not a 2xx); and `Misread`, taken for made and not made (it returns success for a 2xx
whose body cannot be parsed or whose status is not 0, and without any call in a dry run).
`crossed` are the orders and disbursements that two handlers were at at a time, `unheard`
counts the transfers whose outcome was never stored, `misread` the disbursements with a
success answered for no transfer; no action reads them.

### AppOperations and AppLocks: who works on an app at a time

`ops[o]` is caller `o`'s operation with its claims, what it has released and the
operations queued before it; `blocks` what failed cleanup left, by the operation that
left it; `deletion` the deletion handle. `Submit` is `run` up to its first await,
`Execute`, `Settle` and `Retire` the microtasks around the callback, `Cancel` the abort
of a queued one, `ReleaseResources`, `BlockConflicting` and `Unblock` what an owner
calls; `BeginAppDeletion`, `Drain`, `DrainReturns`, `RunExclusive`, `ExclusiveEnds` and
`ReleaseDeletion` the deletion. Each of them ends in `Pump`, which the code calls
everywhere: `Ready` is the set its loop admits, given as the one set in which exactly
the members may start after the owners and the members queued before them.

The code drops the state of an idle app and makes it again; an empty state and the
initial one are the same here. Refused calls change nothing and are not actions;
`isBusy` only reads. A block is taken by a running owner for the claims it has at that
moment, once, as its callers do. `MCAppOperations` says who calls and what each may
claim, modelled on the callers in `core/src/ipc/handlers`.

AppLocks is what the coordinator promises its callers: a table of locks, one writer or
many readers each. An operation gets its locks all at once, gives some back, gets no
more; what is fenced off is granted to nobody else; deletion's work is alone. In the
refinement mapping `Locks` an operation holds its claims from its admission until they
are given back (`Held`), the fences are `blocks`, and the queue, the sessions and the
drain disappear.

### AdmissionGate and WorkGate: generations and fences

`entry[k]` is a key's generation and, if there is one, its fence (draining, sealed,
committed) with what it tracks and what the running seal still awaits; `work[w]` is
an event, a construction or an external job, from `Capture` (its generation is read,
before anything is awaited) to `Enrol`, `Dispatch` or `Create` (the three ways to be
admitted), `Settle` and `Cleanup`. `BeginFence`, `Seal`, `SealResumes`,
`SealRejects`, `Commit`, `Abort`, `Release` and `Dispose` are the fence; a seal is a
loop with an await, so it takes its rounds one at a time. Generations are ordinals
instead of fresh objects; 1 is that of a key without an entry. `lastSealed` is history.

Not modelled: the fence of the whole machine (`beginMachineFence`), the two halves of
an actor's construction and its disposal, and the second look the gate takes after it
has asked a policy that may call back. WorkGate is what the gate promises: work starts
on authority granted while its key was open, each grant is used once, a key closes with
nothing running on it, and its grants are gone then, for good. Generations do not appear
in it: `Gate` maps to `granted` the captured work whose generation is not stale
(`Granted`), to `running` what runs (`RunningOn`), and a key is closed while its fence is
sealed or committed. After an abort the work that was running is
stale, as in the code; the engine's callers would have to ask for a new synchronisation
and do not.

### FileSync: from the sandbox to the database

`disk` has the version of each file, `walk[s]` what the session `s` (a socket, or one
list-apps request) has read, `active` the sync under way in the gateway
(`workspaceFileSyncs`), `handler[h]` a `syncWorkspaceFiles` call in the backend, `row`,
`announced` and `snapshot` what is saved, named in `files.persisted` events and kept
per run. `StartWalk`, `ReadFile` and `Submit` are the walk and
`syncWorkspaceFileBatches`, `Post` and `Answer` the batches, `Lose` and `GiveUp` a POST
that fails or times out; `ReadHashes` to `TakeSnapshot` are the database calls of the
handler, each upsert one step.

The model abstracts what follows. A file deleted on disk never reaches the rows, so
files only get newer. The run of a handler is the newest one when the POST arrives; a
run that a late posting revives is RunService's matter. `GiveUp` stands for the
timeout and for a handler that threw: its upserts run side by side and are not
cancelled, so it goes on, and `Stop` may end it at any point, as a crash does. Two
consecutive calls about the run's latest snapshot are one step. A `files.persisted` event names at
most 50 paths (`builder.service.ts:269`); the model assumes that no sync changes more,
and of a larger one the event names only a part. Content, assets and the manifests of
apps are left out. A handler that is cut off between an upsert and its announcement
leaves rows that nothing announces, since the next sync finds equal hashes; that is why
`SavedIsRecorded` speaks of executions without a fault. `overtaken` is history: the
sessions that were still reading when another began to send.

## 3. The runs

| run | instance | what it shows |
|---|---|---|
| `run_log` | one run, one request, two reapers, 4 events, 4 ticks | the log is gap-free, a run is interrupted once per lost lease, only after its lease, and under the phase it is in |
| `run_requests` | two runs, two projects, one key, two requests, one reaper listing one run, 3 ticks | never two active runs in a project, a key never answers with another project's run; each lost run is reaped |
| `feed` | two writers, two polls, 3 events | what is held is a prefix of the log, refinement of EventFeed (so completion is announced), eventual delivery |
| `credits` | three calls, two plans of 3 and 5 credits, two days, costs 1 and 3 | the books of an account agree; reservations close |
| `breaker` | six operations, threshold 2, two probes, 5 ticks | no leaked slot, no opening without evidence |
| `payouts` | one order of 4, two disbursements of 2, reserve 1, two handlers, two faults | the balance covers the ledger's rows, and equals them before the first fault, no payout is recorded after failures alone, and a payment or a disbursement that one handler at a time works on is credited, or charged, exactly once |
| `payouts_confirm` (violation) | one disbursement, no faults | two overlapping confirmations both transfer |
| `supervisor` | two workspaces, three requests, three children | one working child per workspace, no orphan, answers serve, waiters answered |
| `supervisor_capacity` (violation) | two workspaces, capacity one | overlapping starts exceed the capacity |
| `operations` | five callers, two of them sessions, four resources | refinement of AppLocks (so owners never conflict), one pass over the queue leaves nobody behind who may start, deletion runs alone, blocks fence, only sessions are passed, whoever waits is served, a drain ends |
| `admission` | one key, three pieces of work, two of them declared, 5 generations | refinement of WorkGate, a sealed fence is quiet, stale authority starts nothing, running work may report until an abort, a seal ends |
| `file_sync` | two sessions, one of them lasting, two files, two edits, one run, two POSTs, one fault | what is saved is announced and snapshotted, rows do not go back, rows come to hold what is on disk |

Why the bounds are enough. Each conflict in these protocols is between two actors
about one object; the instances have two or three actors and, where actors meet
through a third (a continuation and its previous run; two stale runs and a sweep
that lists one), that one too. Clocks run past every deadline at least twice.
Logs have room for the events that can conflict and one more. Costs, allowances and
the reservation are chosen so that a balance can be missed by one, met exactly and
exceeded. In `payouts` each disbursement alone leaves the reserve and both together do not, and
two faults are enough for a lost answer followed by a failed ledger write; any transfer
may be misread, which is no fault and has no bound. In
`operations` every caller conflicts with some others and not with all, and may claim
the umbrella name, give a half of it back, or be passed. In `admission` five generations
are two fences with what follows each of them. In `file_sync` two edits of
one file lie in one walk, in two walks, and on both sides of a lost POST; with two
runs instead of one its two safety properties were checked as well (13.3 million
states, which is more than a regular run should take).
Counters are bounded in the guards by `MaxSeq`, `MaxTime`, `MaxEvents`, `MaxFaults`,
`MaxDay`, `MaxGeneration`, `MaxEdits` and `MaxRun`; these bounds are the models', not
the code's. Deadlock is checked in `operations`, whose callers come back for ever. In
the other instances requests are made once and counters end, so each comes to rest.

Fairness. `LostRunIsReaped`: the interval timer of an API process keeps firing, and
a claim that is possible again and again does not fail for ever (strong fairness,
since another sweep may come between). `EventDelivered`: the poll timer fires while
the stream is open, the database answers, the browser reconnects, not every batch is
cut off. `ReservationCloses`: provider calls have an abort timer and both ways out are
awaited. A reservation may also end as lost, by a crash or by a release that fails.
`WaitersAnswered`: every await in a start is bounded by file operations or
the 120 seconds of `waitForRuntime`. `QueuedIsServed` and `DrainEnds`: the callbacks of
operations settle and the promise chain behind them runs. `SealEnds`: work that was
admitted ends and its callbacks run; each piece of work is admitted once, so a seal is
not fed for ever. `SyncConverges`: the timer of a socket that stays open fires every 8
seconds, reads and sends are made, and handlers come to an end. Nothing is assumed of clients, users, clocks or
crashes.

`QueuedIsServed` has a condition on the callers. A writer that waits behind sessions can
be passed by others compatible with them, further sessions included; if two kinds of
session could take turns, each admitted while the other runs, the writer would wait for
ever. In the instance no two sessions can start beside each other.

Disagreements between code and documents. Each violation run checks one sentence of
the repository against the code; `PROJECT.json` quotes it under `findings`.
More were met that no run keeps. Of two concurrent continue requests the loser fails
although there is a continuation, and since `continueRun` looks for a continuation and
then inserts one, the previous run gets two if the first ends in between. `stop` writes
back the phase and the checkpoint it read before its transaction
(`run.service.ts:165`; the phase is in the model). `ensureAccount` mirrors the row it read before its transaction
(`credits.service.ts:51`), so the mirror may fall behind a usage commit until the
account changes again, and resets with the plan it read (`credits.service.ts:47`). With
`halfOpenMaxProbes` at one, two probes of a breaker can run: a probe that is still
under way when another failure reopens the breaker is not counted in the next half-open
period, and may free a slot of that period when it ends. The supervisor answers a request that joins a pending start with the
runtime of the other request's slug (`workspace_supervisor.ts:96`), and registers a
runtime before it accepts connections. It starts a new child while one that was told to
stop has not exited, so the two may be at the same data directory for a while. The reserve of a merchant is
checked when a disbursement is requested and not when it is confirmed, so two requests
together may go below it. A handler that dies between the credit row and the stamp
leaves an order without its merchant amount for ever. "Idempotency — already credited"
(`payment.service.ts:885`) holds for reports to one handler at a time; webhook and success
page together may write two credit rows and increment the balance twice. The webhook
credits on its body's word (`payment.service.ts:861`), without asking whether Moolre holds
the money. "Money has now moved" (`payment.service.ts:1549`) is not certain: a 2xx answer
that cannot be parsed counts as a success (`moolre.service.ts:449`).

## 4. The proofs

The modules named `...Proofs` hold machine-checked proofs for all values of the
constants under the assumptions named in the component modules. Every safety invariant
and every action property that a passing run checks is proved, and so are the three
refinements;
what remains to TLC is liveness.

The assumptions say that identifiers are distinct from their null values, that bounds are
naturals, that there is an allowance per plan, and that what a property counts or sums
over is finite: the calls of an account, the operations of a breaker or of an app, the
orders, disbursements and handlers of a store. A database and a process hold finitely
many of each, however many; nothing else is assumed of their number.

Facts over data that would be shown by induction (a sum over orders, the first of the
operations in a queue, a set of exactly the first few numbers) are shown by a least
counterexample: the finite subsets of a finite set are well-founded, and `WFMin` of the
library, which has no operator parameter, yields a least one. The modules
that need one have it as a lemma (`LeastSubset`, `LeastNumber`).

* **RunServiceProofs.** `TypeCorrect`, `OneActiveRunHolds`, `LogContiguousHolds`,
  `InterruptedInPhaseHolds`, `ReapsOnlyExpiredHolds`, `InterruptedOnceHolds`,
  `KeyNamesOneRunHolds`. The inductive invariant adds that a run not yet inserted has no
  log, and that a sweep's cutoff lies at least a lease in the past: the claim checks the
  heartbeat against the cutoff, not the clock. `InterruptedOnce` adds that a run in a state with
  a lease has resumed since its last interruption, with the new event numbered beyond all
  others (`ResumedSince`). `InterruptedInPhase` adds that a listed run which can still be
  claimed is in the phase the sweep saw (`SeenIsCurrent`): every write of a phase renews
  the lease or, in `stop`, leaves the states that have one. `KeyNamesOneRun` adds that
  rows with one key are one row, that a continuation is of its previous run's project,
  and that a call about to insert, or answered, knows its project and key. `SweepCanList`:
  whenever some run is stale there is a batch that `Oldest` allows (under the hypothesis
  that there are finitely many runs), so the fairness of `LostRunIsReaped` never asks for
  an impossible step; the batch is built from the run that was quiet longest.
* **RunFeedProofs.** `TypeCorrect`, `NoEventMissedHolds`, `CompletionAnnouncedHolds`,
  and `ImplementsFeedHolds`, the refinement of EventFeed. The invariant says that what
  the subscriber holds is `1..k` for some `k`, that the cursor, every poll's starting
  point and the last id lie at or below `k`, and that a batch is an interval that starts
  right after its poll's starting point: so a poll that moves the cursor back only repeats.
* **CreditsProofs.** `TypeCorrect` (no balance is ever negative),
  `SpendsOnlyGrantedHolds`, `UsageBookedHolds`, `HeldIsReservedHolds`,
  `DriftsOnlyInStaleResetHolds`. The invariant follows the books: what is held according
  to the ledger stays the difference of the other columns. For `HeldIsReserved` the
  reserved credits are a set with one element per credit of each open reservation; a
  reservation adds as many elements as it takes from the balance, a settlement or a
  release removes them, and no other call touches them.
* **MerchantLedgerProofs.** `TypeCorrect`, `PayoutBackedHolds`,
  `SerialCreditIsExactHolds`, `LedgerCoversHolds`, `SerialConfirmIsExactHolds`. The
  invariant adds what each handler has behind it at its step: one about to persist or
  commit was answered success for its disbursement, one about to mark orders has its debit
  row, one about to stamp has its credit row. For a disbursement that no two handlers
  confirmed at a time it adds that at most one is at its row, at a step its status allows,
  and counts transfers and debits there; for an order that no two handlers were at at a
  time, that there is no credit row from the search to the write of one, so that each
  handler that finds none writes the first. `LedgerCovers` needs a stronger statement, since a credit is two
  statements (the balance, then the row): the balance covers the credit rows less the
  debit rows *plus what the handlers between the two have in hand*, and equals that while
  there was no fault; it also needs that amounts do not change and rows are written where
  there is none. The sums are over functions on the orders, disbursements and handlers,
  which the lemmas on `Sum` take one change at a time.
* **GatewayProofs** is about the supervisor and the breaker. `TypeCorrect`,
  `NoOrphanHolds`, `OneWorkingChildHolds`, `StartsAnswerServingHolds`: the invariant adds
  that entries name spawned children of their workspace, that whoever is in a start owns
  the pending entry of its workspace and the only working child there, and that, before
  the shutdown, nothing has killed the child of a start that still waits for it.
  `BreakerTypeCorrect`, `NoSlotLeaksHolds` and `OpensOnEvidenceHolds`: the probes under
  way are counted as a finite set, and each failure counts once because the operation it
  is kept with is over, so as many failures are as many operations.
* **AppOperationsProofs.** `TypeCorrect`, `OwnersStayCompatible` (implied by the
  refinement, which is why no run checks it), `DeletionIsAlone`, `UnsafeIsFenced`,
  `OvertakesOnlySessions`, `NobodyIsForgotten`, `WaitersHaveAnOwner`,
  `PassHasOneOutcome`, `ImplementsLocksHolds`. The invariant adds that `ahead` is a total,
  transitive order of the queued operations, which is what makes the set a pump admits
  free of conflicts: of two that it admits, one saw the other. `OvertakesOnlySessions` takes
  the first operation of the pass that overtakes, and finds whoever holds the overtaken one
  up among those before it. `NobodyIsForgotten` is that no second pass is needed: the
  code passes over the queue once, yet an operation admitted late adds to what may excuse
  passing an earlier one; whoever it excuses was excused before it, since the first late
  operation had to find its own excuse among the earlier ones. It needs that an operation
  that has not run has released nothing. `WaitersHaveAnOwner` follows: the first in the
  queue would start if nobody were at work. `PassHasOneOutcome` shows that the fixpoint
  that stands for the walk over the queue (`Ready`) exists and is unique. `ImplementsLocks`
  maps every call to one that returns locks, fences or lifts, with what the pump grants
  then. All of it holds for every assignment of claims, sessions and droppable sets.
* **AdmissionGateProofs.** `TypeCorrect`, `SealedIsQuietHolds`, `AuthorityEndsHolds`,
  `ReportsUntilAbortedHolds`, `ImplementsGateHolds`. The invariant says that a fence tracks
  exactly what is active on its key until the gate is disposed, and orders the generations:
  none in use has reached `next`, no work is ahead of its key, and as long as a fence is not
  sealed both the key's generation and the one fenced off are newer than the last
  that was. For the refinement of WorkGate the same order shows that a fence that goes up
  takes no grant away, that one that opens leaves none, and that nothing but a capture
  makes one: a dropped entry gets back a generation it never left.
* **FileSyncProofs.** `TypeCorrect`, `OneSyncHolds` (of all handlers at most one has a
  gateway waiting for it, stated by no run), `SavedIsRecordedHolds`, `NoRollbackHolds`.
  Without faults one handler runs at a time, and what it has changed and not yet recorded
  accounts for every difference between rows, announcements and snapshots. For
  `NoRollback`, what a session that is not overtaken has read, sends or has given to a
  handler is at least as new as the rows and as everything under way.

Only model-checked: the liveness properties (`ReservationCloses`, `SealEnds`,
`QueuedIsServed`, `DrainEnds`, `LostRunIsReaped`, `EventDelivered`, `WaitersAnswered`,
`SyncConverges`), since the prover handles neither fairness nor `ENABLED`. What they rest
on is proved where it is a matter of safety: a sweep can always list, an operation that
waits has an owner whose end calls pump, and what a seal tracks is what is active.

## 5. What is not modelled, and the plan

Left out for good: rendering, prompts and their assembly, providers' behaviour beyond
answer, failure and delay, file formats, administration endpoints that are one
statement, the scaffold and the benchmarks. By lines these are most of the repository:
the frontend's pages, the engine's handlers and tools, and the end-to-end tests. Lost
acknowledgements of a commit are not modelled: a transaction's outcome is known to its
caller.

Next, in this order:

1. Payments over Paystack, the legacy provider: `processed` events, orders created by
   a webhook; an abstract ledger that the interleaved one refines when it is serial.
2. The transaction runtime of the builder engine (`core/src/state_machines/dispatcher.ts`),
   its operation registry and the queues on it; then the machine-wide fence of the
   admission gate and the two halves of an actor's construction.
3. Sessions: refresh token rotation, one-time codes, scheduled mail.
4. The repair loop of the gateway, and the retries and fallbacks of model requests.
5. AppOperations and AdmissionGate composed with the deletion of an app that uses both.
6. More refinements: an account that grants, holds and spends, which Credits implements,
   and a table of one start per workspace for the supervisor.

## 6. Running it

```
tlc -config RunService_log.cfg MCRunService.tla
tlapm RunServiceProofs.tla
```
