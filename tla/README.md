# Lunora in TLA+

TLA+ models of the parts of Lunora where steps of several actors, lost calls,
crashes and clocks meet: what they promise, what TLC checks on small instances
and what TLAPS proves for every value of the constants. Paths below are relative
to `src/packages/` of the repository unless they start with `src/`.

## 1. The system

Lunora is a reactive backend on Cloudflare Durable Objects (DOs). A browser
client talks to a Worker, the Worker routes every call to a *shard* (one DO per
shard key, with an SQLite store), and helper DOs and services hang off both.

| Component | State it keeps | Operations | Interacts with |
|---|---|---|---|
| Job scheduler, `scheduler/src/scheduler-do.ts` | rows `id:` (header), `t:` (time index), `dead:`, `done:`, `dt:` (history index), `repair:`, `pool:`, the flags `CLEAN_KEY` and `PAUSE_KEY`, one storage alarm; in memory the open leases, the dirty mark, the pool lock | `/schedule`, `/cancel`, `/dead/retry`, `/dead/cancel`, `/complete`, `/pause`, lists and status; `alarm()` with its drain | posts a due job to the Worker and awaits the answer; the Worker posts `/complete` back |
| Cron run leases, `scheduler/src/scheduler-do.ts` + `runtime/src/cron-runs.ts` | one lease row `cl:` per cron, one row `cr:` per run | `/cron/begin`, `/cron/renew`, `/cron/end`, `/cron/runs` | the Worker's scheduled handler takes, renews and ends the lease around a run |
| Scheduled-dispatch receiver, `runtime/src/create-worker.ts` | none | `handleSchedulerDispatch`, `releasePoolSlot` | runs the job on its shard, then calls `/complete` |
| Shard dispatch, `do/src/shard-do.ts`, `do/src/in-flight-claims.ts`, `shard-engine/src/ctx-db-idempotency.ts`, `ctx-db-client-watermark.ts` | receipts (`__idempotency`), watermarks (`__client_watermark`), in memory the claims of running actions and the fields that describe the current request | the RPC of a mutation, an action, a custom-mutator push: deduplicate, run, record, answer | called by the Worker for clients (single calls, batches) and for the scheduler; serialized by the host's gate or lock |
| Shard engine, `shard-engine/src` | change log, subscription shapes, relay fan-out, reactive cache, schedule outbox | append, resume, deliver, fan out, flush | inside each shard |
| Client writes, `client/src/lunora-client.ts`, `client/src/offline-queue.ts` | the offline queue and its durable mirror, the chain of replay passes, retry timers, attempt counts | send, enqueue, drain, replay in batches, settle, put back, hydrate, discard | HTTP to the shard, WebSocket for the link's state, the browser's durable storage |
| Client reads, `client/src` | optimistic layers, tab leadership, live streams | layer, confirm, roll back, elect, resume | WebSocket |
| Replica and mirror, `replica/src` | event log, local mirror | append, rebase | client and shard |
| Rate limiter, `ratelimit/src` | one counter row per key | take, check | called from handlers |
| Queue, workflow, dispatch runner, agent, container | rows in external services | batch settlement, fan-out, retries | Cloudflare Queues, Workflows |
| Platform hosts, `platform-*/src` | the storage and alarm of a DO on node, celld, Cloudflare | input gate, alarms, storage | host every DO |
| The rest: SQL store, codegen, CLI, config, studio, UI adapters, auth, payment, mail | mostly per request | | |

### What is hard here

* **Crashes between two writes.** A Durable Object may be evicted at any `await`.
  The drain of the scheduler deletes a claim row, writes a lease row, dispatches,
  writes an outcome and deletes the pending rows: five windows, each with its
  own recovery (orphan walk, lease horizon, repair row, dead letter first).
* **Requests that land while a dispatch is open.** The input gate holds events back
  during storage operations but not during an outbound fetch, so `/cancel`,
  `/schedule` under the same id, `/pause` and `/complete` interleave with every
  open dispatch, and a second lane of the same drain may be waiting behind it.
* **Answers that do not arrive.** The handler may have run although the dispatch
  failed; `/complete` may be lost; a repeat may meet its own first delivery.
* **One alarm for many rows.** It is moved earlier by requests, deleted when fired,
  recomputed at the end of a drain, kept as it is by a pause: a mistake strands jobs.
* **The same call many times.** Clients, the scheduler and batches resend what was not
  answered; deliveries overlap, arrive after a restart, after the receipt was collected,
  or while a first delivery still runs, and the fields that hold "the current request"
  belong to whichever dispatch wrote them last.
* **Order across two paths.** A live write, a queued one, one that is out for replay
  and one restored after a reload share a shard but not a path to it.
* **Storage operations that reject.** Some of them are swallowed by design.
* **Numbers.** Attempt counts saturate, delays double until they pass the largest
  time the index can represent.

What would make each component correct:

* scheduler: an accepted job leaves the store only by an outcome, a cancel or a
  dead letter, and does leave it; it is not sent before its time, while paused,
  after a cancel, after it settled, or twice within a lease; outcomes are true
  and belong to the right job; at most `maxConcurrency` jobs of a pool run, and
  slots come back;
* cron leases: two guarded runs of a cron do not overlap, each run gets one outcome;
* shard dispatch: a repeat of a mutation or a push runs nothing and answers the same,
  an action is run again only after its run was lost, receipts and watermark are true;
* client: a write takes effect once and its caller hears the truth, it is in the queue
  and in storage until it is settled, nothing overtakes it, and it settles;
* shard engine: a resumed subscription sees every change once and in order, the
  outbox delivers what was committed; rate limiter: never more than the limit in any window.

## 2. Modules

| Module | What it models | Lines of the code |
|---|---|---|
| `SchedulerDO` | the life of a job: requests, alarm, drain, recovery, the pool, the receiver as the scheduler sees it | `scheduler/src/scheduler-do.ts` 436-613, 632-3000 without the cron handlers; `runtime/src/create-worker.ts` 4044-4222 |
| `MCSchedulerDO` | its TLC instances | |
| `SchedulerDOProofs` | type correctness of `SchedulerDO`; a cancel and a pause hold | |
| `SchedulerDOStore` | what its rows say of each other, of the clock and of what ran, under any crashes, faults and losses | |
| `SchedulerDOCalm` | what it keeps in addition where no instance is lost, no write is rejected, or no call fails | |
| `LeastElement` | a non-empty set of naturals has a least element, for the proofs about `SchedulerDO` and `OfflineReplay` | |
| `CronRuns` | the no-overlap lease of one cron job, both halves | `scheduler/src/scheduler-do.ts` 2479-2708, `runtime/src/cron-runs.ts`, `create-worker.ts` 3951-4042 |
| `MCCronRuns` | its TLC instances | |
| `CronRunsProofs` | type correctness, accounting, exclusion, release and honest reconciliation of `CronRuns` | |
| `WriteOnce` | what a shard promises about writes that are sent again and again: the abstract specification of the next two | |
| `ShardDispatch` | the RPC dispatch of one shard: receipts, claims, watermark, the shared request fields, on both hosts | `do/src/shard-do.ts` 4665-4760, 5868-6349, 9084-9606, 9720-9766, 16985-17123; `in-flight-claims.ts`, `ctx-db-idempotency.ts`, `ctx-db-client-watermark.ts`; `platform-node/src/node-shard-host.ts` 696-815, `platform-cloudflare/src/cloudflare-host.ts` 161-185 |
| `MCShardDispatch` | its TLC instances | |
| `ShardDispatchProofs` | eight theorems about `ShardDispatch`, among them that it implements `WriteOnce` | |
| `OfflineReplay` | a mutation's way through the client: direct send, offline queue, durable mirror, replay, reload | `client/src/offline-queue.ts`, `client/src/lunora-client.ts` 4465-5015, 9396-9690, 9765-10530; `shard-do.ts` 11128-11180 |
| `MCOfflineReplay` | its TLC instances | |
| `OfflineReplayProofs` | a direct send overtakes nothing; queue, batches and durable records agree | |
| `OfflineReplayPromise` | the client and its shard implement `WriteOnce` end to end; type correctness of `OfflineReplay` | |

How they compose. `SchedulerDO` contains the receiver of its dispatches as the scheduler
sees it. Between a client's write and its effect stand two modules and one interface:

    app  ->  OfflineReplay  ->  WriteOnce  <-  ShardDispatch
            (uses its Apply)                (implements it, proved)

`OfflineReplay` does not repeat the shard: its shard *is* `WriteOnce` with the ids of the
writes (`Shard == INSTANCE WriteOnce`), whose `Apply` and closed ids are all a client
can observe. `ShardDispatch` implements `WriteOnce` for its mutations and pushes
(`KeepsPromise`), so what `OfflineReplay` assumes of the shard is what the dispatch does.
And `OfflineReplay` in turn implements `WriteOnce` end to end (`WritesOnce`), with the
app's writes in place of ids: a write that is sent directly, replayed, sent again after a
reload and delivered late is applied once.

### SchedulerDO: how the model corresponds to the code

*Rows.* `header` is the `id:` row together with the `pq:` and `retry:` rows that are
always written and deleted with it, `index` the `t:` rows, `dead`, `done`, `history`,
`repair`, `pool` the rows of the same prefix. A row keeps what the code decides on:
`n` (which of the jobs of an id it belongs to, for everything that `enqueuedAt`, args
and target tell apart), the time, the attempt count, the outcome. An absent row has
`n = 0`. `clean`, `paused` and `alarm` are `CLEAN_KEY`, `PAUSE_KEY` and the storage
alarm. Everything else the instance knows is lost by `Crash`: `dirty`, the drain
(`pass`) and its lanes.

*Lanes.* `lane[j]` is `drainRecordGuarded` working on the record of id `j`; its `pc`
names the `await` it stands at:

| `pc` | Where | Left by |
|---|---|---|
| `queued` | collected by `alarm`, waiting for one of the `Lanes` workers of `drainDue` | `ClaimGone`, `ClaimSkipped`, `Claim` |
| `unindexed` | claim row deleted, lease row not yet put | `PutLease` |
| `leased` | lease row put | `Reserve`, `Refuse`, `Sent` |
| `refused` | the pool is full | `requeuePooled` |
| `reserved` | slot taken | `Sent` |
| `sent` | `dispatch` awaits the worker, the input gate is open | `Answer` |
| `answered`, `released` | slot given back after a failed kick | `ReleaseSlot`; `CancelledSettles`, `RecordOutcome`, `OutcomeRefused`, `recordRetry`, `parkDead` |
| `clearing`, `parked` | outcome or dead letter written, pending rows still there | `Clear`, `ClearRefused` |
| `unleasing` | the tail that deletes the lease row | `Unlease` |
| `failing` | the catch block | `Catch` |

*Atomicity.* A Durable Object's input gate holds events back while a storage operation
is in flight and lets them in during an outbound fetch. So a request handler is one
action, guarded by `GateOpen`, and its twins (`...Cut`, `PoolCapCut`, `DeadRetryLate`) are the
same handler stopped between two of its writes (`Stopped`): the instance dies there, or the next
operation rejects, the caller gets an error and the instance lives on. Within a drain every
storage write, or every group of writes issued together, is an action of its own, because
sibling lanes interleave there and a crash may fall between any two. `now` does not move
inside a run of storage operations.

*Faults.* `MaxCrashes` bounds lost instances, `MaxLosses` failed HTTP calls (a dispatch that
never arrives, a connection that breaks while the handler runs, a lost `/complete`) and
`MaxFaults` rejected storage operations. A rejected operation has a branch wherever it leaves
something changed:

| Where | What is left | Action |
|---|---|---|
| `/schedule`, `/dead/retry` after the rows, before the alarm | rows without an alarm, or with a late one | `ScheduleCut`, `DeadRetryCut` |
| `/schedule` after the pool's cap, `/dead/retry` after the old outcome row | the cap; no `failed` row | `PoolCapCut`, `DeadRetryLate` |
| `/cancel`: the delete of the job's rows | the lane of an open dispatch is marked cancelled already; without one, nothing | `CancelRefused` |
| `/cancel`: the outcome row; the clock | a cancel without an outcome; an alarm that is too early | `writeCanceled`; `CancelUnclocked` |
| `/dead/cancel`, `/pause`, resume after the first write | that write | `DeadCancelCut`, `PauseCut`, `ResumeCut` |
| `/complete` after the slot | a free slot, the drain not re-armed | `CompleteUnarmed` |
| `alarm()` before the drain, or its re-arming | the claims stand, the platform delivers again or does not | `AlarmRefused` |
| the delete of `CLEAN_KEY` | no drain, no sweep | `AlarmIdle` |
| the re-arming or `CLEAN_KEY` after the drain | no alarm for the rows; a store that is not vouched for | `EndRefused` |
| a lane's own writes | per write: swallowed (`OutcomeRefused`, `ClearRefused`, `Unlease`) or thrown (`LaneFault`), and then those of the catch block (`Catch`) | |
| the recovery | counts as a lost instance: the next start begins again | `BootCut` |

Left out are a rejected sweep of old outcomes, which the next sweep makes good, and rejected
reads of requests that have not written yet, which change nothing.

*The receiver.* `running`, `calls` and the four `Send...` actions stand for
`handleSchedulerDispatch` and the shard behind it: a handler runs at most once per
record id at a time, a repeat of an answered id is answered from the recorded result,
a repeat of a running one is declined, and the slot is released by `/complete` before
the response. Shard-side retention of results is not modelled (a result, once
recorded, stays).

*History variables* only record what happened for the properties to speak about; no guard
reads them, with one exception: `Answered` reads `ranOk`, which there stands for the shard's
recorded results. `told` are the jobs whose rows `/cancel` removed. `settled` are those whose
2xx a lane has read or whose dead letter is written; a job leaves it when it is revived, and when
the instance is lost before the lane has removed the pending rows: from then on it is
`open` that speaks of it, the last dispatch not known to be settled (section 6, "Crash after the
answer"). `charged` counts the failed attempts of a job. `unarmed` says that the write
that arms the alarm was refused and the alarm has not been computed from the rows since;
`unremoved` names the jobs whose removal by `/cancel` was refused while their dispatch was open.

### CronRuns

`lease` is the `cl:` row as the run that holds it and the *age* of its newest sign of
life; ages and countdowns replace `Date.now`, which makes the state space finite
without a clock. `worker[w]` is an isolate inside `beginCronRun` / `keepLeaseAlive` /
`endCronRun`: `granted` (the answer is on its way), `running` (interval timer set),
`lapsed` (a renewal was refused, the timer is stopped, the job runs on), `unguarded`
(the begin call failed and the code runs the job anyway), `succeeded`/`failed` (about
to report). A call that fails is an action in both variants, served and not served.

Row texts, error messages and the number of skipped ticks in a streak row are left
out; a streak is modelled by not adding a row. Two rows with the same millisecond in
their key are kept in the order they were written.

### WriteOnce

A write is *open* until it is applied, and closed by that very step; success is told only
of writes that were applied; a closed write reopens only when the retention of its
receipt has passed, for those whose receipt may grow that old (`Forgettable`).

### ShardDispatch

*Slots.* `pc[d]` is one call of `handleFetchCloudflare` on the instance:

| `pc` | Where | Left by |
|---|---|---|
| `begun` | `beginDispatch` has written the fields, the push is classified; the module may have to load (`prepareFunction`) | `EnterGated`; for an action `EnterCached`, `EnterDeclined`, `EnterClaims` |
| `queued` | waiting in `runSerialized` | `AdmitCached`, `AdmitRuns` |
| `running` | the handler inside the transaction | `Commit`, `Throws` |
| `acting` | the handler of an action, outside any gate | `Acts`, `Throws` |
| `ran` | back from the handler, before the tail | `Tail` |
| `cached` | the receipt was found | `respondFromIdempotencyCache` |
| `flush` | `flushChangedTables`, then the answer and the `finally` | `End` |

*The shared fields.* `scope` is the slot that `currentRequest*` describe, `stamp` is
`mutationBookkeeping`. `beginDispatch` of any slot overwrites both, `endDispatch` clears
both; `Pinned` is the re-pin by `restoreRequestScope`. Its mutant, which leaves the
fields as they are, files receipts and answers under other calls.

*The host.* `Host = "gate"` is Cloudflare: while a handler holds the gate no other event
is delivered, and a request that came in runs up to the gate before the next event
(`Delivered`). `Host = "lock"` is the Node host: other dispatches run on, but their SQL
is refused while a transaction is open (`Refused`, `assertOwnTurn`); a refused
receipt read counts as a miss and a refused watermark read as a missing table, as the
code's catch blocks have it. The gate is taken at its word: under it, an action that is under way
takes no step while another request is between arrival and commit. The comment at
`shard-do.ts:6267` allows for an action that resumes inside an open transaction; that
interleaving is explored with the lock only.

*Abstractions.* One identity; one client that pushes. A push carries no mutation id,
as `callMutator` sends none. Loading the module is always a possible gap. The delivery
fence is off (its default). Receipt inserts do not fail under the gate. A receipt
passes its retention, a day, only while no request of its call is in hand. `Restart`
stands for eviction and crash; it loses all slots and claims and keeps the storage.
`MaxRuns` stops an action or a push that ran often from coming again.

### OfflineReplay

*Writes.* `pc[w]` is the state of a write: `new`, `waiting` (for the replay passes that
were pending when it was issued, `ahead`), `sent`, `landed` (applied, answer on its way),
`queued`, `done`; after a reload `stored` or `gone`. `items` is `OfflineQueue.items`, with
each entry's provenance (`live`, `ambiguous`, `restored`), which decides whether it has an
issue number, a precondition and a limit of attempts. `chunk`, `slots` and `rest` are the
batch on the wire, the verdicts the shard has reached, and the drained entries behind it.
`unsettled`, `appending`, `removing`, `unpersisted` are the queue's sets of the same
purpose, `store` the durable records in the order in which they landed.

*Atomicity.* One action is one run of the page's event loop. Whoever waited for a pass
goes on before anything else (`Resume`, `Ready = {}`). A pass is: `DrainHolds`, or
`DrainSends`, then one `ShardTakes` per entry, then `Reply`, once per chunk.

*The shard.* `ShardTakes` runs the entries of a batch one by one, as `handleBatchRpc`
does; a request that timed out goes to `stray` and may be applied later, also in a later
session (`StrayLands`).

*Faults*, bounded together by `MaxFaults`: the link drops, a batch or an answer in it
is lost, the shard asks for a retry, the whole batch is refused, an append fails, the
token is refreshed before its subject is known. A reload (`MaxReloads`) and a direct
send that times out are not bounded by it.

*Abstractions.* One shard key, one tab, no outbox sink; one identity, which may be
unresolved; a batch is any prefix up to `MaxBatch`, which covers both the cap on entries
and the halving of bodies that are too long; the backoff of the retry timer is its being
set or not. `Takeover = FALSE` says that the durable queue is restored before the socket
opens, the order of a page's boot with a storage that answers quickly; `FindHydrate`
drops it. The shard never forgets a receipt (`Forgettable <- {}`): the code trims receipts
after 24 hours, on the assumption that no client retries later (`ctx-db-idempotency.ts:79-82`),
and the durable queue puts no age limit on its records, so a write that stayed in storage for
longer is outside the model and outside `WritesOnce`. `ShardDispatch` does age receipts.
The gate that decides whether a failed direct send is queued is read before the send; the model
does not remember it and takes both outcomes for possible where they may differ (`DirectFails`,
`QueueEarly = FALSE` only).

## 3. Runs

`Spec` is the safety specification; `FairSpec` adds the fairness below. Distinct
states are of the run as configured.

| Run | Setting | Shows |
|---|---|---|
| `JobFaults` | one pooled id, one job, one crash, one storage fault, one lost call, clock to 6 (779k states) | `CleanMeansIndexed`, `ClockRuns`, `SucceededRan`, `NeverVanishes`, `CancelHolds`, `NeverRefireSettled` |
| `JobLive` | one id used for two jobs, one crash, one lost call, fair (491k) | `OutcomeIsOwn`, `NoEarlyRefire`, `PendingSettles` |
| `JobCalm` | two ids on one lane, one `forever`, one lost call (445k) | `TypeOK`, `DeadOnlyWhenSpent`, `ClockPunctual`, `NotBeforeDue`, `NoSendWhilePaused` |
| `PoolCalm` | two ids of a pool of one slot on two lanes, no fault, fair (131k) | `PoolBounded`, `SlotHeld`, `HistoryIndexed`, `CanceledNeverRan`, `SlotReleased` |
| `CronLease` | two isolates, two runs, two lost calls, one cut handler, two pause changes, fair (187k) | `TypeOK`, `RunAccounted`, `NoOverlap`, `HolderOnly`, `LostOnlyUnreported`, `DeadLeaseGoes` |
| `ShardGate` | one mutation, one action whose receipt may age, two pushes, three requests in hand, one restart, one claim past its ceiling (827k) | `TypeOK`, `MutationOnce`, `ReceiptsTrue`, `WatermarkExact`, `ActionSparse`, `ActionAlone`, `AnswerOwn`, `KeepsPromise` |
| `ShardLive` | the same with one push and two requests in hand, fair | `EveryCallHeard` |
| `ClientReplay` | two writes, the first guarded by a snapshot, a queue of one, batches of two, one reload, one fault (342k) | `TypeOK`, `Backed`, `StoreExact`, `WritesOnce`, `LiveBehindQueue` |
| `ClientLive` | two writes, queue of two, one reload, direct sends that time out, fair (58k) | `QueuedSettles` |
| `FindNode`, `FindHydrate`, `FindLanded` | smallest instance of each | the disagreements of section 6 |

A property stands in the run with the faults under which the code keeps it. Some
are stated without a crash or without a storage fault on purpose; section 6 says
what happens otherwise.

### Bounds, and why they are enough

* `Id` of one or two: handlers touch one id; two are needed for lanes, pool and clock
  to be shared, and nothing in the code compares three.
* `Lease = 3`, `TickStep = 2`, `Backoff = Backpressure = RetryBase = 2`, `Retention = 4`:
  small, but in the order of the code (a backoff is shorter than a lease, the lease
  shorter than the retention), with a lease that ends *between* two ticks as well as a
  retention that ends *on* one. An odd lease also keeps every backoff from ending exactly
  at the lease horizon; section 6 says what happens when one does (`Lease = 4`). `Dues = {0, 2}` gives a job that is due at once and one
  that is not; `MaxClock = 6` lets a job fail, back off, fail again and be parked, and a
  lease of a dead instance lapse and be taken again.
* `Retries = 1`, `AttemptCap = 2`: first attempt, one retry, park; and the saturation
  of the count is reached by the `forever` id of `JobCalm`.
* `Caps = {1}`, pool of one slot: the smallest pool in which a slot is contended.
* One crash, one fault, one lost call *together* is where the recovery paths meet; two
  crashes of the same job without a fault repeat the first with a later clock.
* `JobLive` needs room for the whole ladder after `Horizon`: lease, retry, lease, park.
  `Prompt = TRUE` there: the clock waits until nothing can be done now. Without it the
  bounded clock may run out before the platform did anything, and every liveness
  property is refuted by the bound and not by the code.
* `CronLease`: `Renew = 2`, `Lease = 6`, `Latency = 1` keep the code's ratio of a third
  (5 and 15 minutes) with an answer that is not instantaneous; two runs on two isolates
  give a successor, a late report and a reconciliation; the history limit of 4 is
  reached by skips and runs together, and two changes of the pause flag are the most with
  which it keeps the row of a reported run.

* `ShardGate`: three requests let a third delivery meet two that overlap, the shape of a
  claim's take-over; two pushes make a gap possible; one restart separates a commit from
  its answer. Slots are interchangeable, hence the symmetry. `ShardLive` has two slots and
  no symmetry, which would be unsound for liveness.
* `ClientReplay`: two writes are what order and overtaking need; the queue holds one so that
  evictions happen, and batches of two still occur because a requeue does not evict.
  `MaxAttempts = 1` (5 in the code) reaches the limit with one fault. `ClientLive` has room
  for two, with `MaxAttempts = 2`, and needs no fault: lost direct sends and a reload are
  the ways into the queue.

The deadlock check is off in the runs of the scheduler, the leases and the client: a bounded clock and bounded counters do stop.

### Fairness, and why the code justifies it

`SchedulerDO`: weak fairness of `Boot` while an alarm is due, `Alarm`, `Tick`, the lane of each
id, `handleComplete` and the end of each running handler. The platform delivers a due
alarm and starts an instance for it, and continues a handler whose `await` resolved; time
passes; a handler ends because its execution is bounded by the platform. Not fair:
any request of a caller, a start without an alarm, resuming a pause, the crash, the faults and
the losses. `PendingSettles` therefore asks only about behaviours that are not paused for ever,
and in which an instance is up or an alarm is set again and again: where an instance was lost
and took the last alarm along (before `/schedule` armed it, or because the platform did not
deliver the alarm of a lost drain again), the jobs wait for the next request, whoever sends it.

`CronRuns`: weak fairness of time, of answers, timers, the end of a job, its report,
and of *some* isolate's tick that takes the lease (cron triggers keep coming). The
death of an isolate and lost calls are never fair.

`ShardDispatch`: strong fairness of each request in hand (events of an object are
delivered in order, so none is passed over for ever, although the gate closes again and
again), of each call's being sent again (clients and scheduler retry what was not
answered), and of its handler's not throwing every time. Not fair: restarts, throws,
passing of ceilings and retentions.

`OfflineReplay`: weak fairness of the event loop, of the shard's answering a batch and of
direct sends, whose deadline ends them otherwise (`withinRpcDeadline`); strong fairness of
timers, of the armed reconnect, of answered snapshots and of the session's resolving,
because the bound `MaxPasses` disables them for a while. Not fair: faults, reloads,
time-outs, the landing of stray requests, `PageHides`.

## 4. What is proved

All proofs are for every value of the constants that satisfies the assumptions of the
module: any set of ids, isolates or calls, any number of lanes or requests in hand,
crashes, faults and losses, any delays. Where a theorem has a hypothesis of its own, the
table states it: it is what the argument uses, and where a counterexample without it is
known, section 6 has it under the quoted title. `CronRuns` assumes in addition `2 * Renew +
Latency < Lease`: in the code 10 minutes and the delay of one answer, against 15.

| Theorem | Says | Argument |
|---|---|---|
| `SchedulerDOProofs!TypeCorrect` | `Spec => []TypeOK` | inductive as it stands; per action and per group of variables. The least element of a set of times (`LeastElement!LeastExists`) and the alarm's value (`EarliestTyped`) are lemmas |
| `SchedulerDOProofs!CancelIsFinal` | `Spec => CancelHolds` | the invariant below |
| `SchedulerDOProofs!PauseHolds` | `Spec => NoSendWhilePaused` | the invariant below |
| `SchedulerDOStore!ClockKeepsRunning` | `Spec => []ClockRuns`: an instance at rest with rows has an alarm, unless the write that arms it was refused since the alarm was last computed ("Refused arming") | every write of an index row moves the alarm, and while a drain is on its lanes are the rows in question (`Draining`) |
| `SchedulerDOStore!OutcomesAreOwn` | `Spec => []OutcomeIsOwn` | `SameJob` below |
| `SchedulerDOStore!NothingVanishes` | `Spec => [][Kept]_vars`: a pending job goes only with a cancel, a success of its id or its own dead letter | `Truth`, `Accounts` below |
| `SchedulerDOStore!SuccessesRan` | `MaxJobs = 1 /\ Spec => []SucceededRan` | the same; false with reused ids ("Reused ids") |
| `SchedulerDOStore!NoJobVanishes` | `MaxJobs = 1 /\ Spec => NeverVanishes` | from `NothingVanishes`: with one job per id the success is its own |
| `SchedulerDOStore!CleanStore` | `Spec /\ []Apart => []CleanMeansIndexed`: the vouched store has no unindexed header but those of `unremoved` ("Refused cancel") | `Covered` below; `Apart` excludes the "Key collision", and TLC finds it always true of `JobFaults` |
| `SchedulerDOStore!HistoryComplete` | `Spec /\ []Distinct => []HistoryIndexed` | inductive with `SameJob`; "Twin instants" |
| `SchedulerDOCalm!SettledStays` | `MaxFaults = 0 /\ Spec => NeverRefireSettled`: from the read 2xx or the dead letter on a job is not sent, whatever requests, siblings and lost instances do, unless its own lane is lost before the rows are removed ("Crash after the answer") | until the rows are removed the lane holds the id (`Finishing`), afterwards no header has the job's number; "Refused cleanup" |
| `SchedulerDOCalm!ClockInTime` | `MaxCrashes = 0 /\ Spec => []ClockPunctual`, refused armings excepted as above | an instance that is up recomputes the alarm at the end of each drain; after a crash the alarm may stand later than a row until the instance boots |
| `SchedulerDOCalm!RunHoldsSlot` | `MaxCrashes = MaxLosses = 0`: `Spec => []SlotHeld` | `Slots` below; "Slot of a broken connection" |
| `SchedulerDOCalm!PoolKeepsCap` | the same with one cap for all enqueues: `Spec => []PoolBounded` | handlers inject into slots |
| `SchedulerDOCalm!HistoryCalm` | `MaxCrashes = MaxFaults = 0`: `Spec => []HistoryIndexed` | `Shape` below makes `Distinct` true |
| `SchedulerDOCalm!NothingEarly` | `MaxCrashes = MaxFaults = 0`: `Spec => NotBeforeDue` | `Keys` below; "Stale lease of a dead instance" |
| `SchedulerDOCalm!CanceledStays` | `MaxCrashes = MaxFaults = MaxLosses = 0`: `Spec => []CanceledNeverRan` | `Lates` below |
| `SchedulerDOCalm!DeadHaveSpent` | `MaxCrashes = MaxFaults = 0` and `Indexable`: `Spec => []DeadOnlyWhenSpent` | `Spending`; "Crash inside a park". `Indexable`: the clock's bound plus any delay can still be indexed |
| `CronRunsProofs!TypeCorrect` | `Spec => []TypeOK` with the bound on the history | with `KnownRows`: what a history row names is accounted for |
| `CronRunsProofs!NoRunVanishes` | `Spec => []RunAccounted` | record first, release second; a lease is only replaced after `recordLostCronRun` |
| `CronRunsProofs!LeaseExcludes` | `Spec => []NoOverlap` | a run that missed at most one renewal holds a lease young enough to be live |
| `CronRunsProofs!OnlyHolderReleases` | `Spec => HolderOnly` | case analysis over the steps that write the lease |
| `CronRunsProofs!LostAreUnreported` | `MaxPauses + 2 <= HistoryLimit /\ Spec => LostOnlyUnreported` | `Reach` below; "Pushed out" |
| `ShardDispatchProofs!TypeCorrect` | `Spec => []TypeOK` | first part of the invariant below |
| `ShardDispatchProofs!MutationsOnce` | `Spec => []MutationOnce`, either host | receipt and effect in one step |
| `ShardDispatchProofs!ReceiptsAreTrue` | `Spec => []ReceiptsTrue`, either host | re-pinned identity |
| `ShardDispatchProofs!AnswersAreOwn` | `Spec => []AnswerOwn`, either host | a result in hand is the call's own and effective |
| `ShardDispatchProofs!WatermarkIsExact` | `Host = "gate" /\ Spec => []WatermarkExact` | false for the lock: `FindNode` |
| `ShardDispatchProofs!ActionsAlone` | `Spec => []ActionAlone`, either host | a run that is not `late` holds the claim |
| `ShardDispatchProofs!ActionsSparse` | `Host = "gate" /\ Spec => []ActionSparse` | `Ledger` and `Thrift` below |
| `ShardDispatchProofs!Implements` | `Spec => KeepsPromise` | step simulation of `WriteOnce` from the invariant |
| `OfflineReplayProofs!NeverOvertakes` | `QueueEarly /\ Spec => LiveBehindQueue` | while anything is drained a pass is published, and whoever issues a write waits for it |
| `OfflineReplayProofs!RecordsOutlast` | `Spec => []Unremoved`: an unsettled write is not being removed | removal and settlement are one step |
| `OfflineReplayProofs!QueueIsBacked` | `Spec => []Backed` | `Memory` below |
| `OfflineReplayProofs!StoreIsExact` | `Spec => []StoreExact` | `Exact` below |
| `OfflineReplayPromise!OnceEndToEnd` | `Spec => WritesOnce`: the client implements `WriteOnce` for the app | `Counted` below; step simulation |
| `OfflineReplayPromise!TypeCorrect` | `Spec => []TypeOK`, with the limit of attempts | `Tries` below |

*Why `CancelHolds` needs an invariant.* It speaks of a step, but a send is safe
because of what happened since the claim. `Inv` of `SchedulerDOProofs` says: job
numbers only grow (`Numbered`); the header of no id is that of a cancelled job, and
neither is the record of a lane between claim and dispatch, nor that of a dispatched
lane that is not marked cancelled (`Untold`); and a lane between claim and dispatch
means the deployment is not paused (`Unpaused`). The second and third parts rest on
the input gate: `/cancel` and `/pause` find no lane between its claim and its dispatch.
`Untold` is what makes `recordRetry` and `requeuePooled`, which write a header back from
the lane's memory, harmless.

*Why the rows need one.* Each property of `SchedulerDOStore` compares two rows that
different handlers write at different times, so each needs to know who may write the other
one meanwhile. `SameJob`: a lane between claim and settlement serves the job of the header,
unless it is marked cancelled, and an outcome or dead letter beside a header is that of the
same job. It holds because `/schedule` refuses an id that is in use (`idConflict`) and drops the
outcome of an earlier job before it writes a header. `Truth`: a row, a repair row or a lane's reply
that says "succeeded" has a recorded success of the id behind it, wherever the outcome was
carried in between (`recordOutcome`, the repair row, `restoreOutcome` after a crash,
`correctCanceledToSucceeded`). `Accounts`: a dead letter is a failure, a "canceled" row is
that of a cancelled job. `Covered`: as long as the store is marked clean, or would be if the drain
ended now, a pending job has an index row, its due row or its lease, and a lane that has
nothing left but to delete its lease leaves the due row of the header in place. That last
clause is where `Apart` is needed: the two rows have one key if they have one time.

*Why the calm scheduler needs more.* Without the trouble that a theorem excludes, stronger
relations hold, and each is what a crash, a fault or a lost call destroys. `Shape` (no crash,
no fault): an id has one row at a time but for the moment between the two writes of a
settlement, and a serving lane holds what the store holds. `Keys`: each index row of an id is
its due row, which no lane serves, or the lease of the lane at work; hence what is claimed
was due. `Slots` (no crash, no loss): a `/complete` under way comes from a lane whose
handler has ended, a running handler belongs to the lane that awaits it and has a slot.
`Lates` (none of the three): a job that succeeded is pending, or reads "canceled", only while
its lane is still on the way to record it.

*Why `NoOverlap` needs one.* `Fresh` relates the age of the lease to the countdown of
the isolate that holds it: `idle + timer` is at most `Latency + Renew`, and one more
`Renew` after one missed renewal. With the assumption on the constants the lease is then
live, so no other tick takes it; `Numbered` says that two isolates never share a run.

*Why `LostOnlyUnreported` needs one.* A report that is cut after its row leaves the lease
standing, and the reconciliation that finds the lease expired looks for the row in the history, of
which the code keeps the newest `HistoryLimit`. `Reach` says that the row of a reported run
that still holds the lease is among the first `Depth` rows: while one run holds the lease
only skipped ticks add rows, a streak of them adds one, and a streak ends only when the pause
flag changes. The theorem counts all changes; only those under one lease matter, so with the
code's 50 rows (`CRON_HISTORY_LIMIT`) the flag would have to change 49 times, each change seen
by a tick, in the 15 minutes before the lease lapses.

*Why the dispatch needs one.* Each property of `ShardDispatch` speaks of rows and counts,
but a row is written from what a request has carried since it came in. `IInv` says of the
requests in hand: at most one is in a transaction, and under the gate no other is between
arrival and gate (`OneRuns`, `GateAlone`); a mutation in a transaction has no receipt and
no effect but those of lapsed receipts (`Receipts` with its parts `Fresh`, `Kept`,
`AgedKept`, `AgedOnce`, `Closed`); a result in hand is the call's own and the call took
effect (`Linked`, `Effective`); and for the pushes of the gate host, a push classified
`next` is the successor of the watermark as long as it has not been applied, and is the
watermark afterwards (`PushInv`). `Fresh` is where the gate matters: the receipt that was
read as absent is still absent at the commit. `GatePush` is where the Node host fails:
there a push in hand may be unclassified.

`ActionSparse` counts over the whole history, and the count is not inductive: a run that is
under way will be counted later, and one that may still be started must find room.
`Thrift` says that for each action the completed runs, the runs under way and a claim past
its ceiling (the run that will take it over) together are at most one plus the lapses,
restarts and take-overs, and are less while nobody holds the claim of an action without a
receipt. `Ledger` ties the parts: whoever holds a claim runs the action, has run it or is
about to let the claim go; an aged receipt is that of an action nobody runs; committed
bookkeeping never names an action, so that the tail of an action does leave its receipt. On
the Node host a refused read of the receipt counts as a miss, and the bound fails.

*Why the client needs one.* `LiveBehindQueue` speaks of one step, but a send is safe because
of the passes that were pending when the write was issued: `Passes` says that entries are
out for replay only under a published pass and that whoever is waiting waits for no more
passes than there are. `Memory` says that a queued write is in the queue, the batch or the
drained rest, and that an unsettled one has a record, landed or to come; `Exact` relates
the landed records to those being appended and removed, so that no record is written twice
or behind its own removal. `Counted` says that an applied id is applied once
and is *the* id of its write (`Known`): the namespace of the session that issued it. This
is what makes a replay after a reload harmless. What is kept of a queue or a store is
selected by a recursive function (`Within`) rather than `SelectSeq`, whose local definition
the provers cannot unfold; what it returns is a lemma about the function's table.

`TypeOK` of the client is more than types: no write is retried beyond its attempts. The
counter goes up once per batch and per write, so an ambiguous write that stood in the batch
twice, or in the batch and in the queue, would be counted as tried once and tried twice.
`Tries` says that an ambiguous entry is in one place of one of the three sequences, that no
direct send of its write is under way, and that it has an attempt left; who has none is done.

*Refinement.* Of `ShardDispatch`: open is: no receipt, or above the watermark. `Commit` maps to `Apply`
(with `Forgettable` receipts reopened if the throttled collection ran), the tail of a
request to a stutter or `Forget`, an answer to `Answer`, all else to a stutter. Of
`OfflineReplay`: a write is open while none of its ids has been applied; the application of
an id maps to `Apply` of its write, every other step to an `Answer` of the commits that it
reports, possibly none.

The invariants were also checked with TLC, on instances like those of the runs and wider.

## 5. What is only model-checked

Everything under fairness (`PendingSettles`, `SlotReleased`, `DeadLeaseGoes`,
`EveryCallHeard`, `QueuedSettles`), which TLAPS does not treat; `NoEarlyRefire` of the
scheduler, which holds for one crash and fails for two troubles together, so that a proof
would have to count them. Outside the hypotheses of the table in section 4, the properties of the
scheduler are model-checked where a run has the excluded trouble (`NeverRefireSettled` with a
fault and a crash, for example) and false where section 6 says so. Two hypotheses are used and not known to be needed: no counterexample is known to
`SlotHeld` with crashes alone, nor to `CanceledNeverRan` with faults alone.

## 6. Where code and comments disagree

Three runs violate one property each (`PROJECT.json`, `findings`, quotes the lines):

* `FindNode`: on the Node host a push delivered again while another request's
  transaction is open is not recognised, because the refusal of the watermark read is
  taken for a missing table. Its handler runs a second time and the watermark stays.
* `FindHydrate`: durable writes restored while the socket is open already (outbox
  leadership taken over from a closed tab, slow storage) are flushed by nothing until the
  socket drops.
* `FindLanded`: a direct send of unknown fate drops its precondition before it is queued; a
  replayed batch of unknown fate keeps it, and a write that landed is rejected as stale.

Client and shard, seen in counterexamples while the properties were being stated:

* *Order within a batch.* Slots are independent: a write whose slot was throttled goes back
  to the queue while those behind it committed (`handleBatchRpc`, "per-slot"), against
  the queue's "replayed in the order they were submitted" (`offline-queue.ts`, class comment).
* *Order of requeue.* `requeue` puts drained writes in front of everything, also of an older
  ambiguous write that `enqueue` has placed by its issue number meanwhile.
* *Cap.* `requeue` does not evict, so the queue can hold more than `maxItems` (`hydrate`: "never
  exceeds `maxItems` regardless of how it got there").
* *Before the first connect* with `queueBeforeFirstConnect` off, the default, a live write
  goes out directly past restored ones; `LiveBehindQueue` is stated with the option on.

Scheduler and leases, seen with other constants:

* *Slot of a broken connection.* `drainRecord` frees the slot of any dispatch that was not
  answered; when the connection breaks under a running handler the pool runs more than its
  cap (`PoolBounded` with `MaxLosses = 1`).
* *Refused cleanup.* A succeeded job whose pending rows could not be deleted is re-armed by the
  orphan walk and sent again (`NeverRefireSettled` allows for it: one fault and one crash, or two
  faults), against "must never re-fire, regardless of what happens next"
  (`scheduler-do.ts:1382`).
* *Crash after the answer.* An instance that is lost between the outcome row, or the dead letter,
  and the removal of the pending rows leaves a job with an outcome that its lease row sends
  again when it lapses, against the same comment, without any refused operation. What still
  holds is that it is not sent within the lease (`NoEarlyRefire`).
* *Refused cancel.* `/cancel` marks the open lane before it deletes the rows (2729, 2732). When the
  delete is refused the caller gets an error, but the lane, once answered, writes nothing back
  (1359), drops its lease row (1294), and `CLEAN_KEY` is restored (898-899) over a header without
  an index row: the job is never sent again, and no start looks for it. The comments at 141 and
  2791 make no exception. `CleanMeansIndexed` without its `unremoved` is violated by this
  one refused operation and no crash (the constants of `JobFaults` without crash and loss).
* *Refused arming.* When the alarm cannot be set after `/schedule` or `/dead/retry` has put its rows
  the caller gets an error, and the rows stay with no alarm, or with a later one, in an instance
  that is up: they wait until some other request arms the clock. The same holds where the
  alarm cannot be re-armed after a drain. `ClockRuns` without its `unarmed` is violated by
  one refused operation.
* *Key collision.* A backoff that ends in the millisecond of the lease horizon writes its index
  row under the key the tail of the attempt deletes; the job stays pending without an
  index row (`CleanMeansIndexed` with `Lease = 4`). No fault is needed.
* *Twin instants.* After a crash inside a park, a cancel in the same millisecond as the dead
  letter writes a history row under the key of the dead letter's, and whichever is dropped
  first takes the row of the other along (`HistoryIndexed` in the constants of `JobFaults`
  without the loss; with the crash alone when there are two jobs and `TickStep = 1`).
* *Reconciled twice.* A cron reconciliation cut after its row lets a late report add a second row
  for the run.
* *Pushed out.* The pause flag, changed again and again while a reported run whose report was cut
  holds the lease, makes every skipped tick a row of its own, until the run's row has left
  the history: the reconciliation then records the run as lost (`LostOnlyUnreported` with
  `MaxPauses = 3`).
* *One miss, not two.* A cron lease tolerates one failed renewal; the comment of
  `cron-runs.ts` 15-17 says two.
* *Reused ids.* A second job under an id whose first succeeded is answered from the
  shard's recorded result and recorded as succeeded without running (`SucceededRan`
  with `MaxJobs = 2`; `types.ts:137-138` calls the id free again).
* *Stale lease of a dead instance.* Cancel after a crash, reuse the id before the lease
  lapses: the lease row sends the new job before its time. The new job must be due after
  the lease ends (`NotBeforeDue` with `MaxJobs = 2`, `MaxCrashes = 1`, `Dues = {0, 4}`,
  `TickStep = 1`, `MaxClock = 8`).
* *Refused lease delete.* With one more crash the first attempt's lease re-fires a later
  attempt within its own lease (`NoEarlyRefire` with `MaxFaults = 1`, `MaxCrashes = 1`).
* *Crash inside a park.* A `/dead/retry` accepted meanwhile loses its fresh budget
  (`DeadOnlyWhenSpent` with `MaxCrashes = 1` and one lost call or fault, which makes an
  attempt fail).

Documented limits of the code, which the model shares: a pool slot whose `/complete` is
lost, or whose holder is cancelled while a crash loses its lane, is not reconciled
(comments of `handleCancel` and `releasePoolSlot`); a cron run whose begin call failed
runs unguarded.

## 7. Not modelled, and why

*Scheduler*: the live `/ws` list, job listing and status routes and instance registration
read or describe state without changing a job; the legacy pool row without ids is written
by no current code; argument and target validation is per request. `retryPolicy` is the
constant `Delay`, with the budget per id; its arithmetic is left out.

*Shard*: queries and the reactive cache, subscriptions, replicas and relays, the delivery
fence, alarms, admin routes, telemetry. Nested and independent transactions, after-commit
hooks and deferred deletes are inside one handler's run.

*Client*: the outbox sink, follower tabs and the leader's mirrored status, polling and idle
close, writes of another identity (rejected) and refused credentials (parked), records of
another app version, removals that fail, `close()` and `restampIdentity`, several shard
keys. Two copies of one record collapse into one.

*Other components* (`PROJECT.json` lists each with its reason): the change log and its
consumers, the event log and mirror, the rate limiter, queues and workflows, and all
that has no protocol of its own: query building, code generation, tooling, presentation.

## 8. What would come next

1. `ChangeFeed`: the shard engine's change log, subscription resume and relay: every change
   once and in order; the schedule outbox, composed with `SchedulerDO`'s `/schedule`.
2. `JobDelivery`: the abstract promise of the scheduler (accepted, under way, settled once,
   never after a cancel), with `SchedulerDO` shown to implement it.
3. The receiver inside `SchedulerDO` replaced by `ShardDispatch`'s promise about actions.
4. `NoEarlyRefire` by an inductive invariant that counts crashes and faults together.
5. Receipts that age under the client (`Forgettable`), with a bound on the age of its records.
6. `RetryPolicy` and `RateLimiter` as operators over bounded inputs.
