----------------------------- MODULE SchedulerDO -----------------------------
(***************************************************************************)
(* The job lifecycle of the SchedulerDO durable object                     *)
(* (packages/scheduler/src/scheduler-do.ts): a job is a header row `id:`   *)
(* and one row of the time index `t:`.  The alarm claims every due job by  *)
(* moving its index row to a lease horizon, dispatches it to the worker    *)
(* over HTTP, and settles it: outcome row, retry, or dead letter.          *)
(*                                                                         *)
(* Interleaving.  The Durable Object's input gate delivers no event while  *)
(* a storage operation is in flight, so a request handler or the tail of a *)
(* lane is interrupted only by a crash (and, at the head of a drain, by    *)
(* the storage operations of its sibling lanes).  Only an open dispatch    *)
(* lets events in.  One action below is one storage write, or the writes   *)
(* one synchronous run issues together; the clock does not advance inside  *)
(* such a run.                                                             *)
(***************************************************************************)
EXTENDS Naturals, FiniteSets

CONSTANTS
    Id,              \* caller-chosen job ids
    Pooled,          \* the ids whose jobs carry `pool` (one pool)
    Forever,         \* the ids whose retry policy is `forever`
    NoAlarm,         \* getAlarm() = null
    Caps,            \* the `maxConcurrency` values an enqueue may carry
    Dues,            \* the `scheduledFor` values a caller may choose
    Lease,           \* DISPATCH_LEASE_MS
    Budget,          \* per id: retries allowed after the first attempt (maxAttempts)
    AttemptCap,      \* Number.MAX_SAFE_INTEGER, where the attempt count saturates
    Delay,           \* per id and attempts so far: the backoff resolveRetry yields
    RetryBase,       \* RETRY_BASE_DELAY_MS, the floor of a declined attempt's backoff
    Backpressure,    \* POOL_BACKPRESSURE_DELAY_MS
    Retention,       \* TERMINAL_RETENTION_MS
    MaxIndexable,    \* MAX_SCHEDULED_FOR_MS
    Lanes,           \* MAX_CONCURRENT_DISPATCHES
    Prompt,          \* whether the clock waits until nothing can be done now
    TickStep,        \* granularity of the modelled clock
    MaxClock,        \* bound: the clock stops here
    Horizon,         \* bound: liveness is asked of the jobs pending by this time
    MaxJobs,         \* bound: jobs scheduled under one id
    MaxCrashes,      \* bound: instances lost
    MaxFaults,       \* bound: rejected storage operations
    MaxLosses        \* bound: HTTP calls between scheduler and worker that fail

ASSUME ConstantsAssumption ==
    /\ Pooled \subseteq Id /\ Forever \subseteq Id
    /\ NoAlarm \notin Nat
    /\ Caps \subseteq Nat \ {0} /\ Caps # {} /\ Dues \subseteq Nat
    /\ Budget \in [Id -> Nat] /\ Delay \in [Id -> [0..AttemptCap -> Nat]]
    /\ {Lease, AttemptCap, RetryBase, Backpressure, Lanes, TickStep} \subseteq Nat \ {0}
    /\ {Retention, MaxIndexable, MaxClock, Horizon, MaxJobs, MaxCrashes, MaxFaults, MaxLosses} \subseteq Nat
    /\ Prompt \in BOOLEAN

VARIABLES
    (* durable storage *)
    header,     \* `id:` (with its `pq:` and `retry:` rows): the pending job of an id
    index,      \* `t:` rows, <<time, id>>
    dead,       \* `dead:` rows
    done,       \* `done:` rows
    history,    \* `dt:` rows, <<completedAt, id>>
    repair,     \* `repair:` rows
    pool,       \* `pool:`: the cap and the ids holding a slot
    clean,      \* CLEAN_KEY present
    paused,     \* PAUSE_KEY present
    alarm,      \* the storage alarm
    (* memory of the instance *)
    up,         \* an instance exists and has recovered the store
    dirty,      \* SchedulerDO.dirty
    pass,       \* the alarm() invocation that is draining, and when it began
    lane,       \* per id: what drainRecordGuarded is doing with its record
    (* the worker behind LUNORA_ORIGIN_URL *)
    running,    \* jobs <<id, n>> whose handler is executing at the receiver
    calls,      \* POST /complete under way, <<id, whether its dispatch still waits>>
    (* environment and bounds *)
    now, jobs, crashes, faults, losses,
    (* history variables: what happened to a job <<id, n>> *)
    told,       \* /cancel removed its rows
    ranOk,      \* its handler finished successfully at least once
    settled,    \* a dispatch no /cancel had marked was answered 2xx, or it was parked
    charged,    \* per id: failed attempts since the retry budget was (re)set
    open,       \* per id: the job and the time of a dispatch that was not settled
    unarmed,    \* a write that arms the alarm was refused, and the alarm not recomputed since
    unremoved   \* /cancel marked its lane and was refused the delete

rows     == <<header, index>>
outcomes == <<dead, done, history, repair>>
flags    == <<clean, paused>>
volatile == <<up, dirty, pass, lane>>
world    == <<running, calls>>
bounds   == <<now, jobs, crashes, faults, losses>>
ghosts   == <<told, ranOk, settled, charged, open, unarmed, unremoved>>
vars     == <<rows, outcomes, flags, pool, alarm, volatile, world, bounds, ghosts>>
-----------------------------------------------------------------------------
(***************************************************************************)
(* Records.  `n` stands for everything that tells two jobs of one id apart *)
(* (enqueuedAt, args, target); an absent row has n = 0.                    *)
(***************************************************************************)
Job      == [n: Nat, due: Nat, attempts: 0..AttemptCap]
Terminal == [n: Nat, at: Nat, state: {"none", "succeeded", "canceled", "failed"}]
NoJob    == [n |-> 0, due |-> 0, attempts |-> 0]
NoRow    == [n |-> 0, at |-> 0, state |-> "none"]

Reply  == {"none", "running", "lost", "ok", "error", "declined"}
LanePc == {"idle", "queued", "unindexed", "leased", "refused", "reserved", "sent", "answered",
           "released", "clearing", "parked", "unleasing", "failing"}
Lane   == [pc: LanePc, job: Job, claim: Nat, lease: Nat, reply: Reply, cancelled: BOOLEAN]
IdleLane == [pc |-> "idle", job |-> NoJob, claim |-> 0, lease |-> 0, reply |-> "none",
             cancelled |-> FALSE]

Has(row)    == row.n # 0
Row(n, at, state) == [n |-> n, at |-> at, state |-> state]
Ix(time, j) == <<time, j>>
Indexed(j)  == \E e \in index : e[2] = j
Key(j)      == <<j, lane[j].job.n>>
At(j, pc)   == lane[j].pc = pc

Queued  == {j \in Id : At(j, "queued")}
Working == {j \in Id : ~At(j, "idle") /\ ~At(j, "queued")}

(* No storage operation is in flight, so the platform may deliver an event. *)
GateOpen ==
    /\ up
    /\ \A j \in Working : At(j, "sent")
    /\ Queued # {} => Cardinality(Working) >= Lanes
    /\ pass.on => Working # {}

(* The least of some alarm times, {NoAlarm} if none of them is a time. *)
Earliest(times) ==
    IF times \subseteq {NoAlarm} THEN {NoAlarm}
    ELSE {t \in times \ {NoAlarm} : \A u \in times \ {NoAlarm} : t <= u}
Times(ix) == {e[1] : e \in ix}

AlarmKept(t) == alarm' = IF alarm = NoAlarm THEN t ELSE alarm     \* mutant
armAlarmIfEarlier(t) == alarm' \in Earliest({alarm, t})
rescheduleAlarm ==
    /\ alarm' \in IF paused THEN {NoAlarm} ELSE Earliest(Times(index'))
    /\ unarmed' = FALSE

(* sweepTerminal drops the expired `dt:` rows and the `done:` rows they index. *)
Expired(at) == at + Retention <= now
SweptHistory(h) == {e \in h : ~Expired(e[1])}
SweptDone(d, h) ==
    [j \in Id |-> IF Expired(d[j].at) /\ Ix(d[j].at, j) \in h THEN NoRow ELSE d[j]]

Move(j, pc) == lane' = [lane EXCEPT ![j].pc = pc]
Free(j)     == lane' = [lane EXCEPT ![j] = IdleLane]
Closed(j)   == [open EXCEPT ![j] = [n |-> 0, at |-> 0]]
-----------------------------------------------------------------------------
Init ==
    /\ header = [j \in Id |-> NoJob] /\ index = {}
    /\ dead = [j \in Id |-> NoRow] /\ done = [j \in Id |-> NoRow]
    /\ history = {} /\ repair = [j \in Id |-> NoRow]
    /\ pool = [cap |-> 1, holders |-> {}]
    /\ clean = FALSE /\ paused = FALSE /\ alarm = NoAlarm
    /\ up = FALSE /\ dirty = FALSE /\ pass = [on |-> FALSE, since |-> 0]
    /\ lane = [j \in Id |-> IdleLane]
    /\ running = {} /\ calls = {}
    /\ now = 0 /\ jobs = [j \in Id |-> 0] /\ crashes = 0 /\ faults = 0 /\ losses = 0
    /\ told = {} /\ ranOk = {} /\ settled = {}
    /\ charged = [j \in Id |-> 0] /\ open = [j \in Id |-> [n |-> 0, at |-> 0]]
    /\ unarmed = FALSE /\ unremoved = {}

(***************************************************************************)
(* An instance starts: reindexOrphanedRecords, which every route and       *)
(* alarm() await.  Without CLEAN_KEY it walks the store: an outcome kept   *)
(* aside is restored, then every header that had no `t:` row is re-armed   *)
(* at its own due time.  The orphans were collected before the restores.   *)
(***************************************************************************)
Repairable == {j \in Id : Has(repair[j])}
Orphans == {j \in Id : Has(header[j]) /\ ~Indexed(j) /\ header[j].due <= MaxIndexable}
Superseded(j) == Has(header[j]) /\ header[j].n # repair[j].n

restoreOutcome(R) ==
    LET applied == {j \in R : ~Superseded(j)}
        written == {j \in applied : ~Has(done[j])}
    IN  /\ header' = [j \in Id |-> IF j \in applied THEN NoJob ELSE header[j]]
        /\ done' = [j \in Id |-> IF j \in written THEN repair[j] ELSE done[j]]
        /\ history' = history \cup {Ix(repair[j].at, j) : j \in written}
        /\ repair' = [j \in Id |-> IF j \in R THEN NoRow ELSE repair[j]]

reindexWalk(R, O) ==
    /\ restoreOutcome(R)
    /\ index' = index \cup {Ix(header[j].due, j) : j \in O}

(* The earliest of the kept alarm and the re-armed orphans, or else of the index rows. *)
OnlyArmed(armed) == alarm' \in Earliest(armed)                     \* mutant
recoverClock(armed) == alarm' \in Earliest(IF armed = {NoAlarm} THEN Times(index') ELSE armed)

Boot ==
    /\ ~up
    /\ IF clean THEN UNCHANGED <<rows, done, history, repair>>
       ELSE reindexWalk(Repairable, Orphans)
    /\ clean' = TRUE
    /\ recoverClock({header[j].due : j \in IF clean THEN {} ELSE Orphans} \cup {alarm})
    /\ up' = TRUE /\ unarmed' = FALSE
    /\ UNCHANGED <<dead, pool, paused, dirty, pass, lane, world, bounds, told, ranOk, settled,
                   charged, open, unremoved>>

(* The instance dies, or a storage operation rejects, before the recovery is through. *)
BootCut ==
    /\ ~up /\ ~clean /\ crashes < MaxCrashes
    /\ \E R \in SUBSET Repairable, O \in SUBSET Orphans :
        /\ O # {} => R = Repairable
        /\ reindexWalk(R, O)
        /\ clean' \in {FALSE, R = Repairable /\ O = Orphans}
        /\ alarm' \in Earliest({header[j].due : j \in O} \cup {alarm})
    /\ crashes' = crashes + 1
    /\ UNCHANGED <<dead, paused, pool, volatile, world, now, jobs, faults, losses, ghosts>>

Detached(cs) == {<<c[1], "stray">> : c \in cs}

(* An instance is lost: its memory goes, the worker's calls go on without it. *)
Die ==
    /\ crashes < MaxCrashes /\ crashes' = crashes + 1
    /\ up' = FALSE /\ dirty' = FALSE /\ pass' = [on |-> FALSE, since |-> 0]
    /\ lane' = [j \in Id |-> IdleLane]
    /\ calls' = Detached(calls)
    /\ UNCHANGED <<running, now, faults, losses>>

(* A storage operation rejects: its handler ends with an error, the instance lives on. *)
Refused ==
    /\ faults < MaxFaults /\ faults' = faults + 1
    /\ UNCHANGED <<volatile, world, now, crashes, losses>>
Stopped == Die \/ Refused

(* Lanes between the answer or the dead letter and the removal of the pending rows. *)
Settling(j) == lane[j].pc \in {"released", "clearing", "parked", "failing"}
Interrupted == {Key(j) : j \in {k \in Id : Settling(k)}}

(* The platform redelivers an alarm whose handler did not return, or does not. *)
Crash ==
    /\ up
    /\ Die
    /\ alarm' \in IF pass.on THEN {alarm, now} ELSE {alarm}
    /\ settled' = settled \ Interrupted
    /\ UNCHANGED <<rows, outcomes, flags, pool, jobs, told, ranOk, charged, open, unarmed,
                   unremoved>>
-----------------------------------------------------------------------------
(***************************************************************************)
(* Requests.  A handler runs to its end, or it is stopped between two of   *)
(* its writes: the instance dies, or the next operation rejects.           *)
(***************************************************************************)
OutcomeKept(j) == UNCHANGED <<done, repair>>                       \* mutant
dropOutcome(j) == done' = [done EXCEPT ![j] = NoRow] /\ repair' = [repair EXCEPT ![j] = NoRow]
handleSchedule(j, due, cap) ==
    /\ GateOpen
    /\ ~Has(header[j]) /\ ~Has(dead[j])                        \* idConflict
    /\ due <= MaxIndexable
    /\ jobs[j] < MaxJobs /\ jobs' = [jobs EXCEPT ![j] = @ + 1]
    /\ header' = [header EXCEPT ![j] = [n |-> jobs[j] + 1, due |-> due, attempts |-> 0]]
    /\ index' = index \cup {Ix(due, j)}
    /\ dropOutcome(j)
    /\ pool' = IF j \in Pooled THEN [pool EXCEPT !.cap = cap] ELSE pool
    /\ charged' = [charged EXCEPT ![j] = 0]
    /\ UNCHANGED <<dead, history, flags, told, ranOk, settled, open, unremoved>>

(* The rows are in the store and the alarm is not armed for them. *)
NotArmed ==
    /\ UNCHANGED alarm
    /\ \/ Die /\ UNCHANGED unarmed
       \/ Refused /\ unarmed' = TRUE

Schedule ==
    \E j \in Id, due \in Dues, cap \in Caps :
        /\ handleSchedule(j, due, cap)
        /\ armAlarmIfEarlier(due)
        /\ UNCHANGED <<volatile, world, now, crashes, faults, losses, unarmed>>
ScheduleCut ==
    /\ \E j \in Id, due \in Dues, cap \in Caps : handleSchedule(j, due, cap)
    /\ NotArmed
(* persistPoolCap comes before the job's rows. *)
PoolCapCut ==
    /\ GateOpen
    /\ \E j \in Pooled, cap \in Caps :
        /\ ~Has(header[j]) /\ ~Has(dead[j]) /\ jobs[j] < MaxJobs
        /\ pool' = [pool EXCEPT !.cap = cap]
    /\ Stopped
    /\ UNCHANGED <<rows, outcomes, flags, alarm, jobs, ghosts>>

(* A lane whose dispatch is open holds its record under the lease key. *)
HeldRows(j) == IF At(j, "sent") THEN {Ix(lane[j].lease, j)} ELSE {}
removeRecord(j) ==
    /\ header' = [header EXCEPT ![j] = NoJob]
    /\ index' = index \ ({Ix(header[j].due, j)} \cup HeldRows(j))
Unmarked(j) == UNCHANGED lane                                     \* mutant
MarkCancelled(j) ==
    lane' = IF At(j, "sent") THEN [lane EXCEPT ![j].cancelled = TRUE] ELSE lane

(* The outcome row of a cancel is best-effort: its failure must not undo the cancel. *)
CanceledRow(j)  == [done EXCEPT ![j] = Row(header[j].n, now, "canceled")]
CanceledList(j) == history \cup {Ix(now, j)}
writeCanceled(j, refusals) ==
    \/ /\ done' = SweptDone(CanceledRow(j), CanceledList(j))
       /\ history' = SweptHistory(CanceledList(j))
       /\ faults' = refusals
    \/ /\ refusals < MaxFaults /\ faults' = refusals + 1
       /\ done' = SweptDone(done, history) /\ history' = SweptHistory(history)
handleCancel(j) ==
    /\ GateOpen /\ Has(header[j]) /\ ~Has(done[j])
    /\ removeRecord(j) /\ MarkCancelled(j)
    /\ writeCanceled(j, faults)
    /\ rescheduleAlarm
    /\ told' = told \cup {<<j, header[j].n>>}
    /\ UNCHANGED <<dead, repair, flags, pool, up, dirty, pass, world, now, jobs, crashes,
                   losses, ranOk, settled, charged, open, unremoved>>

(* The job already reached an outcome whose header outlived it: not a cancellation. *)
CancelFinished(j) ==
    /\ GateOpen /\ Has(header[j]) /\ Has(done[j])
    /\ removeRecord(j) /\ MarkCancelled(j)
    /\ rescheduleAlarm
    /\ UNCHANGED <<outcomes, flags, pool, up, dirty, pass, world, bounds, told, ranOk, settled,
                   charged, open, unremoved>>

(* The lane is marked before the delete is awaited.  When the delete rejects, the job *)
(* keeps its rows, and the lane, when it is answered, writes nothing back.            *)
CancelRefused(j) ==
    /\ GateOpen /\ Has(header[j]) /\ At(j, "sent")
    /\ faults < MaxFaults /\ faults' = faults + 1
    /\ MarkCancelled(j)
    /\ unremoved' = unremoved \cup {Key(j)}
    /\ UNCHANGED <<rows, outcomes, flags, pool, alarm, up, dirty, pass, world, now, jobs, crashes,
                   losses, told, ranOk, settled, charged, open, unarmed>>
(* The job is gone and the alarm could not be recomputed: it stays, too early if anything. *)
CancelUnclocked(j) ==
    /\ GateOpen /\ Has(header[j]) /\ faults < MaxFaults
    /\ removeRecord(j) /\ MarkCancelled(j)
    /\ \/ Has(done[j]) /\ faults' = faults + 1 /\ UNCHANGED <<done, history, told>>
       \/ /\ ~Has(done[j]) /\ writeCanceled(j, faults + 1)
          /\ told' = told \cup {<<j, header[j].n>>}
    /\ UNCHANGED <<dead, repair, flags, pool, alarm, up, dirty, pass, world, now, jobs, crashes,
                   losses, ranOk, settled, charged, open, unarmed, unremoved>>
(* The instance dies after the removal, after the outcome row or after the sweep. *)
CancelCut ==
    /\ \E j \in Id :
        /\ GateOpen /\ Has(header[j])
        /\ removeRecord(j)
        /\ told' = IF Has(done[j]) THEN told ELSE told \cup {<<j, header[j].n>>}
        /\ \/ UNCHANGED <<done, history>>
           \/ ~Has(done[j]) /\ done' = CanceledRow(j) /\ history' = CanceledList(j)
           \/ /\ ~Has(done[j]) /\ done' = SweptDone(CanceledRow(j), CanceledList(j))
              /\ history' = SweptHistory(CanceledList(j))
    /\ Die
    /\ UNCHANGED <<dead, repair, flags, pool, alarm, jobs, ranOk, settled, charged, open, unarmed,
                   unremoved>>

(* A dead letter starts again at once with a fresh retry budget. *)
revive(j) ==
    /\ GateOpen /\ Has(dead[j])
    /\ header' = [header EXCEPT ![j] = [n |-> dead[j].n, due |-> now, attempts |-> 0]]
    /\ index' = index \cup {Ix(now, j)}
    /\ dead' = [dead EXCEPT ![j] = NoRow] /\ done' = [done EXCEPT ![j] = NoRow]
    /\ history' = history \ {Ix(dead[j].at, j)}
    /\ told' = told \ {<<j, dead[j].n>>} /\ settled' = settled \ {<<j, dead[j].n>>}
    /\ charged' = [charged EXCEPT ![j] = 0]
    /\ open' = IF open[j].at <= dead[j].at THEN Closed(j) ELSE open
    /\ UNCHANGED <<repair, flags, pool, jobs, ranOk, unremoved>>
handleDeadRetry(j) ==
    /\ revive(j)
    /\ armAlarmIfEarlier(now)
    /\ UNCHANGED <<volatile, world, now, crashes, faults, losses, unarmed>>
DeadRetryCut ==
    /\ \E j \in Id : revive(j)
    /\ NotArmed
(* The `failed` row of an unfinished purge is dropped before the revived rows are put. *)
DeadRetryLate ==
    /\ GateOpen
    /\ \E j \in Id : Has(dead[j]) /\ done' = [done EXCEPT ![j] = NoRow]
    /\ Stopped
    /\ UNCHANGED <<rows, dead, history, repair, flags, pool, alarm, jobs, ghosts>>

(* Purging a dead letter moves its row into the history under the instant it was parked. *)
purge(j) == [done EXCEPT ![j] = Row(dead[j].n, dead[j].at, "failed")]
handleDeadCancel(j) ==
    /\ GateOpen /\ Has(dead[j])
    /\ dead' = [dead EXCEPT ![j] = NoRow]
    /\ done' = SweptDone(purge(j), history \cup {Ix(dead[j].at, j)})
    /\ history' = SweptHistory(history \cup {Ix(dead[j].at, j)})
    /\ UNCHANGED <<rows, repair, flags, pool, alarm, volatile, world, bounds, ghosts>>
DeadCancelCut ==
    /\ \E j \in Id :
        /\ GateOpen /\ Has(dead[j])
        /\ done' = purge(j) /\ history' = history \cup {Ix(dead[j].at, j)}
    /\ Stopped
    /\ UNCHANGED <<rows, dead, repair, flags, pool, alarm, jobs, ghosts>>

(* The receiver gives a pool slot back; the freed slot re-arms the drain at once. *)
SlotKept ==                                                       \* mutant
    \E c \in calls :
        /\ GateOpen /\ calls' = calls \ {c}
        /\ UNCHANGED <<rows, outcomes, flags, pool, alarm, volatile, running, bounds, ghosts>>
handleComplete ==
    \E c \in calls :
        /\ GateOpen
        /\ pool' = [pool EXCEPT !.holders = @ \ {c[1]}]
        /\ armAlarmIfEarlier(now)
        /\ calls' = calls \ {c}
        /\ UNCHANGED <<rows, outcomes, flags, volatile, running, bounds, ghosts>>
(* The slot is free and the drain not re-armed for it; the caller swallows the error. *)
CompleteUnarmed ==
    \E c \in calls :
        /\ GateOpen /\ faults < MaxFaults /\ faults' = faults + 1
        /\ pool' = [pool EXCEPT !.holders = @ \ {c[1]}]
        /\ calls' = calls \ {c}
        /\ UNCHANGED <<rows, outcomes, flags, alarm, volatile, running, now, jobs, crashes,
                       losses, ghosts>>
(* releasePoolSlot swallows a failed call, and nothing reconciles the slot. *)
CompleteLost ==
    /\ losses < MaxLosses /\ losses' = losses + 1
    /\ \E c \in calls : calls' = calls \ {c}
    /\ UNCHANGED <<rows, outcomes, flags, pool, alarm, volatile, running, now, jobs, crashes,
                   faults, ghosts>>

(* The clock is re-armed before the flag goes, the flag is set before the clock stops. *)
Pause ==
    /\ GateOpen
    /\ paused' = TRUE /\ alarm' = NoAlarm
    /\ UNCHANGED <<rows, outcomes, clean, pool, volatile, world, bounds, ghosts>>
PauseCut ==
    /\ GateOpen /\ paused' = TRUE
    /\ Stopped
    /\ UNCHANGED <<rows, outcomes, clean, pool, alarm, jobs, ghosts>>
StoppedClock == UNCHANGED alarm /\ unarmed' = FALSE               \* mutant
resumedAlarm ==
    /\ alarm' \in IF index = {} THEN {alarm} ELSE Earliest(Times(index))
    /\ unarmed' = FALSE
Resume ==
    /\ GateOpen /\ paused
    /\ resumedAlarm /\ paused' = FALSE
    /\ UNCHANGED <<rows, outcomes, clean, pool, volatile, world, bounds, told, ranOk, settled,
                   charged, open, unremoved>>
ResumeCut ==
    /\ GateOpen /\ paused
    /\ resumedAlarm
    /\ Stopped
    /\ UNCHANGED <<rows, outcomes, flags, pool, jobs, told, ranOk, settled, charged, open,
                   unremoved>>
-----------------------------------------------------------------------------
(***************************************************************************)
(* alarm(): claim one due `t:` row per pending id, drop the others.        *)
(***************************************************************************)
Due == {e \in index : e[1] <= now}
DueTimes(j) == {e[1] : e \in {f \in Due : f[2] = j}}
Selected == {j \in Id : Has(header[j]) /\ DueTimes(j) # {}}
ClaimTime(j) == CHOOSE t \in DueTimes(j) : \A u \in DueTimes(j) : t <= u
Claims == {Ix(ClaimTime(j), j) : j \in Selected}

AlarmDue == up /\ GateOpen /\ ~pass.on /\ alarm \in 0..now

(* Paused: every job is held where it is, and the clock stops. *)
AlarmPaused ==
    /\ AlarmDue /\ paused
    /\ alarm' = NoAlarm
    /\ UNCHANGED <<rows, outcomes, flags, pool, volatile, world, bounds, ghosts>>

(* Nothing to drain; or CLEAN_KEY could not be dropped, the drain is skipped and alarm()    *)
(* throws past its sweep.                                                                  *)
AlarmIdle ==
    /\ AlarmDue /\ ~paused
    /\ \/ /\ Selected = {} /\ UNCHANGED faults
          /\ done' = SweptDone(done, history) /\ history' = SweptHistory(history)
       \/ /\ Selected # {} /\ faults < MaxFaults /\ faults' = faults + 1
          /\ UNCHANGED <<done, history>>
    /\ index' = index \ (Due \ Claims)
    /\ rescheduleAlarm
    /\ UNCHANGED <<header, dead, repair, flags, pool, volatile, world, now, jobs, crashes,
                   losses, told, ranOk, settled, charged, open, unremoved>>

(* alarm() throws before it drains, or without re-arming the clock: the platform delivers *)
(* it again, or does not any more.                                                        *)
AlarmRefused ==
    /\ AlarmDue
    /\ faults < MaxFaults /\ faults' = faults + 1
    /\ \E D \in SUBSET (Due \ Claims) : (paused => D = {}) /\ index' = index \ D
    /\ alarm' \in {NoAlarm, alarm}
    /\ unarmed' = TRUE
    /\ UNCHANGED <<header, outcomes, flags, pool, volatile, world, now, jobs, crashes, losses,
                   told, ranOk, settled, charged, open, unremoved>>

(* The store stops vouching for itself for the length of the drain. *)
AlarmDrain ==
    /\ AlarmDue /\ ~paused /\ Selected # {}
    /\ index' = index \ (Due \ Claims)
    /\ clean' = FALSE /\ alarm' = NoAlarm
    /\ pass' = [on |-> TRUE, since |-> now]
    /\ lane' = [j \in Id |-> IF j \in Selected
                             THEN [IdleLane EXCEPT !.pc = "queued", !.job = header[j],
                                                   !.claim = ClaimTime(j)]
                             ELSE lane[j]]
    /\ UNCHANGED <<header, outcomes, pool, paused, up, dirty, world, bounds, ghosts>>

(* All lanes are through: the clock is re-armed, and only then is the store clean. *)
VouchedAlways == TRUE                                             \* mutant
Vouched == ~dirty
EndDrain ==
    /\ pass.on /\ \A j \in Id : At(j, "idle")
    /\ UNCHANGED rows /\ rescheduleAlarm
    /\ clean' = Vouched
    /\ pass' = [on |-> FALSE, since |-> 0]
    /\ done' = SweptDone(done, history) /\ history' = SweptHistory(history)
    /\ UNCHANGED <<dead, repair, pool, paused, up, dirty, lane, world, bounds, told, ranOk,
                   settled, charged, open, unremoved>>

(* The clock is not re-armed; or it is, and CLEAN_KEY does not come back. *)
EndRefused ==
    /\ pass.on /\ \A j \in Id : At(j, "idle")
    /\ faults < MaxFaults /\ faults' = faults + 1
    /\ UNCHANGED rows
    /\ \/ alarm' \in {alarm, now} /\ unarmed' = TRUE
       \/ rescheduleAlarm /\ Vouched
    /\ pass' = [on |-> FALSE, since |-> 0]
    /\ UNCHANGED <<outcomes, flags, pool, up, dirty, lane, world, now, jobs, crashes, losses, told,
                   ranOk, settled, charged, open, unremoved>>
(* The instance dies after the clock was re-armed. *)
EndCut ==
    /\ pass.on /\ \A j \in Id : At(j, "idle")
    /\ UNCHANGED rows /\ rescheduleAlarm
    /\ Die
    /\ UNCHANGED <<outcomes, flags, pool, jobs, told, ranOk, settled, charged, open,
                   unremoved>>
-----------------------------------------------------------------------------
(* The claim: a lane takes the next record and replaces its row by a lease. *)
NextInLine(j) ==
    /\ At(j, "queued") /\ Cardinality(Working) < Lanes
    /\ \A k \in Queued : lane[j].claim <= lane[k].claim
PausedToo(j) == header[j] = lane[j].job                           \* mutant
Untouched(j) == header[j] = lane[j].job /\ ~paused

ClaimGone(j) ==
    /\ NextInLine(j) /\ ~Has(header[j])
    /\ index' = index \ {Ix(lane[j].claim, j)}
    /\ Free(j)
    /\ UNCHANGED <<header, outcomes, flags, pool, alarm, up, dirty, pass, world, bounds, ghosts>>
ClaimSkipped(j) ==
    /\ NextInLine(j) /\ Has(header[j]) /\ ~Untouched(j)
    /\ Free(j)
    /\ UNCHANGED <<rows, outcomes, flags, pool, alarm, up, dirty, pass, world, bounds, ghosts>>
Claim(j) ==
    /\ NextInLine(j) /\ Untouched(j)
    /\ index' = index \ {Ix(lane[j].claim, j)}
    /\ lane' = [lane EXCEPT ![j].pc = "unindexed", ![j].lease = now + Lease]
    /\ UNCHANGED <<header, outcomes, flags, pool, alarm, up, dirty, pass, world, bounds, ghosts>>
Unindexed(j) ==                                                   \* mutant
    /\ At(j, "unindexed") /\ Move(j, "leased")
    /\ UNCHANGED <<rows, outcomes, flags, pool, alarm, up, dirty, pass, world, bounds, ghosts>>
PutLease(j) ==
    /\ At(j, "unindexed")
    /\ index' = index \cup {Ix(lane[j].lease, j)}
    /\ Move(j, "leased")
    /\ UNCHANGED <<header, outcomes, flags, pool, alarm, up, dirty, pass, world, bounds, ghosts>>

(* reservePoolSlot: one section under the pool lock, against the durable row. *)
OneTooMany == Cardinality(pool.holders) <= pool.cap               \* mutant
HasRoom == Cardinality(pool.holders) < pool.cap
Unreserved(j) ==                                                  \* mutant
    /\ At(j, "leased") /\ j \in Pooled /\ HasRoom /\ Move(j, "reserved")
    /\ UNCHANGED <<rows, outcomes, flags, pool, alarm, up, dirty, pass, world, bounds, ghosts>>
Reserve(j) ==
    /\ At(j, "leased") /\ j \in Pooled /\ HasRoom
    /\ pool' = [pool EXCEPT !.holders = @ \cup {j}]
    /\ Move(j, "reserved")
    /\ UNCHANGED <<rows, outcomes, flags, alarm, up, dirty, pass, world, bounds, ghosts>>
Refuse(j) ==
    /\ At(j, "leased") /\ j \in Pooled /\ ~HasRoom
    /\ Move(j, "refused")
    /\ UNCHANGED <<rows, outcomes, flags, pool, alarm, up, dirty, pass, world, bounds, ghosts>>
requeuePooled(j) ==
    /\ At(j, "refused")
    /\ header' = [header EXCEPT ![j] = [lane[j].job EXCEPT !.due = now + Backpressure]]
    /\ index' = index \cup {Ix(now + Backpressure, j)}
    /\ Move(j, "unleasing")
    /\ UNCHANGED <<outcomes, flags, pool, alarm, up, dirty, pass, world, bounds, ghosts>>

(***************************************************************************)
(* dispatch(): the POST to the worker.  The shard runs the handler, spends *)
(* the record id as its replay key and answers a delivery of an id it has  *)
(* answered before from the recorded result, or declines one whose handler *)
(* is still running.  A record it answers has its slot released through    *)
(* POST /complete before the response goes out.                            *)
(***************************************************************************)
Busy(j)     == \E k \in running : k[1] = j
Answered(j) == \E k \in ranOk : k[1] = j
Attached(j) == IF j \in Pooled THEN {<<j, "awaited">>} ELSE {}

Sent(j, reply) ==
    /\ At(j, "reserved") \/ (At(j, "leased") /\ j \notin Pooled)
    /\ lane' = [lane EXCEPT ![j].pc = "sent", ![j].reply = reply]
    /\ open' = [open EXCEPT ![j] = [n |-> lane[j].job.n, at |-> now]]
    /\ UNCHANGED <<rows, outcomes, flags, pool, alarm, up, dirty, pass, now, jobs, crashes, faults,
                   told, ranOk, settled, charged, unarmed, unremoved>>
Send(j) ==
    /\ Sent(j, "running") /\ ~Busy(j) /\ ~Answered(j)
    /\ running' = running \cup {Key(j)}
    /\ UNCHANGED <<calls, losses>>
SendAnswered(j) ==
    /\ Answered(j) /\ Sent(j, "ok")
    /\ calls' = calls \cup Attached(j)
    /\ UNCHANGED <<running, losses>>
SendDeclined(j) ==
    /\ Busy(j) /\ Sent(j, "declined")
    /\ calls' = calls \cup Attached(j)
    /\ UNCHANGED <<running, losses>>
SendLost(j) ==
    /\ losses < MaxLosses /\ losses' = losses + 1
    /\ Sent(j, "lost")
    /\ UNCHANGED world

(* A handler ends; its dispatch, if one still waits for it, gets the answer. *)
Awaited(k) == At(k[1], "sent") /\ lane[k[1]].reply = "running" /\ lane[k[1]].job.n = k[2]
RunEnds(k, result) ==
    /\ k \in running /\ running' = running \ {k}
    /\ ranOk' = IF result = "ok" THEN ranOk \cup {k} ELSE ranOk
    /\ lane' = IF Awaited(k) THEN [lane EXCEPT ![k[1]].reply = result] ELSE lane
    /\ calls' = IF k[1] \in Pooled
                THEN calls \cup {<<k[1], IF Awaited(k) THEN "awaited" ELSE "stray">>} ELSE calls
    /\ UNCHANGED <<rows, outcomes, flags, pool, alarm, up, dirty, pass, bounds, told, settled,
                   charged, open, unarmed, unremoved>>
(* The connection fails while the handler runs on. *)
Disconnect(j) ==
    /\ At(j, "sent") /\ lane[j].reply = "running"
    /\ losses < MaxLosses /\ losses' = losses + 1
    /\ lane' = [lane EXCEPT ![j].reply = "lost"]
    /\ UNCHANGED <<rows, outcomes, flags, pool, alarm, up, dirty, pass, world, now, jobs, crashes,
                   faults, ghosts>>
-----------------------------------------------------------------------------
(* drainRecord after the answer. *)
AnyResponse(j) == lane[j].reply \in {"ok", "error"}               \* mutant
InProgressToo(j) == lane[j].reply \in {"ok", "declined"}          \* mutant
Ok(j) == lane[j].reply = "ok"

Answer(j) ==
    /\ GateOpen
    /\ At(j, "sent") /\ lane[j].reply # "running" /\ <<j, "awaited">> \notin calls
    /\ Move(j, IF j \in Pooled /\ ~Ok(j) THEN "answered" ELSE "released")
    /\ settled' = IF Ok(j) /\ ~lane[j].cancelled THEN settled \cup {Key(j)} ELSE settled
    /\ UNCHANGED <<rows, outcomes, flags, pool, alarm, up, dirty, pass, world, bounds, told, ranOk,
                   charged, open, unarmed, unremoved>>
(* "The kick itself failed": the lane frees the slot it reserved. *)
ReleaseSlot(j) ==
    /\ At(j, "answered")
    /\ pool' = [pool EXCEPT !.holders = @ \ {j}]
    /\ Move(j, "released")
    /\ UNCHANGED <<rows, outcomes, flags, alarm, up, dirty, pass, world, bounds, ghosts>>

(* Cancelled under its lease: nothing is written back, but a success is told. *)
Uncorrected(j) == FALSE                                           \* mutant
Corrigible(j) == done[j].state = "canceled" /\ done[j].n = lane[j].job.n /\ ~Has(header[j])
Unlisted(j) ==                                                    \* mutant
    /\ done' = [done EXCEPT ![j] = Row(@.n, now, "succeeded")] /\ UNCHANGED history
correctCanceledToSucceeded(j) ==
    /\ done' = [done EXCEPT ![j] = Row(@.n, now, "succeeded")]
    /\ history' = (history \ {Ix(done[j].at, j)}) \cup {Ix(now, j)}
CancelledSettles(j) ==
    /\ At(j, "released") /\ lane[j].cancelled
    /\ IF Ok(j) /\ Corrigible(j)
       THEN correctCanceledToSucceeded(j)
       ELSE UNCHANGED <<done, history>>
    /\ open' = Closed(j)
    /\ Move(j, "unleasing")
    /\ UNCHANGED <<rows, dead, repair, flags, pool, alarm, up, dirty, pass, world, bounds, told,
                   ranOk, settled, charged, unarmed, unremoved>>

(* Success: the outcome row first, then the rows that make the job pending. *)
RecordOutcome(j) ==
    /\ At(j, "released") /\ ~lane[j].cancelled /\ Ok(j)
    /\ done' = [done EXCEPT ![j] = Row(lane[j].job.n, now, "succeeded")]
    /\ history' = history \cup {Ix(now, j)}
    /\ Move(j, "clearing")
    /\ UNCHANGED <<rows, dead, repair, flags, pool, alarm, up, dirty, pass, world, bounds, ghosts>>
(* The outcome is refused: it is kept aside for the successor, if that write lands. *)
OutcomeRefused(j) ==
    /\ At(j, "released") /\ ~lane[j].cancelled /\ Ok(j)
    /\ \/ /\ faults + 1 <= MaxFaults /\ faults' = faults + 1
          /\ repair' = [repair EXCEPT ![j] = Row(lane[j].job.n, now, "succeeded")]
       \/ /\ faults + 2 <= MaxFaults /\ faults' = faults + 2
          /\ UNCHANGED repair
    /\ dirty' = TRUE
    /\ Move(j, "clearing")
    /\ UNCHANGED <<rows, dead, done, history, flags, pool, alarm, up, pass, world, now, jobs,
                   crashes, losses, ghosts>>
clearPending(j) ==
    /\ open' = Closed(j)
    /\ Move(j, "unleasing")
    /\ UNCHANGED <<outcomes, flags, pool, alarm, up, pass, world, now, jobs, crashes, losses,
                   told, ranOk, settled, charged, unarmed, unremoved>>
ParkUncleared(j) ==                                               \* mutant
    /\ At(j, "clearing") \/ At(j, "parked")
    /\ header' = IF At(j, "parked") THEN header ELSE [header EXCEPT ![j] = NoJob]
    /\ clearPending(j)
    /\ UNCHANGED <<index, dirty, faults>>
Clear(j) ==
    /\ At(j, "clearing") \/ At(j, "parked")
    /\ header' = [header EXCEPT ![j] = NoJob]
    /\ clearPending(j)
    /\ UNCHANGED <<index, dirty, faults>>
(* Swallowed: the header stays behind an outcome that is already told. *)
ClearRefused(j) ==
    /\ At(j, "clearing") /\ faults < MaxFaults /\ faults' = faults + 1
    /\ dirty' = TRUE
    /\ clearPending(j)
    /\ UNCHANGED rows

(* Failure: recordRetry charges the attempt and re-arms it, or parks the job. *)
ChargedAlways(j) == TRUE                                          \* mutant
Charged(j)  == lane[j].reply # "declined"
Unsaturated(j) == lane[j].job.attempts + IF Charged(j) THEN 1 ELSE 0     \* mutant
AttemptsOf(j) == IF Charged(j) /\ lane[j].job.attempts < AttemptCap
                 THEN lane[j].job.attempts + 1 ELSE lane[j].job.attempts
DelayOf(j)  == LET backoff == Delay[j][lane[j].job.attempts]
               IN  IF ~Charged(j) /\ backoff < RetryBase THEN RetryBase ELSE backoff
Exhausted(j) == \/ j \notin Forever /\ AttemptsOf(j) > Budget[j]
                \/ now + DelayOf(j) > MaxIndexable
Fails(j) == At(j, "released") /\ ~lane[j].cancelled /\ ~Ok(j)
charge(j) == charged' = IF lane[j].reply # "declined" THEN [charged EXCEPT ![j] = @ + 1] ELSE charged

recordRetry(j) ==
    /\ Fails(j) /\ ~Exhausted(j)
    /\ header' = [header EXCEPT ![j] = [lane[j].job EXCEPT !.due = now + DelayOf(j),
                                                          !.attempts = AttemptsOf(j)]]
    /\ index' = index \cup {Ix(now + DelayOf(j), j)}
    /\ charge(j) /\ open' = Closed(j)
    /\ Move(j, "unleasing")
    /\ UNCHANGED <<outcomes, flags, pool, alarm, up, dirty, pass, world, bounds, told, ranOk,
                   settled, unarmed, unremoved>>
parkDead(j) ==
    /\ Fails(j) /\ Exhausted(j)
    /\ dead' = [dead EXCEPT ![j] = Row(lane[j].job.n, now, "failed")]
    /\ history' = history \cup {Ix(now, j)}
    /\ charge(j) /\ settled' = settled \cup {Key(j)}
    /\ Move(j, "parked")
    /\ UNCHANGED <<rows, done, repair, flags, pool, alarm, up, dirty, pass, world, bounds,
                   told, ranOk, open, unarmed, unremoved>>
-----------------------------------------------------------------------------
(* The tail of drainRecordGuarded: the lease goes last, and best-effort. *)
RecomputedKey(j) == Ix(lane[j].job.due, j)                        \* mutant
LeaseKey(j) == Ix(lane[j].lease, j)
Unlease(j) ==
    /\ At(j, "unleasing")
    /\ \/ index' = index \ {LeaseKey(j)} /\ UNCHANGED faults
       \/ faults < MaxFaults /\ faults' = faults + 1 /\ UNCHANGED index
    /\ Free(j)
    /\ UNCHANGED <<header, outcomes, flags, pool, alarm, up, dirty, pass, world, now, jobs, crashes,
                   losses, ghosts>>

(* A storage operation of the lane rejects: its catch block takes over. *)
LaneFault(j) ==
    /\ \/ NextInLine(j)
       \/ At(j, "unindexed") \/ At(j, "refused") \/ At(j, "answered") \/ At(j, "parked")
       \/ At(j, "leased") /\ j \in Pooled
       \/ Fails(j)
    /\ faults < MaxFaults /\ faults' = faults + 1
    /\ lane' = [lane EXCEPT ![j].pc = "failing",
                            ![j].lease = IF At(j, "queued") THEN now + Lease ELSE @]
    /\ UNCHANGED <<rows, outcomes, flags, pool, alarm, up, dirty, pass, world, now, jobs, crashes,
                   losses, ghosts>>
(* The catch block does all of its writes, or some of them and the store is not vouched for. *)
LeaseRow(j) == {LeaseKey(j)}
CatchWrites(j, n) ==       \* the first n of its two writes land
    IF lane[j].cancelled
    THEN /\ index' = IF n > 0 THEN index \ LeaseRow(j) ELSE index
         /\ UNCHANGED header
    ELSE IF Has(dead[j])
    THEN /\ index' = IF n > 0 THEN index \ LeaseRow(j) ELSE index
         /\ header' = IF n > 1 THEN [header EXCEPT ![j] = NoJob] ELSE header
    ELSE /\ index' = (IF n > 0 THEN index \cup {Ix(lane[j].claim, j)} ELSE index)
                     \ (IF n > 1 THEN LeaseRow(j) ELSE {})
         /\ UNCHANGED header
Catch(j) ==
    /\ At(j, "failing")
    /\ \/ CatchWrites(j, 2) /\ UNCHANGED <<dirty, faults>>
       \/ /\ faults < MaxFaults /\ faults' = faults + 1
          /\ \E n \in {0, 1} : CatchWrites(j, n)
          /\ dirty' = TRUE
    /\ open' = Closed(j)
    /\ Free(j)
    /\ UNCHANGED <<outcomes, flags, pool, alarm, up, pass, world, now, jobs, crashes, losses,
                   told, ranOk, settled, charged, unarmed, unremoved>>

(***************************************************************************)
(* Time passes only while no handler is between two storage operations. An *)
(* alarm invocation is torn down when it has lasted DISPATCH_LEASE_MS, the *)
(* platform's limit.                                                       *)
(***************************************************************************)
Tick ==
    /\ GateOpen \/ ~up
    /\ pass.on => now + TickStep <= pass.since + Lease
    /\ Prompt => /\ ~paused /\ ~pass.on /\ alarm \notin 0..now /\ world = <<{}, {}>>
                 /\ up \/ alarm # NoAlarm
    /\ now + TickStep <= MaxClock
    /\ now' = now + TickStep
    /\ UNCHANGED <<rows, outcomes, flags, pool, alarm, volatile, world, jobs, crashes, faults,
                   losses, ghosts>>
-----------------------------------------------------------------------------
Request ==
    \/ Schedule \/ handleComplete \/ CompleteUnarmed \/ Pause \/ Resume
    \/ \E j \in Id : \/ handleCancel(j) \/ CancelFinished(j) \/ CancelRefused(j)
                     \/ CancelUnclocked(j) \/ handleDeadRetry(j) \/ handleDeadCancel(j)
Cut == \/ BootCut \/ ScheduleCut \/ PoolCapCut \/ CancelCut \/ DeadRetryCut \/ DeadRetryLate
       \/ DeadCancelCut \/ PauseCut \/ ResumeCut \/ Crash \/ EndCut
Alarm == AlarmPaused \/ AlarmIdle \/ AlarmRefused \/ AlarmDrain \/ EndDrain \/ EndRefused
Dispatch(j) == Send(j) \/ SendAnswered(j) \/ SendDeclined(j) \/ SendLost(j)
Drain(j) ==
    \/ ClaimGone(j) \/ ClaimSkipped(j) \/ Claim(j) \/ PutLease(j)
    \/ Reserve(j) \/ Refuse(j) \/ requeuePooled(j) \/ Dispatch(j)
    \/ Answer(j) \/ ReleaseSlot(j) \/ CancelledSettles(j)
    \/ RecordOutcome(j) \/ OutcomeRefused(j) \/ Clear(j) \/ ClearRefused(j)
    \/ recordRetry(j) \/ parkDead(j) \/ Unlease(j) \/ LaneFault(j) \/ Catch(j)

Next ==
    \/ Boot \/ Request \/ Cut \/ Alarm \/ CompleteLost \/ Tick
    \/ \E j \in Id : Drain(j) \/ Disconnect(j)
    \/ \E k \in running, result \in {"ok", "error"} : RunEnds(k, result)

Spec == Init /\ [][Next]_vars
-----------------------------------------------------------------------------
RowsTyped     == header \in [Id -> Job] /\ index \subseteq (Nat \X Id)
OutcomesTyped == /\ dead \in [Id -> Terminal] /\ done \in [Id -> Terminal]
                 /\ repair \in [Id -> Terminal] /\ history \subseteq (Nat \X Id)
PoolTyped     == pool \in [cap: Nat \ {0}, holders: SUBSET Id]
WorldTyped    == running \subseteq (Id \X Nat) /\ calls \subseteq (Id \X {"awaited", "stray"})
ClockTyped    == /\ clean \in BOOLEAN /\ paused \in BOOLEAN /\ alarm \in Nat \cup {NoAlarm}
                 /\ up \in BOOLEAN /\ dirty \in BOOLEAN /\ pass \in [on: BOOLEAN, since: Nat]
                 /\ now \in Nat
BoundsTyped   == /\ jobs \in [Id -> Nat]
                 /\ crashes \in Nat /\ faults \in Nat /\ losses \in Nat
LaneTyped     == lane \in [Id -> Lane]
GhostsTyped   == /\ told \subseteq (Id \X Nat) /\ ranOk \subseteq (Id \X Nat)
                 /\ settled \subseteq (Id \X Nat) /\ charged \in [Id -> Nat]
                 /\ open \in [Id -> [n: Nat, at: Nat]]
                 /\ unarmed \in BOOLEAN /\ unremoved \subseteq (Id \X Nat)
TypeOK == /\ RowsTyped /\ OutcomesTyped /\ PoolTyped /\ WorldTyped /\ ClockTyped
          /\ BoundsTyped /\ LaneTyped /\ GhostsTyped
-----------------------------------------------------------------------------
(* Safety of the store. *)

(* CLEAN_KEY stands over no job without an index row, which the next instance would not *)
(* look for: whatever is cut or refused, except the delete of a /cancel whose dispatch   *)
(* was open (the comment of CLEAN_KEY, 141, makes no exception).                        *)
CleanMeansIndexed ==
    clean => \A j \in Id :
        Has(header[j]) /\ header[j].due <= MaxIndexable /\ <<j, header[j].n>> \notin unremoved
            => Indexed(j)

(* Whenever an instance is at rest and not paused, pending rows have an alarm to fire them: *)
(* whatever is cut or refused, except the write that arms it, until it is armed again.     *)
ClockRuns == up /\ ~paused /\ ~pass.on /\ ~unarmed /\ index # {} => alarm # NoAlarm

(* Without a lost instance the alarm is never later than a pending row: no job fires late, *)
(* unless the write that arms it was refused.                                              *)
ClockPunctual ==
    up /\ ~paused /\ ~pass.on /\ ~unarmed
        => \A e \in index : alarm # NoAlarm /\ alarm <= e[1]

(* Every outcome is listed by the history index, under the instant the row carries; a   *)
(* row the index does not name is invisible to /history and is never swept.             *)
HistoryIndexed ==
    \A j \in Id : /\ Has(done[j]) => Ix(done[j].at, j) \in history
                  /\ Has(dead[j]) /\ ~Expired(dead[j].at) => Ix(dead[j].at, j) \in history

(* /get answers from the outcome row first: beside a pending job it must be that job's. *)
OutcomeIsOwn == \A j \in Id : Has(header[j]) /\ Has(done[j]) => done[j].n = header[j].n

(* A "succeeded" outcome is that of a job whose handler did succeed. *)
SucceededRan == \A j \in Id : done[j].state = "succeeded" => <<j, done[j].n>> \in ranOk

(* With every answer delivered, a job that reads "canceled" once its lane ended never ran. *)
CanceledNeverRan ==
    \A j \in Id : At(j, "idle") /\ done[j].state = "canceled" => <<j, done[j].n>> \notin ranOk

(* A dead letter spent its whole budget on failures, declined deliveries not counted, *)
(* or its next attempt could not be indexed.                                          *)
DeadOnlyWhenSpent ==
    \A j \in Id : Has(dead[j]) /\ MaxClock + DelayOf(j) <= MaxIndexable
                    => j \notin Forever /\ charged[j] > Budget[j]
-----------------------------------------------------------------------------
(* Action properties of the dispatches. *)
SendStep(j) == ~At(j, "sent") /\ lane'[j].pc = "sent"

(* A job whose rows /cancel removed is neither sent nor written back by a later step. *)
CancelHolds ==
    [][\A j \in Id : /\ SendStep(j) => Key(j) \notin told
                     /\ Has(header'[j]) => <<j, header'[j].n>> \notin told']_vars

(* While the deployment is paused nothing is sent. *)
NoSendWhilePaused == [][\A j \in Id : SendStep(j) => ~paused]_vars

(* A dispatch whose instance was lost before it was settled, be it open, answered or parked *)
(* with the pending rows still there, is not repeated within its lease.                    *)
NoEarlyRefire ==
    [][\A j \in Id : SendStep(j) /\ open[j].n = lane[j].job.n
                        => now >= open[j].at + Lease]_vars

(* No job is sent before the time it was scheduled, requeued or backed off to. *)
NotBeforeDue == [][\A j \in Id : SendStep(j) => now >= lane[j].job.due]_vars

(* A job answered 2xx or parked "must never re-fire".  One refused operation is not enough *)
(* to make it, nor is any number of lost instances, except one lost between the answer or  *)
(* the dead letter and the removal of the pending rows, after which NoEarlyRefire holds.   *)
NeverRefireSettled ==
    [][\A j \in Id : SendStep(j) /\ Key(j) \in settled => faults # 0 /\ faults + crashes > 1]_vars

(* A pending job only disappears because it succeeded, was cancelled or was dead-lettered. *)
NeverVanishes ==
    [][\A j \in Id : Has(header[j]) /\ header'[j].n # header[j].n
          => \/ <<j, header[j].n>> \in told' \cup ranOk'
             \/ \E row \in {dead'[j], done'[j]} : row.n = header[j].n /\ row.state = "failed"]_vars
-----------------------------------------------------------------------------
(* The pool. *)
PooledRunning == {k \in running : k[1] \in Pooled}

(* The workpool "dispatches at most maxConcurrency of the pool's jobs at once". *)
PoolBounded == Cardinality(PooledRunning) <= pool.cap
(* A job whose handler runs holds a slot: no slot is given away under it. *)
SlotHeld == \A k \in PooledRunning : k[1] \in pool.holders
-----------------------------------------------------------------------------
(***************************************************************************)
(* Liveness.  The platform fires due alarms, starts an instance for one,   *)
(* runs lanes and time; handlers end and report; nobody need resume a      *)
(* paused deployment, nor ever stop pausing it, nor send any request.      *)
(***************************************************************************)
Fairness ==
    /\ WF_vars(alarm \in 0..now /\ Boot) /\ WF_vars(Alarm) /\ WF_vars(Tick)
    /\ WF_vars(handleComplete)
    /\ \A j \in Id : WF_vars(Drain(j))
    /\ \A j \in Id, n \in 1..MaxJobs : 
           WF_vars(\E result \in {"ok", "error"} : RunEnds(<<j, n>>, result))
FairSpec == Spec /\ Fairness

(* A job pending while the clock has a whole retry ladder left ahead of it, and that no *)
(* pause holds back for ever, leaves the store: by an outcome, a park or a cancel.  When *)
(* an instance was lost and no alarm is left to start the next one, some request must.   *)
PendingSettles ==
    <>[]~paused /\ []<>(up \/ alarm # NoAlarm) =>
        \A j \in Id : Has(header[j]) /\ now <= Horizon ~> ~Has(header[j])

(* While no call fails, every pool slot that is reserved is given back. *)
SlotReleased == \A j \in Id : j \in pool.holders ~> j \notin pool.holders
=============================================================================
