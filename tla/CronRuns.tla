------------------------------- MODULE CronRuns -------------------------------
(***************************************************************************)
(* The no-overlap lease of one code-defined cron job: the worker's half    *)
(* (packages/runtime/src/cron-runs.ts) and the SchedulerDO's half          *)
(* (`/cron/begin`, `/cron/renew`, `/cron/end`, `/cron/runs` in             *)
(* packages/scheduler/src/scheduler-do.ts).                                *)
(*                                                                         *)
(* A handler of the object is one step: its storage operations keep other  *)
(* events out.  It is cut between two writes when one is rejected or the   *)
(* instance dies; the caller then sees a failed call.  Time is kept as the *)
(* age of the lease and the countdowns of the workers.                     *)
(***************************************************************************)
EXTENDS Naturals, Sequences, FiniteSets

CONSTANTS
    Worker,        \* isolates that serve a tick of the cron or a "Run now"
    Lease,         \* DISPATCH_LEASE_MS
    Renew,         \* CRON_LEASE_RENEW_MS
    Latency,       \* bound: the age at which the answer to /cron/begin has arrived or is lost
    HistoryLimit,  \* CRON_HISTORY_LIMIT
    MaxRuns,       \* bound: leases taken
    MaxPauses,     \* bound: changes of the pause flag
    MaxFaults,     \* bound: handlers cut between two writes, and rejected best-effort writes
    MaxLosses      \* bound: calls of the worker that fail

(* Two renewal periods and the delay of an answer fit into the lease. *)
ASSUME ConstantsAssumption ==
    /\ {Lease, Renew, HistoryLimit} \subseteq Nat \ {0}
    /\ {Latency, MaxRuns, MaxPauses, MaxFaults, MaxLosses} \subseteq Nat
    /\ 2 * Renew + Latency < Lease

VARIABLES
    lease,      \* `cl:` row: the run that holds it, and the age of its newest sign of life
    history,    \* `cr:` rows, newest end first
    paused,     \* PAUSE_KEY present
    worker,     \* per isolate: its run, and the time until its answer or its next renewal
    runs,       \* runs that took the lease so far; run ids count up
    pauses, faults, losses,
    (* history variables *)
    missed,     \* per isolate: renewals that failed since the last sign of life
    reported,   \* runs whose own report was recorded
    lost        \* runs recorded as lost

store  == <<lease, history>>
bounds == <<pauses, faults, losses>>
ghosts == <<missed, reported, lost>>
vars   == <<store, paused, worker, runs, bounds, ghosts>>
-----------------------------------------------------------------------------
LeaseRow == [run: Nat, idle: 0..Lease]
NoLease  == [run |-> 0, idle |-> 0]

Status == {"succeeded", "failed", "lost", "paused", "in-flight"}
RunRow == [run: Nat, status: Status]          \* the last two are skipped ticks, with run = 0
Row(r, status) == [run |-> r, status |-> status]

WorkerPc  == {"idle", "granted", "running", "lapsed", "unguarded", "succeeded", "failed"}
WorkerRow == [pc: WorkerPc, run: Nat, timer: Nat]
Idle      == [pc |-> "idle", run |-> 0, timer |-> 0]
Unguarded == [pc |-> "unguarded", run |-> 0, timer |-> 0]

Is(w, pc)  == worker[w].pc = pc
Ending(w)  == Is(w, "succeeded") \/ Is(w, "failed")
Becomes(w, row) == worker' = [worker EXCEPT ![w] = row]
Guarded(w) == Is(w, "granted") \/ Is(w, "running") \/ Is(w, "lapsed")

leaseIsLive == lease.run # 0 /\ lease.idle < Lease

Init ==
    /\ lease = NoLease /\ history = <<>> /\ paused = FALSE
    /\ worker = [w \in Worker |-> Idle]
    /\ runs = 0 /\ pauses = 0 /\ faults = 0 /\ losses = 0
    /\ missed = [w \in Worker |-> 0] /\ reported = {} /\ lost = {}
-----------------------------------------------------------------------------
(***************************************************************************)
(* Run rows.  recordCronRun writes a row and drops what is past the limit; *)
(* when it is cut in between, the next one drops it.                       *)
(***************************************************************************)
Put(row) == <<row>> \o history
Untrimmed(rows) == rows                                           \* mutant
Trimmed(rows) == SubSeq(rows, 1, IF Len(rows) < HistoryLimit THEN Len(rows) ELSE HistoryLimit)
recordCronRun(row) == history' = Trimmed(Put(row))
recordCronRunCut(row) == history' \in {Put(row), Trimmed(Put(row))}

(* A skip in a row of skips for the same reason moves that row instead of adding one. *)
Streak(reason) == Len(history) > 0 /\ history[1].status = reason
recordCronSkip(reason) ==
    \/ /\ IF Streak(reason) THEN UNCHANGED history ELSE recordCronRun(Row(0, reason))
       /\ UNCHANGED faults
    \/ faults < MaxFaults /\ faults' = faults + 1 /\ UNCHANGED history

(* A run that lost its lease is recorded as failed, unless it was recorded already. *)
Unknown(r) == FALSE                                               \* mutant
Known(r) == \E i \in 1..Len(history) : history[i].run = r
recordLostCronRun ==
    IF lease.run = 0 \/ Known(lease.run) THEN UNCHANGED <<history, lost>>
    ELSE recordCronRun(Row(lease.run, "lost")) /\ lost' = lost \cup {lease.run}
recordLostCut ==
    /\ lease.run # 0 /\ ~Known(lease.run)
    /\ recordCronRunCut(Row(lease.run, "lost")) /\ lost' = lost \cup {lease.run}
-----------------------------------------------------------------------------
(* POST /cron/begin: the tick is skipped, or it takes the lease. *)
SkipRenews(reason) ==                                             \* mutant
    /\ \/ paused /\ reason = "paused" /\ UNCHANGED lease
       \/ ~paused /\ leaseIsLive /\ reason = "in-flight" /\ lease' = [lease EXCEPT !.idle = 0]
    /\ recordCronSkip(reason)
    /\ UNCHANGED <<runs, lost>>
BeginSkips(reason) ==
    /\ \/ paused /\ reason = "paused"
       \/ ~paused /\ leaseIsLive /\ reason = "in-flight"
    /\ recordCronSkip(reason)
    /\ UNCHANGED <<lease, runs, lost>>
BeginTakes ==
    /\ ~paused /\ ~leaseIsLive
    /\ runs < MaxRuns /\ runs' = runs + 1
    /\ recordLostCronRun
    /\ lease' = [run |-> runs + 1, idle |-> 0]

(* A tick of the cron, or a "Run now", on an isolate. *)
TickSkipped(w) ==
    /\ Is(w, "idle")
    /\ \E reason \in {"paused", "in-flight"} : BeginSkips(reason)
    /\ UNCHANGED <<worker, paused, pauses, losses, missed, reported>>
TickTakes(w) ==
    /\ Is(w, "idle")
    /\ BeginTakes
    /\ Becomes(w, [pc |-> "granted", run |-> runs + 1, timer |-> Latency])
    /\ UNCHANGED <<paused, bounds, missed, reported>>

(* The call failed, before or after the object served it: the job runs unguarded. *)
TickUnanswered(w) ==
    /\ Is(w, "idle") /\ losses < MaxLosses /\ losses' = losses + 1
    /\ \/ \E reason \in {"paused", "in-flight"} : BeginSkips(reason)
       \/ BeginTakes /\ UNCHANGED faults
       \/ UNCHANGED <<store, runs, lost, faults>>
    /\ Becomes(w, Unguarded)
    /\ UNCHANGED <<paused, pauses, missed, reported>>
TickCut(w) ==
    /\ Is(w, "idle") /\ faults < MaxFaults /\ faults' = faults + 1
    /\ ~paused /\ ~leaseIsLive
    /\ recordLostCut
    /\ Becomes(w, Unguarded)
    /\ UNCHANGED <<lease, paused, runs, pauses, losses, missed, reported>>

(* The answer arrives: the run starts, and with it the renewals. *)
Start(w) ==
    /\ Is(w, "granted")
    /\ Becomes(w, [worker[w] EXCEPT !.pc = "running", !.timer = Renew])
    /\ UNCHANGED <<store, paused, runs, bounds, ghosts>>
-----------------------------------------------------------------------------
(* POST /cron/renew, when the interval timer of a run fires. *)
Renewable(w) == lease.run = worker[w].run /\ leaseIsLive
Ignored(w) == UNCHANGED lease                                     \* mutant
handleCronRenew(w) == lease' = [lease EXCEPT !.idle = 0]
TimerFires(w) == Is(w, "running") /\ worker[w].timer = 0
KeepsTimer(w) == Becomes(w, [worker[w] EXCEPT !.timer = Renew])

Renewed(w) ==
    /\ TimerFires(w) /\ Renewable(w)
    /\ handleCronRenew(w) /\ KeepsTimer(w)
    /\ missed' = [missed EXCEPT ![w] = 0]
    /\ UNCHANGED <<history, paused, runs, bounds, reported, lost>>
RenewRefused(w) ==
    /\ TimerFires(w) /\ ~Renewable(w)
    /\ Becomes(w, [worker[w] EXCEPT !.pc = "lapsed"])
    /\ UNCHANGED <<store, paused, runs, bounds, ghosts>>
RenewUnanswered(w) ==
    /\ TimerFires(w) /\ losses < MaxLosses /\ losses' = losses + 1
    /\ \/ Renewable(w) /\ handleCronRenew(w) /\ missed' = [missed EXCEPT ![w] = 0]
       \/ UNCHANGED lease /\ missed' = [missed EXCEPT ![w] = @ + 1]
    /\ KeepsTimer(w)
    /\ UNCHANGED <<history, paused, runs, pauses, faults, reported, lost>>

(* The job ends; an unguarded run has nothing to report. *)
RunEnds(w, status) ==
    /\ \/ /\ Is(w, "running") \/ Is(w, "lapsed")
          /\ Becomes(w, [worker[w] EXCEPT !.pc = status, !.timer = 0])
       \/ Is(w, "unguarded") /\ Becomes(w, Idle)
    /\ missed' = [missed EXCEPT ![w] = 0]
    /\ UNCHANGED <<store, paused, runs, bounds, reported, lost>>

(* POST /cron/end: record first, release second; a report of another run is ignored. *)
AnyHolder(w) == lease.run # 0                                     \* mutant
Holds(w) == lease.run = worker[w].run
ReportFirstReleased(w) ==                                         \* mutant
    /\ Ending(w) /\ Holds(w) /\ faults < MaxFaults /\ faults' = faults + 1
    /\ lease' = NoLease
    /\ Becomes(w, Idle)
    /\ UNCHANGED <<history, paused, runs, pauses, losses, ghosts>>
Reported(w) ==
    /\ Ending(w) /\ Holds(w)
    /\ recordCronRun(Row(lease.run, worker[w].pc))
    /\ lease' = NoLease
    /\ reported' = reported \cup {lease.run}
    /\ Becomes(w, Idle)
    /\ UNCHANGED <<paused, runs, bounds, missed, lost>>
ReportCut(w) ==
    /\ Ending(w) /\ Holds(w) /\ faults < MaxFaults /\ faults' = faults + 1
    /\ recordCronRunCut(Row(lease.run, worker[w].pc))
    /\ reported' = reported \cup {lease.run}
    /\ Becomes(w, Idle)
    /\ UNCHANGED <<lease, paused, runs, pauses, losses, missed, lost>>
ReportIgnored(w) ==
    /\ Ending(w) /\ ~Holds(w)
    /\ Becomes(w, Idle)
    /\ UNCHANGED <<store, paused, runs, bounds, ghosts>>
ReportLost(w) ==
    /\ Ending(w) /\ losses < MaxLosses /\ losses' = losses + 1
    /\ Becomes(w, Idle)
    /\ UNCHANGED <<store, paused, runs, pauses, faults, ghosts>>

(* The isolate is torn down with whatever it was doing. *)
Dies(w) ==
    /\ ~Is(w, "idle")
    /\ Becomes(w, Idle) /\ missed' = [missed EXCEPT ![w] = 0]
    /\ UNCHANGED <<store, paused, runs, bounds, reported, lost>>
-----------------------------------------------------------------------------
(* GET /cron/runs reconciles a lease that lapsed. *)
ListRuns ==
    /\ lease.run # 0 /\ ~leaseIsLive
    /\ recordLostCronRun /\ lease' = NoLease
    /\ UNCHANGED <<paused, worker, runs, bounds, missed, reported>>
ListRunsCut ==
    /\ ~leaseIsLive /\ recordLostCut
    /\ faults < MaxFaults /\ faults' = faults + 1
    /\ UNCHANGED <<lease, paused, worker, runs, pauses, losses, missed, reported>>

SetPause ==
    /\ pauses < MaxPauses /\ pauses' = pauses + 1
    /\ paused' = ~paused
    /\ UNCHANGED <<store, worker, runs, faults, losses, ghosts>>

(* A timer that is due fires, and an answer in flight arrives, before time goes on. *)
Counting(w) == Is(w, "granted") \/ Is(w, "running")
Older(l) == IF l.run # 0 /\ l.idle < Lease THEN [l EXCEPT !.idle = @ + 1] ELSE l
Elapse ==
    /\ \A w \in Worker : Counting(w) => worker[w].timer > 0
    /\ lease' = Older(lease)
    /\ worker' = [w \in Worker |-> IF Counting(w) THEN [worker[w] EXCEPT !.timer = @ - 1]
                                   ELSE worker[w]]
    /\ UNCHANGED <<history, paused, runs, bounds, ghosts>>

TickArrives(w) == TickSkipped(w) \/ TickTakes(w) \/ TickUnanswered(w) \/ TickCut(w)
RenewStep(w) == Renewed(w) \/ RenewRefused(w) \/ RenewUnanswered(w)
ReportStep(w) == Reported(w) \/ ReportCut(w) \/ ReportIgnored(w) \/ ReportLost(w)
End(w) == \E status \in {"succeeded", "failed"} : RunEnds(w, status)
Work(w) == TickArrives(w) \/ Start(w) \/ RenewStep(w) \/ End(w) \/ ReportStep(w) \/ Dies(w)
Next == ListRuns \/ ListRunsCut \/ SetPause \/ Elapse \/ \E w \in Worker : Work(w)

Spec == Init /\ [][Next]_vars

(* Time passes, answers arrive, timers fire, jobs end, ticks keep coming on some isolate. *)
Fairness ==
    /\ WF_vars(Elapse)
    /\ \A w \in Worker : WF_vars(Start(w)) /\ WF_vars(RenewStep(w)) /\ WF_vars(End(w))
                         /\ WF_vars(ReportStep(w))
    /\ WF_vars(\E w \in Worker : TickTakes(w))
FairSpec == Spec /\ Fairness
-----------------------------------------------------------------------------
(* The history holds at most HistoryLimit rows, one more for each cut that kept it. *)
TypeOK ==
    /\ lease \in LeaseRow
    /\ history \in Seq(RunRow) /\ Len(history) <= HistoryLimit + faults
    /\ paused \in BOOLEAN
    /\ worker \in [Worker -> WorkerRow]
    /\ runs \in Nat /\ pauses \in Nat /\ faults \in Nat /\ losses \in Nat
    /\ missed \in [Worker -> Nat]
    /\ reported \subseteq Nat /\ lost \subseteq Nat

(* No run vanishes: one that took the lease still holds it or has an outcome on record. *)
RunAccounted == \A r \in 1..runs : r = lease.run \/ r \in reported \cup lost

(* Two guarded runs of the cron execute at once only when one of them failed to renew *)
(* twice in a row (or was told that its lease is gone, which takes as much).          *)
NoOverlap ==
    \A v, w \in Worker : v # w /\ Guarded(v) /\ Guarded(w) => missed[v] >= 2 \/ missed[w] >= 2

(* A live lease is only given up by the report of the run that holds it: a late report *)
(* of an earlier run does not free its successor's.                                    *)
HolderOnly ==
    [][leaseIsLive /\ lease'.run # lease.run
         => \E w \in Worker : Ending(w) /\ worker[w].run = lease.run /\ worker'[w].pc = "idle"]_vars

(* A run that reported its outcome is not recorded as lost afterwards. *)
LostOnlyUnreported == [][(lost' \ lost) \cap reported = {}]_vars

(* A run that died does not block its cron for ever: the lease it left goes to another. *)
Abandoned(r) == lease.run = r /\ \A w \in Worker : worker[w].run # r
DeadLeaseGoes ==
    <>[]~paused => \A r \in 1..(MaxRuns - 1) : Abandoned(r) ~> lease.run # r
=============================================================================
