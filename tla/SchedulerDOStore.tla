-------------------------- MODULE SchedulerDOStore --------------------------
(***************************************************************************)
(* Proofs about SchedulerDO for every value of its constants: what the     *)
(* store promises whatever instance is lost and whatever write fails.      *)
(***************************************************************************)
EXTENDS SchedulerDOProofs

USE DEF Ix, Key, At, Has

(* Lanes work only inside an alarm() invocation of a live instance, and for its length *)
(* the store does not vouch for itself.                                                *)
Draining ==
    /\ \A j \in Id : ~At(j, "idle") => pass.on
    /\ pass.on => up /\ ~clean
    /\ ~up => ~dirty

(* What a step of one lane leaves alone: the flags, the clock, the requests, and every *)
(* row and lane of the other ids.                                                      *)
Framed(j) ==
    /\ ~At(j, "idle")
    /\ UNCHANGED <<up, pass, clean, paused, alarm, now, jobs, crashes, told, ranOk, unarmed, unremoved>>
    /\ \A h \in Id \ {j} : /\ lane'[h] = lane[h] /\ header'[h] = header[h] /\ dead'[h] = dead[h]
                           /\ done'[h] = done[h] /\ repair'[h] = repair[h]
    /\ \A e \in Nat \X Id : e[2] # j => /\ e \in index' <=> e \in index
                                        /\ e \in history' <=> e \in history
-----------------------------------------------------------------------------
(* A lane touches the rows of its own id only (drainRecordGuarded). *)
LEMMA LaneFrame == ASSUME TypeOK, NEW j \in Id, Drain(j) \/ Disconnect(j) PROVE Framed(j)
<1>0. RowsTyped /\ OutcomesTyped /\ LaneTyped
  BY DEF TypeOK
<1>1. CASE ClaimGone(j) \/ ClaimSkipped(j) \/ Claim(j) \/ PutLease(j)
  BY <1>1, <1>0 DEF ClaimGone, Free, NextInLine, ClaimSkipped, Claim, PutLease, Move, outcomes,
     flags, bounds, ghosts, rows, RowsTyped, OutcomesTyped, LaneTyped, Framed
<1>2. CASE Reserve(j) \/ Refuse(j) \/ requeuePooled(j)
  BY <1>2, <1>0 DEF Reserve, Move, Refuse, requeuePooled, rows, outcomes, flags, bounds, ghosts,
     RowsTyped, OutcomesTyped, LaneTyped, Framed
<1>3. CASE Send(j) \/ SendAnswered(j) \/ SendDeclined(j) \/ SendLost(j)
  BY <1>3, <1>0 DEF Send, Sent, SendAnswered, SendDeclined, SendLost, rows, outcomes, flags,
     RowsTyped, OutcomesTyped, LaneTyped, Framed
<1>4. CASE Answer(j) \/ ReleaseSlot(j)
  BY <1>4, <1>0 DEF Answer, Move, ReleaseSlot, rows, outcomes, flags, bounds, ghosts, RowsTyped,
     OutcomesTyped, LaneTyped, Framed
<1>5. CASE CancelledSettles(j) \/ RecordOutcome(j) \/ OutcomeRefused(j)
  BY <1>5, <1>0 DEF CancelledSettles, correctCanceledToSucceeded, Move, RecordOutcome,
     OutcomeRefused, rows, flags, bounds, ghosts, RowsTyped, OutcomesTyped, LaneTyped, Framed
<1>6. CASE Clear(j) \/ ClearRefused(j)
  BY <1>6, <1>0 DEF Clear, clearPending, Move, ClearRefused, outcomes, flags, rows, RowsTyped,
     OutcomesTyped, LaneTyped, Framed
<1>7. CASE recordRetry(j) \/ parkDead(j)
  BY <1>7, <1>0 DEF recordRetry, DelayOf, Move, Fails, parkDead, outcomes, flags, bounds, rows,
     RowsTyped, OutcomesTyped, LaneTyped, Framed
<1>8. CASE Unlease(j) \/ Catch(j)
  BY <1>8, <1>0 DEF Unlease, LeaseKey, Free, Catch, CatchWrites, LeaseRow, outcomes, flags, ghosts,
     RowsTyped, OutcomesTyped, LaneTyped, Framed
<1>9. CASE LaneFault(j) \/ Disconnect(j)
  BY <1>9, <1>0 DEF LaneFault, NextInLine, Fails, Disconnect, rows, outcomes, flags, ghosts,
     RowsTyped, OutcomesTyped, LaneTyped, Framed
<1> QED
  BY <1>1, <1>2, <1>3, <1>4, <1>5, <1>6, <1>7, <1>8, <1>9 DEF Drain, Dispatch

(* The requests that are stopped between two writes, beside /cancel. *)
RequestCut == \/ ScheduleCut \/ PoolCapCut \/ DeadRetryCut \/ DeadRetryLate \/ DeadCancelCut
              \/ PauseCut \/ ResumeCut

(* Such a request leaves the lanes as they are, or the instance is lost with all of them. *)
LEMMA StoppedFrame ==
    ASSUME Stopped
    PROVE  /\ now' = now
           /\ \/ UNCHANGED <<lane, up, dirty, pass>>
              \/ lane' = [h \in Id |-> IdleLane] /\ ~up' /\ ~dirty' /\ ~pass'.on
BY DEF Stopped, Die, Refused, volatile

LEMMA CutStops == RequestCut => GateOpen /\ Stopped /\ clean' = clean
BY DEF RequestCut, ScheduleCut, handleSchedule, PoolCapCut, DeadRetryCut, revive, DeadRetryLate,
   DeadCancelCut, PauseCut, ResumeCut, NotArmed, Stopped, flags

(* Nothing but the alarm starts a lane, and the drain outlives its lanes (alarm, drainDue). *)
LEMMA DrainingStep == Inv /\ Draining /\ [Next]_vars => Draining'
<1> SUFFICES ASSUME Inv, Draining, [Next]_vars PROVE Draining'
  OBVIOUS
<1>0. Draining /\ TypeOK /\ LaneTyped
  BY DEF Inv, TypeOK
<1>1. CASE Boot
  BY <1>1, <1>0 DEF Boot, Draining
<1>2. CASE handleComplete \/ CompleteUnarmed \/ Resume \/ Pause \/ AlarmPaused \/ AlarmIdle
   \/ AlarmRefused \/ CompleteLost \/ Tick \/ Schedule
  BY <1>2, <1>0 DEF handleComplete, CompleteUnarmed, Resume, Pause, AlarmPaused, AlarmIdle,
     AlarmRefused, CompleteLost, Tick, Schedule, handleSchedule, flags, volatile, Draining
<1>3. ASSUME NEW j \in Id,
             handleCancel(j) \/ CancelFinished(j) \/ CancelRefused(j) \/ CancelUnclocked(j)
      PROVE  Draining'
  BY <1>3, <1>0 DEF handleCancel, MarkCancelled, CancelFinished, CancelRefused, CancelUnclocked,
     flags, LaneTyped, Lane, Draining
<1>4. ASSUME NEW j \in Id, handleDeadRetry(j) \/ handleDeadCancel(j) PROVE Draining'
  BY <1>4, <1>0 DEF handleDeadRetry, revive, handleDeadCancel, flags, volatile, Draining
<1>5. CASE BootCut
  BY <1>5, <1>0 DEF BootCut, flags, volatile, Draining
<1>6. CASE CancelCut \/ Crash \/ EndCut
  BY <1>6, <1>0 DEF CancelCut, Crash, EndCut, Die, IdleLane, Draining
<1>12. CASE RequestCut
  BY <1>12, <1>0, CutStops, StoppedFrame DEF IdleLane, Draining
<1>7. CASE AlarmDrain
  BY <1>7, <1>0 DEF AlarmDrain, IdleLane, NoJob, LaneTyped, Lane, AlarmDue, Draining
<1>8. CASE EndDrain \/ EndRefused
  BY <1>8, <1>0 DEF EndDrain, EndRefused, flags, Draining
<1>9. ASSUME NEW j \in Id, Drain(j) \/ Disconnect(j) PROVE Draining'
  <2>1. ~At(j, "idle") /\ up' = up /\ pass' = pass /\ clean' = clean
    BY <1>9, <1>0, LaneFrame DEF Framed
  <2>2. pass.on /\ up
    BY <2>1, <1>0 DEF Draining
  <2> QED BY <2>1, <2>2, <1>0 DEF Draining
<1>10. ASSUME NEW k \in running, NEW result \in {"ok", "error"}, RunEnds(k, result) PROVE Draining'
  BY <1>10, <1>0 DEF RunEnds, flags, LaneTyped, Lane, Draining
<1>11. CASE UNCHANGED vars
  BY <1>11, <1>0 DEF vars, flags, volatile, Draining
<1> QED
  BY <1>1, <1>2, <1>3, <1>4, <1>5, <1>6, <1>7, <1>8, <1>9, <1>10, <1>11, <1>12
     DEF Next, Request, Cut, Alarm, RequestCut

(* The alarm that is picked among some times is a time. *)
LEMMA EarliestRuns ==
    ASSUME NEW times, times \subseteq Nat \cup {NoAlarm}, times \cap Nat # {}, NEW t \in Earliest(times)
    PROVE  t \in Nat /\ t # NoAlarm
BY ConstantsAssumption DEF Earliest, ConstantsAssumption

(* A rescheduled alarm runs while the deployment does and rows are left (rescheduleAlarm). *)
LEMMA RescheduleRuns ==
    ASSUME RowsTyped', rescheduleAlarm, ~paused, index' # {} PROVE alarm' # NoAlarm
<1>1. Times(index') \subseteq Nat /\ Times(index') # {}
  BY DEF RowsTyped, Times
<1>2. alarm' \in Earliest(Times(index'))
  BY DEF rescheduleAlarm
<1> QED BY <1>1, <1>2, EarliestRuns

(* An alarm that is brought forward runs (armAlarmIfEarlier). *)
LEMMA ArmedRuns ==
    ASSUME ClockTyped, NEW t \in Nat, armAlarmIfEarlier(t) PROVE alarm' # NoAlarm
<1>1. {alarm, t} \subseteq Nat \cup {NoAlarm} /\ {alarm, t} \cap Nat # {}
  BY DEF ClockTyped
<1> QED BY <1>1, EarliestRuns DEF armAlarmIfEarlier

(* Recovery starts the clock if there is a row to fire (recoverStore). *)
LEMMA BootRuns ==
    ASSUME RowsTyped, ClockTyped, RowsTyped', Boot, index' # {} PROVE alarm' # NoAlarm
<1> DEFINE armed == {header[j].due : j \in IF clean THEN {} ELSE Orphans} \cup {alarm}
<1>1. armed \subseteq Nat \cup {NoAlarm}
  BY JobFields DEF RowsTyped, ClockTyped, Orphans
<1>2. Times(index') \subseteq Nat /\ Times(index') # {}
  BY DEF RowsTyped, Times
<1>3. alarm' \in Earliest(IF armed = {NoAlarm} THEN Times(index') ELSE armed)
  BY DEF Boot, recoverClock
<1>4. armed # {NoAlarm} => armed \cap Nat # {}
  BY <1>1
<1> HIDE DEF armed
<1> QED BY <1>1, <1>2, <1>3, <1>4, EarliestRuns

(* No handler leaves rows pending with no alarm set, unless it was refused to (armAlarmIfEarlier, *)
(* rescheduleAlarm).                                                                              *)
LEMMA ClockStep == Inv /\ Draining /\ ClockRuns /\ [Next]_vars => ClockRuns'
<1> SUFFICES ASSUME Inv, Draining, ClockRuns, [Next]_vars PROVE ClockRuns'
  OBVIOUS
<1>0. Draining /\ ClockRuns /\ RowsTyped /\ ClockTyped /\ RowsTyped' /\ TypeOK
  BY TypeStep DEF Inv, TypeOK
<1>1. CASE Boot
  BY <1>1, <1>0, BootRuns DEF ClockRuns, Boot
<1>2. CASE Schedule
  <2>1. PICK i \in Id, due \in Dues, cap \in Caps : armAlarmIfEarlier(due)
    BY <1>2 DEF Schedule
  <2> QED BY <2>1, <1>0, InputsTyped, ArmedRuns DEF ClockRuns
<1>3. CASE handleComplete
  BY <1>3, <1>0, ArmedRuns DEF handleComplete, armAlarmIfEarlier, rows, flags, volatile, ghosts,
     ClockTyped, ClockRuns
<1>4. CASE Pause
  BY <1>4, <1>0 DEF Pause, rows, volatile, ClockRuns
<1>5. CASE Resume
  <2>1. index' = index /\ resumedAlarm
    BY <1>5 DEF Resume, rows
  <2>2. index # {} => Times(index) \subseteq Nat /\ Times(index) # {}
    BY <1>0 DEF RowsTyped, Times
  <2> QED BY <2>1, <2>2, EarliestRuns DEF resumedAlarm, ClockRuns
<1>6. ASSUME NEW j \in Id, handleCancel(j) PROVE ClockRuns'
  BY <1>6, <1>0, RescheduleRuns DEF handleCancel, flags, ClockRuns
<1>7. ASSUME NEW j \in Id, CancelFinished(j) PROVE ClockRuns'
  BY <1>7, <1>0, RescheduleRuns DEF CancelFinished, flags, ClockRuns
<1>8. ASSUME NEW j \in Id, handleDeadRetry(j) PROVE ClockRuns'
  BY <1>8, <1>0, ArmedRuns DEF handleDeadRetry, ClockTyped, ClockRuns
<1>9. ASSUME NEW j \in Id, handleDeadCancel(j) PROVE ClockRuns'
  BY <1>9, <1>0 DEF handleDeadCancel, rows, volatile, flags, ghosts, ClockRuns
<1>10. CASE BootCut
  BY <1>10 DEF BootCut, volatile, ClockRuns
<1>11. CASE CancelCut \/ Crash \/ EndCut
  BY <1>11 DEF CancelCut, Crash, EndCut, Die, ClockRuns
<1>20. CASE ScheduleCut \/ DeadRetryCut
  BY <1>20 DEF ScheduleCut, DeadRetryCut, NotArmed, Die, ClockRuns
<1>21. CASE PoolCapCut \/ DeadRetryLate \/ DeadCancelCut
  BY <1>21, <1>0 DEF PoolCapCut, DeadRetryLate, DeadCancelCut, Stopped, Die, Refused, rows, flags,
     volatile, ghosts, ClockRuns
<1>22. CASE PauseCut \/ ResumeCut
  BY <1>22 DEF PauseCut, ResumeCut, flags, ClockRuns
<1>23. ASSUME NEW j \in Id, CancelRefused(j) \/ CancelUnclocked(j) PROVE ClockRuns'
  BY <1>23, <1>0 DEF CancelRefused, CancelUnclocked, removeRecord, HeldRows, rows, flags, ClockRuns
<1>24. CASE CompleteUnarmed
  BY <1>24, <1>0 DEF CompleteUnarmed, rows, flags, volatile, ghosts, ClockRuns
<1>25. CASE AlarmRefused
  BY <1>25 DEF AlarmRefused, ClockRuns
<1>26. CASE EndRefused
  BY <1>26, <1>0, RescheduleRuns DEF EndRefused, flags, ClockRuns
<1>12. CASE AlarmPaused
  BY <1>12, <1>0 DEF AlarmPaused, rows, flags, volatile, ghosts, ClockRuns
<1>13. CASE AlarmIdle
  BY <1>13, <1>0, RescheduleRuns DEF AlarmIdle, flags, ClockRuns
<1>14. CASE AlarmDrain
  BY <1>14 DEF AlarmDrain, ClockRuns
<1>15. CASE EndDrain
  BY <1>15, <1>0, RescheduleRuns DEF EndDrain, ClockRuns
<1>16. CASE CompleteLost \/ Tick
  BY <1>16, <1>0 DEF CompleteLost, Tick, rows, flags, volatile, ghosts, ClockRuns
<1>17. ASSUME NEW j \in Id, Drain(j) \/ Disconnect(j) PROVE ClockRuns'
  BY <1>17, <1>0, LaneFrame DEF Framed, Draining, ClockRuns
<1>18. ASSUME NEW k \in running, NEW result \in {"ok", "error"}, RunEnds(k, result) PROVE ClockRuns'
  BY <1>18, <1>0 DEF RunEnds, rows, flags, ClockRuns
<1>19. CASE UNCHANGED vars
  BY <1>19, <1>0 DEF vars, rows, flags, volatile, ghosts, ClockRuns
<1> QED
  BY <1>1, <1>2, <1>3, <1>4, <1>5, <1>6, <1>7, <1>8, <1>9, <1>10, <1>11, <1>12, <1>13, <1>14, <1>15,
     <1>16, <1>17, <1>18, <1>19, <1>20, <1>21, <1>22, <1>23, <1>24, <1>25, <1>26
     DEF Next, Request, Cut, Alarm

(* A live deployment that is not paused and has a row to fire has an alarm set for it, from the *)
(* first time on that the alarm could be written again after a handler was refused to.         *)
THEOREM ClockKeepsRunning == Spec => []ClockRuns
<1>1. Init => Draining /\ ClockRuns
  BY DEF Init, Draining, ClockRuns, IdleLane
<1>2. Inv /\ Draining /\ ClockRuns /\ [Next]_vars => Draining' /\ ClockRuns'
  BY DrainingStep, ClockStep
<1> QED BY <1>1, <1>2, Invariance, PTL DEF Spec
-----------------------------------------------------------------------------
(* From its claim to the end of its work a lane that is not cancelled serves the job of  *)
(* the header; a dead letter whose header survived it is that of the same job.           *)
Serving(j) ==
    \/ lane[j].pc \in {"unindexed", "leased", "refused", "reserved", "clearing", "parked"}
    \/ Dispatched(j) /\ ~lane[j].cancelled
Same(j) ==
    /\ ~At(j, "idle") => Has(lane[j].job)
    /\ Serving(j) => header[j].n = lane[j].job.n
    /\ Has(header[j]) /\ Has(dead[j]) => dead[j].n = header[j].n
    /\ Has(header[j]) /\ Has(done[j]) => done[j].n = header[j].n
SameJob == \A j \in Id : Same(j)

(* While requests are served every lane is idle, queued or waiting for its answer (GateOpen). *)
LEMMA GateLanes == GateOpen => up /\ \A h \in Id : lane[h].pc \in {"idle", "queued", "sent"}
BY DEF GateOpen, Working

(* Cancelling marks the lane of the id, if its dispatch is open, and nothing else of any lane. *)
LEMMA MarkedLane ==
    ASSUME LaneTyped, NEW j \in Id, MarkCancelled(j), NEW h \in Id
    PROVE  /\ lane'[h].pc = lane[h].pc /\ lane'[h].job = lane[h].job /\ lane'[h].reply = lane[h].reply
           /\ lane'[h].claim = lane[h].claim /\ lane'[h].lease = lane[h].lease
           /\ lane'[h].cancelled = IF h = j /\ At(j, "sent") THEN TRUE ELSE lane[h].cancelled
BY DEF MarkCancelled, LaneTyped, Lane

(* What /cancel does beside marking the lane, complete or cut: the header goes, and the outcome *)
(* of its id is written, or not, while the others are swept (removeRecord, writeCanceled).      *)
Removes(j) ==
    /\ GateOpen /\ Has(header[j]) /\ removeRecord(j)
    /\ UNCHANGED <<dead, repair, ranOk, jobs, now, clean, unremoved>>
    /\ told' = IF Has(done[j]) THEN told ELSE told \cup {<<j, header[j].n>>}
    /\ Has(done[j]) => done' = done
    /\ \A h \in Id : \/ done'[h] \in {done[h], NoRow}
                     \/ h = j /\ ~Has(done[j]) /\ done'[h] = Row(header[j].n, now, "canceled")
Cancels(j) == handleCancel(j) \/ CancelFinished(j) \/ CancelUnclocked(j)

LEMMA CancelRemoves ==
    ASSUME OutcomesTyped, NEW j \in Id, Cancels(j)
    PROVE  Removes(j) /\ MarkCancelled(j) /\ UNCHANGED <<up, dirty, pass>>
<1>1. CASE handleCancel(j)
  <2>1. \A h \in Id : \/ done'[h] \in {done[h], NoRow}
                      \/ h = j /\ done'[h] = Row(header[j].n, now, "canceled")
    BY <1>1 DEF handleCancel, writeCanceled, CanceledRow, SweptDone, OutcomesTyped
  <2> QED BY <1>1, <2>1 DEF handleCancel, flags, Removes
<1>2. CASE CancelFinished(j)
  BY <1>2 DEF CancelFinished, outcomes, flags, bounds, Removes
<1>3. CASE CancelUnclocked(j)
  <2>1. \A h \in Id : \/ done'[h] \in {done[h], NoRow}
                      \/ h = j /\ ~Has(done[j]) /\ done'[h] = Row(header[j].n, now, "canceled")
    BY <1>3 DEF CancelUnclocked, writeCanceled, CanceledRow, SweptDone, OutcomesTyped
  <2> QED BY <1>3, <2>1 DEF CancelUnclocked, flags, Removes
<1> QED BY <1>1, <1>2, <1>3 DEF Cancels

LEMMA CutRemoves ==
    ASSUME OutcomesTyped, CancelCut
    PROVE  /\ \E j \in Id : Removes(j)
           /\ lane' = [h \in Id |-> IdleLane] /\ ~up' /\ ~dirty' /\ ~pass'.on
<1>1. PICK j \in Id :
         /\ GateOpen /\ Has(header[j]) /\ removeRecord(j)
         /\ told' = IF Has(done[j]) THEN told ELSE told \cup {<<j, header[j].n>>}
         /\ \/ UNCHANGED <<done, history>>
            \/ ~Has(done[j]) /\ done' = CanceledRow(j)
            \/ ~Has(done[j]) /\ done' = SweptDone(CanceledRow(j), CanceledList(j))
  BY DEF CancelCut
<1>2. \A h \in Id : \/ done'[h] \in {done[h], NoRow}
                    \/ h = j /\ ~Has(done[j]) /\ done'[h] = Row(header[j].n, now, "canceled")
  BY <1>1 DEF CanceledRow, SweptDone, OutcomesTyped
<1>3. UNCHANGED <<dead, repair, ranOk, jobs, now, clean, unremoved>>
  BY DEF CancelCut, Die, flags
<1>4. lane' = [h \in Id |-> IdleLane] /\ ~up' /\ ~dirty' /\ ~pass'.on
  BY DEF CancelCut, Die
<1> QED BY <1>1, <1>2, <1>3, <1>4 DEF Removes

(* A request that lands while a lane is at work finds it cancelled, or leaves its job in place. *)
LEMMA SameStep == Inv /\ Draining /\ SameJob /\ [Next]_vars => SameJob'
<1> SUFFICES ASSUME Inv, Draining, SameJob, [Next]_vars PROVE SameJob'
  OBVIOUS
<1>0. Draining /\ SameJob /\ TypeOK /\ LaneTyped /\ RowsTyped /\ OutcomesTyped
  BY DEF Inv, TypeOK
<1>f. /\ \A h \in Id : header[h].n \in Nat /\ dead[h].n \in Nat /\ done[h].n \in Nat /\ lane[h].job.n \in Nat
      /\ NoJob.n = 0 /\ NoRow.n = 0
  BY <1>0, JobFields, TerminalFields, LaneFields DEF RowsTyped, OutcomesTyped, LaneTyped, NoJob, NoRow
<1>1. CASE Boot
  BY <1>1, <1>0, <1>f DEF Boot, reindexWalk, restoreOutcome, NoJob, NoRow, rows, RowsTyped, Job,
     OutcomesTyped, Terminal, Draining, Superseded, Repairable, Serving, Dispatched, Same, SameJob
<1>i. ASSUME lane' = [h \in Id |-> IdleLane], NEW h \in Id PROVE ~Serving(h)' /\ At(h, "idle")'
  BY <1>i DEF IdleLane, Serving, Dispatched
<1>2. ASSUME NEW i \in Id, NEW due \in Dues, NEW cap \in Caps, handleSchedule(i, due, cap),
             lane' = lane \/ lane' = [h \in Id |-> IdleLane]
      PROVE  SameJob'
  <2>1. /\ ~Has(header[i]) /\ ~Has(dead[i]) /\ dead' = dead
        /\ header' = [header EXCEPT ![i] = [n |-> jobs[i] + 1, due |-> due, attempts |-> 0]]
        /\ done' = [done EXCEPT ![i] = NoRow]
        /\ \A h \in Id : lane[h].pc \in {"idle", "queued", "sent"}
    BY <1>2, GateLanes DEF handleSchedule, dropOutcome
  <2>2. CASE lane' = lane
    <3>1. ~Serving(i)
      BY <2>1, <1>0 DEF Same, SameJob, Serving, Dispatched
    <3> QED BY <2>1, <2>2, <3>1, <1>0, <1>f DEF Same, SameJob, Serving, Dispatched, RowsTyped, OutcomesTyped
  <2>3. CASE lane' = [h \in Id |-> IdleLane]
    BY <2>1, <2>3, <1>i, <1>0, <1>f DEF Same, SameJob, RowsTyped, OutcomesTyped
  <2> QED BY <1>2, <2>2, <2>3
<1>s. ASSUME NEW i \in Id, revive(i), lane' = lane \/ lane' = [h \in Id |-> IdleLane] PROVE SameJob'
  <2>1. /\ Has(dead[i]) /\ dead' = [dead EXCEPT ![i] = NoRow] /\ done' = [done EXCEPT ![i] = NoRow]
        /\ header' = [header EXCEPT ![i] = [n |-> dead[i].n, due |-> now, attempts |-> 0]]
        /\ \A h \in Id : lane[h].pc \in {"idle", "queued", "sent"}
    BY <1>s, GateLanes DEF revive
  <2>2. CASE lane' = lane
    BY <2>1, <2>2, <1>0, <1>f DEF Same, SameJob, Serving, Dispatched, RowsTyped, OutcomesTyped
  <2>3. CASE lane' = [h \in Id |-> IdleLane]
    BY <2>1, <2>3, <1>i, <1>0, <1>f DEF Same, SameJob, RowsTyped, OutcomesTyped
  <2> QED BY <1>s, <2>2, <2>3
<1>r. ASSUME NEW j \in Id, Removes(j),
             \/ MarkCancelled(j)
             \/ lane' = [h \in Id |-> IdleLane]
      PROVE  SameJob'
  <2>1. /\ header' = [header EXCEPT ![j] = NoJob] /\ dead' = dead
        /\ \A h \in Id : lane[h].pc \in {"idle", "queued", "sent"}
        /\ \A h \in Id : done'[h] \in {done[h], NoRow} \/ h = j
    BY <1>r, GateLanes DEF Removes, removeRecord
  <2>2. CASE MarkCancelled(j)
    <3>1. \A h \in Id : /\ lane'[h].pc = lane[h].pc /\ lane'[h].job = lane[h].job
                       /\ lane'[h].cancelled = IF h = j /\ At(j, "sent") THEN TRUE ELSE lane[h].cancelled
      BY <2>2, <1>0, MarkedLane
    <3> QED BY ZenonT(30), <2>1, <3>1, <1>0, <1>f DEF Serving, Dispatched, Same, SameJob, RowsTyped
  <2>3. CASE lane' = [h \in Id |-> IdleLane]
    BY <2>1, <2>3, <1>i, <1>0, <1>f DEF Same, SameJob, RowsTyped, OutcomesTyped
  <2> QED BY <1>r, <2>2, <2>3
<1>k. ASSUME UNCHANGED <<header, dead>>, lane' = lane \/ lane' = [h \in Id |-> IdleLane],
             \A h \in Id : done'[h].n \in {0, done[h].n, dead[h].n}
      PROVE  SameJob'
  <2>1. CASE lane' = lane
    BY <1>k, <2>1, <1>0 DEF Same, SameJob, Serving, Dispatched
  <2>2. CASE lane' = [h \in Id |-> IdleLane]
    BY <1>k, <2>2, <1>i, <1>0 DEF Same, SameJob
  <2> QED BY <1>k, <2>1, <2>2
<1>3. CASE handleComplete \/ CompleteUnarmed \/ Resume \/ Pause \/ AlarmPaused \/ AlarmRefused
   \/ CompleteLost \/ Tick \/ EndRefused
  BY <1>3, <1>k DEF handleComplete, CompleteUnarmed, Resume, Pause, AlarmPaused, AlarmRefused,
     CompleteLost, Tick, EndRefused, rows, outcomes, volatile
<1>4. ASSUME NEW j \in Id, Cancels(j) PROVE SameJob'
  BY <1>4, <1>r, <1>0, CancelRemoves
<1>5. ASSUME NEW j \in Id, CancelRefused(j) PROVE SameJob'
  BY <1>5, <1>0, MarkedLane DEF CancelRefused, rows, outcomes, Serving, Dispatched, Same, SameJob
<1>6. ASSUME NEW j \in Id, handleDeadRetry(j) PROVE SameJob'
  BY <1>6, <1>s DEF handleDeadRetry, volatile
<1>7. ASSUME NEW j \in Id, handleDeadCancel(j) PROVE SameJob'
  BY <1>7, <1>0, <1>f DEF handleDeadCancel, NoRow, SweptDone, purge, Row, rows, volatile,
     OutcomesTyped, Terminal, Serving, Dispatched, Same, SameJob
<1>8. CASE BootCut
  BY <1>8, <1>0, <1>f DEF BootCut, reindexWalk, restoreOutcome, NoJob, NoRow, volatile, RowsTyped,
     Job, OutcomesTyped, Terminal, Draining, Superseded, Repairable, Serving, Dispatched, Same,
     SameJob
<1>9. CASE Schedule \/ ScheduleCut
  BY <1>9, <1>2, StoppedLanes DEF Schedule, ScheduleCut, NotArmed, Stopped, volatile
<1>10. CASE CancelCut
  BY <1>10, <1>r, <1>0, CutRemoves
<1>11. CASE DeadRetryCut
  BY <1>11, <1>s, StoppedLanes DEF DeadRetryCut, NotArmed, Stopped
<1>12. CASE DeadRetryLate \/ DeadCancelCut
  BY <1>12, <1>k, <1>0, <1>f, StoppedLanes DEF DeadRetryLate, DeadCancelCut, purge, Row, rows, OutcomesTyped
<1>13. CASE PoolCapCut \/ PauseCut \/ ResumeCut \/ Crash \/ EndCut
  BY <1>13, <1>k, StoppedLanes DEF PoolCapCut, PauseCut, ResumeCut, Crash, EndCut, Stopped, rows, outcomes
<1>14. CASE AlarmIdle
  BY <1>14, <1>0, <1>f DEF AlarmIdle, SweptDone, NoRow, volatile, OutcomesTyped, Terminal, Serving,
     Dispatched, Same, SameJob
<1>15. CASE AlarmDrain
  BY <1>15, <1>0, <1>f, GateLanes DEF AlarmDrain, IdleLane, NoJob, outcomes, LaneTyped, Lane,
     AlarmDue, Selected, Serving, Dispatched, Same, SameJob
<1>16. CASE EndDrain
  BY <1>16, <1>0, <1>f DEF EndDrain, SweptDone, NoRow, rows, OutcomesTyped, Terminal, Serving,
     Dispatched, Same, SameJob
<1>17. ASSUME NEW j \in Id, Drain(j) \/ Disconnect(j) PROVE SameJob'
  <2>0. Framed(j)
    BY <1>17, <1>0, LaneFrame
  <2>1. ASSUME ClaimGone(j) \/ ClaimSkipped(j) PROVE Same(j)'
    BY <2>1, <1>0, <1>f DEF ClaimGone, Free, IdleLane, NoJob, ClaimSkipped, outcomes, rows,
       LaneTyped, Lane, NextInLine, Serving, Dispatched, Same, SameJob
  <2>2. ASSUME Claim(j) PROVE Same(j)'
    BY <2>2, <1>0, <1>f DEF Claim, outcomes, LaneTyped, Lane, NextInLine, Untouched, Serving,
       Dispatched, Same, SameJob
  <2>3. ASSUME PutLease(j) \/ Reserve(j) \/ Refuse(j) PROVE Same(j)'
    BY <2>3, <1>0, <1>f DEF PutLease, Move, Reserve, Refuse, outcomes, rows, LaneTyped, Lane,
       Serving, Dispatched, Same, SameJob
  <2>4. ASSUME requeuePooled(j) PROVE Same(j)'
    BY <2>4, <1>0, <1>f DEF requeuePooled, Move, outcomes, LaneTyped, Lane, RowsTyped, Job, Serving,
       Dispatched, Same, SameJob
  <2>5. ASSUME Send(j) \/ SendAnswered(j) \/ SendDeclined(j) \/ SendLost(j) PROVE Same(j)'
    BY <2>5, <1>0, <1>f DEF Send, Sent, SendAnswered, SendDeclined, SendLost, rows, outcomes,
       LaneTyped, Lane, Serving, Dispatched, Same, SameJob
  <2>6. ASSUME Answer(j) \/ ReleaseSlot(j) PROVE Same(j)'
    BY <2>6, <1>0, <1>f DEF Answer, Move, ReleaseSlot, rows, outcomes, LaneTyped, Lane, Serving,
       Dispatched, Same, SameJob
  <2>7. ASSUME CancelledSettles(j) PROVE Same(j)'
    BY <2>7, <1>0, <1>f DEF CancelledSettles, correctCanceledToSucceeded, Move, Row, rows,
       LaneTyped, Lane, OutcomesTyped, Terminal, Serving, Dispatched, Same, SameJob
  <2>8. ASSUME RecordOutcome(j) PROVE Same(j)'
    BY <2>8, <1>0, <1>f DEF RecordOutcome, Row, Move, rows, LaneTyped, Lane, OutcomesTyped,
       Terminal, Serving, Dispatched, Same, SameJob
  <2>9. ASSUME OutcomeRefused(j) PROVE Same(j)'
    BY <2>9, <1>0, <1>f DEF OutcomeRefused, Row, Move, rows, LaneTyped, Lane, Serving, Dispatched,
       Same, SameJob
  <2>10. ASSUME Clear(j) PROVE Same(j)'
    BY <2>10, <1>0, <1>f DEF Clear, NoJob, clearPending, Move, outcomes, LaneTyped, Lane, RowsTyped,
       Job, Serving, Dispatched, Same, SameJob
  <2>11. ASSUME ClearRefused(j) PROVE Same(j)'
    BY <2>11, <1>0, <1>f DEF ClearRefused, clearPending, Move, rows, outcomes, LaneTyped, Lane,
       Serving, Dispatched, Same, SameJob
  <2>12. ASSUME recordRetry(j) PROVE Same(j)'
    BY <2>12, <1>0, <1>f DEF recordRetry, DelayOf, AttemptsOf, Move, Charged, outcomes, LaneTyped,
       Lane, RowsTyped, Job, Fails, Serving, Dispatched, Same, SameJob
  <2>13. ASSUME parkDead(j) PROVE Same(j)'
    BY <2>13, <1>0, <1>f DEF parkDead, Row, Move, rows, LaneTyped, Lane, OutcomesTyped, Terminal,
       Fails, Serving, Dispatched, Same, SameJob
  <2>14. ASSUME Unlease(j) PROVE Same(j)'
    BY <2>14, <1>0, <1>f DEF Unlease, Free, IdleLane, NoJob, outcomes, LaneTyped, Lane, Serving,
       Dispatched, Same, SameJob
  <2>15. ASSUME LaneFault(j) \/ Disconnect(j) PROVE Same(j)'
    BY SMTT(30), <2>15, <1>0, <1>f DEF LaneFault, Disconnect, rows, outcomes, LaneTyped, Lane, NextInLine,
       Fails, Serving, Dispatched, Same, SameJob
  <2>16. ASSUME Catch(j) PROVE Same(j)'
    BY <2>16, <1>0, <1>f DEF Catch, CatchWrites, Free, NoJob, IdleLane, outcomes, LaneTyped, Lane,
       RowsTyped, Job, Serving, Dispatched, Same, SameJob
  <2>17. Same(j)'
    BY <1>17, <2>1, <2>2, <2>3, <2>4, <2>5, <2>6, <2>7, <2>8, <2>9, <2>10, <2>11, <2>12, <2>13, <2>14,
       <2>15, <2>16 DEF Drain, Dispatch
  <2> QED BY <1>0, <2>0, <2>17 DEF Framed, Serving, Dispatched, Same, SameJob
<1>18. ASSUME NEW k \in running, NEW result \in {"ok", "error"}, RunEnds(k, result) PROVE SameJob'
  BY <1>18, <1>0, <1>f DEF RunEnds, rows, outcomes, LaneTyped, Lane, Serving, Dispatched, Same,
     SameJob
<1>19. CASE UNCHANGED vars
  BY <1>19, <1>0, <1>f DEF vars, rows, outcomes, volatile, Serving, Dispatched, Same, SameJob
<1> QED
  BY <1>1, <1>2, <1>3, <1>4, <1>5, <1>6, <1>7, <1>8, <1>9, <1>10, <1>11, <1>12, <1>13, <1>14, <1>15,
     <1>16, <1>17, <1>18, <1>19 DEF Next, Request, Cut, Alarm, Cancels

(* What every reachable state satisfies, whatever was lost and whatever failed. *)
Serve == Inv /\ Draining /\ SameJob

(* Every reachable state satisfies it. *)
LEMMA Serves == Spec => []Serve
<1>1. Init => Draining /\ SameJob
  BY DEF Init, Draining, SameJob, Same, Serving, Dispatched, IdleLane, NoJob, NoRow
<1>2. Serve /\ [Next]_vars => Draining' /\ SameJob'
  BY DrainingStep, SameStep DEF Serve
<1> QED BY <1>1, <1>2, Invariance, PTL DEF Spec, Serve

(* /get never answers for the pending job of an id from the outcome of another job of it *)
(* (handleGet reads the `done:` row first).                                              *)
THEOREM OutcomesAreOwn == Spec => []OutcomeIsOwn
<1>1. Serve => OutcomeIsOwn
  BY DEF Serve, SameJob, Same, OutcomeIsOwn
<1> QED BY <1>1, Serves, PTL
-----------------------------------------------------------------------------
(* A success is on record only for an id that had one, and so is the answer "ok". *)
Truthful(j) ==
    /\ At(j, "clearing") => Ok(j)
    /\ Ok(j) => Answered(j)
    /\ done[j].state = "succeeded" => Answered(j) /\ Has(done[j])
    /\ Has(repair[j]) => repair[j].state = "succeeded" /\ Answered(j)
    /\ done[j].n <= jobs[j] /\ repair[j].n <= jobs[j]
Truth == \A j \in Id : Truthful(j)

(* The handlers that run or ran are those of jobs that were scheduled. *)
Tracked == /\ \A k \in running \cup ranOk : k[2] > 0 /\ k[2] <= jobs[k[1]]
           /\ \A j \in Id : jobs[j] <= MaxJobs

(* The worker only learns of jobs by their dispatch. *)
LEMMA TrackedStep == Serve /\ Tracked /\ [Next]_vars => Tracked'
<1> SUFFICES ASSUME Serve, Tracked, [Next]_vars PROVE Tracked'
  OBVIOUS
<1>0. Tracked /\ TypeOK /\ WorldTyped /\ GhostsTyped /\ BoundsTyped /\ MaxJobs \in Nat
  BY ConstantsAssumption DEF Serve, Inv, TypeOK, ConstantsAssumption
<1>1. CASE UNCHANGED <<running, ranOk, jobs>>
  BY <1>0, <1>1 DEF Tracked
<1>2. ASSUME UNCHANGED <<running, ranOk>>,
             NEW i \in Id, NEW due \in Dues, NEW cap \in Caps, handleSchedule(i, due, cap)
      PROVE  Tracked'
  <2>1. jobs[i] < MaxJobs /\ jobs' = [jobs EXCEPT ![i] = @ + 1]
    BY <1>2 DEF handleSchedule
  <2>2. \A h \in Id : jobs[h] \in Nat /\ jobs'[h] \in Nat /\ jobs[h] <= jobs'[h] /\ jobs'[h] <= MaxJobs
    BY <2>1, <1>0 DEF BoundsTyped, Tracked
  <2>3. \A k \in running \cup ranOk : k[1] \in Id /\ k[2] \in Nat
    BY <1>0 DEF WorldTyped, GhostsTyped
  <2>4. ASSUME NEW k \in running' \cup ranOk' PROVE k[2] > 0 /\ k[2] <= jobs'[k[1]]
    BY <1>2, <2>2, <2>3, <1>0 DEF Tracked
  <2> QED BY <2>2, <2>4 DEF Tracked
<1>3. ASSUME NEW j \in Id, Send(j) PROVE Tracked'
  <2>1. running' = running \cup {Key(j)} /\ UNCHANGED <<ranOk, jobs>> /\ ~At(j, "idle")
    BY <1>3 DEF Send, Sent
  <2>2. lane[j].job.n > 0 /\ lane[j].job.n <= jobs[j]
    BY <2>1, <1>0, LaneFields, JobFields DEF Serve, SameJob, Same, Inv, Numbered, LaneTyped, TypeOK
  <2> QED BY <2>1, <2>2, <1>0 DEF Tracked
<1>4. ASSUME NEW k \in running, NEW result \in {"ok", "error"}, RunEnds(k, result) PROVE Tracked'
  BY <1>4, <1>0 DEF RunEnds, bounds, Tracked
<1>5. ASSUME NEW j \in Id,
             Cancels(j) \/ CancelRefused(j) \/ handleDeadRetry(j) \/ handleDeadCancel(j)
      PROVE  Tracked'
  BY <1>5, <1>1 DEF Cancels, handleCancel, CancelFinished, CancelUnclocked, CancelRefused,
     handleDeadRetry, handleDeadCancel, revive, world, ghosts, bounds
<1>6. ASSUME Boot \/ BootCut \/ CancelCut \/ Crash \/ EndCut \/ (RequestCut /\ ~ScheduleCut)
      PROVE  Tracked'
  BY <1>6, <1>1 DEF Boot, BootCut, CancelCut, Crash, EndCut, RequestCut, PoolCapCut, DeadRetryCut,
     DeadRetryLate, DeadCancelCut, PauseCut, ResumeCut, NotArmed, Stopped, Die, Refused, revive,
     world, ghosts, bounds
<1>7. ASSUME \/ handleComplete \/ CompleteUnarmed \/ Pause \/ Resume \/ Alarm \/ CompleteLost
             \/ Tick \/ UNCHANGED vars
      PROVE  Tracked'
  BY <1>7, <1>1 DEF handleComplete, CompleteUnarmed, Pause, Resume, Alarm, AlarmPaused, AlarmIdle,
     AlarmRefused, AlarmDrain, EndDrain, EndRefused, CompleteLost, Tick, vars, world, ghosts, bounds
<1>8. ASSUME NEW j \in Id, Drain(j) \/ Disconnect(j), ~Send(j) PROVE Tracked'
  BY <1>8, <1>1 DEF Drain, Dispatch, Disconnect, ClaimGone, ClaimSkipped, Claim, PutLease, Reserve, Refuse,
     requeuePooled, SendAnswered, SendDeclined, SendLost, Sent, Answer, ReleaseSlot, CancelledSettles, RecordOutcome,
     OutcomeRefused, Clear, ClearRefused, clearPending, recordRetry, parkDead, Unlease, LaneFault, Catch, world,
     ghosts, bounds
<1>9. CASE Schedule \/ ScheduleCut
  BY <1>9, <1>2 DEF Schedule, ScheduleCut, handleSchedule, NotArmed, Die, Refused, world
<1> QED
  BY <1>3, <1>4, <1>5, <1>6, <1>7, <1>8, <1>9 DEF Next, Request, Cut, Cancels, RequestCut

(* An outcome is written after the answer it stands for (drainRecord, restoreOutcome). *)
LEMMA TruthStep == Serve /\ Truth /\ [Next]_vars => Truth'
<1> SUFFICES ASSUME Serve, Truth, [Next]_vars PROVE Truth'
  OBVIOUS
<1>0. Draining /\ SameJob /\ Truth /\ Numbered /\ TypeOK /\ LaneTyped /\ RowsTyped /\ OutcomesTyped /\ BoundsTyped
  BY DEF Serve, Inv, TypeOK
<1>f. /\ \A h \in Id : header[h].n \in Nat /\ dead[h].n \in Nat /\ done[h].n \in Nat /\ lane[h].job.n \in Nat
                       /\ repair[h].n \in Nat /\ jobs[h] \in Nat
      /\ NoJob.n = 0 /\ NoRow.n = 0 /\ NoRow.state = "none"
  BY <1>0, JobFields, TerminalFields, LaneFields DEF RowsTyped, OutcomesTyped, LaneTyped, BoundsTyped, NoJob, NoRow
<1>1. CASE Boot
  BY <1>1, <1>0, <1>f DEF Boot, reindexWalk, restoreOutcome, NoJob, NoRow, bounds, ghosts,
     OutcomesTyped, Terminal, Draining, Superseded, Repairable, Ok, Answered, Truthful, Truth
<1>i. ASSUME lane' = lane \/ lane' = [h \in Id |-> IdleLane], UNCHANGED ranOk, NEW h \in Id
      PROVE  (At(h, "clearing") => Ok(h))' /\ (Ok(h) => Answered(h))'
  <2>1. CASE lane' = lane
    BY <1>i, <2>1, <1>0 DEF Ok, Answered, Truthful, Truth
  <2>2. CASE lane' = [g \in Id |-> IdleLane]
    BY <2>2 DEF IdleLane, Ok
  <2> QED BY <1>i, <2>1, <2>2
<1>k. ASSUME lane' = lane \/ lane' = [h \in Id |-> IdleLane], UNCHANGED ranOk,
             \A h \in Id : /\ jobs[h] <= jobs'[h] /\ jobs'[h] \in Nat
                          /\ \/ done'[h] = done[h] /\ repair'[h] \in {repair[h], NoRow}
                             \/ /\ done'[h].state # "succeeded" /\ done'[h].n \in {0, done[h].n, dead[h].n, header[h].n}
                                /\ repair'[h] \in {repair[h], NoRow}
      PROVE  Truth'
  <2> SUFFICES ASSUME NEW h \in Id PROVE Truthful(h)'
    BY DEF Truth
  <2>1. Truthful(h) /\ dead[h].n <= jobs[h] /\ header[h].n <= jobs[h]
    BY <1>0 DEF Truth, Numbered
  <2>2. done'[h].n <= jobs'[h] /\ repair'[h].n <= jobs'[h]
    BY <1>k, <1>f, <2>1 DEF Truthful
  <2>3. Answered(h)' <=> Answered(h)
    BY <1>k DEF Answered
  <2> QED BY <1>i, <1>k, <1>f, <2>1, <2>2, <2>3 DEF Truthful
<1>2. ASSUME NEW i \in Id, NEW due \in Dues, NEW cap \in Caps, handleSchedule(i, due, cap),
             lane' = lane \/ lane' = [h \in Id |-> IdleLane]
      PROVE  Truth'
  BY <1>2, <1>k, <1>0, <1>f DEF handleSchedule, dropOutcome, OutcomesTyped, BoundsTyped
<1>s. ASSUME NEW i \in Id, revive(i), lane' = lane \/ lane' = [h \in Id |-> IdleLane] PROVE Truth'
  BY <1>s, <1>k, <1>0, <1>f DEF revive, OutcomesTyped, BoundsTyped
<1>3. CASE handleComplete \/ CompleteUnarmed \/ Resume \/ Pause \/ AlarmPaused \/ AlarmRefused
   \/ CompleteLost \/ Tick \/ EndRefused
  BY <1>3, <1>k, <1>f DEF handleComplete, CompleteUnarmed, Resume, Pause, AlarmPaused, AlarmRefused,
     CompleteLost, Tick, EndRefused, outcomes, volatile, bounds, ghosts
<1>r. ASSUME NEW j \in Id, Removes(j),
             \A h \in Id : /\ (At(h, "clearing") => Ok(h))' /\ (Ok(h) => Answered(h))'
      PROVE  Truth'
  <2>1. \A h \in Id : done'[h] \in {done[h], NoRow} \/ done'[h] = Row(header[h].n, now, "canceled")
    BY <1>r DEF Removes
  <2>2. UNCHANGED <<repair, ranOk, jobs>>
    BY <1>r DEF Removes
  <2> SUFFICES ASSUME NEW h \in Id PROVE Truthful(h)'
    BY DEF Truth
  <2>3. Truthful(h) /\ header[h].n <= jobs[h]
    BY <1>0 DEF Truth, Numbered
  <2>4. Answered(h)' <=> Answered(h)
    BY <2>2 DEF Answered
  <2>5. ASSUME done'[h] \notin {done[h], NoRow}
        PROVE  done'[h].n = header[h].n /\ done'[h].state = "canceled"
    <3>1. done'[h] = Row(header[h].n, now, "canceled")
      BY <2>1, <2>5
    <3> QED BY <3>1 DEF Row
  <2> QED BY <1>r, <2>2, <2>3, <2>4, <2>5, <1>f DEF Truthful
<1>4. ASSUME NEW j \in Id, Cancels(j) PROVE Truth'
  <2>1. Removes(j) /\ MarkCancelled(j)
    BY <1>4, <1>0, CancelRemoves
  <2>2. \A h \in Id : lane'[h].pc = lane[h].pc /\ lane'[h].reply = lane[h].reply
    BY <2>1, <1>0, MarkedLane
  <2>3. ranOk' = ranOk
    BY <2>1 DEF Removes
  <2> QED BY <1>r, <2>1, <2>2, <2>3, <1>0 DEF Ok, Answered, Truthful, Truth
<1>5. ASSUME NEW j \in Id, CancelRefused(j) PROVE Truth'
  <2>1. \A h \in Id : lane'[h].pc = lane[h].pc /\ lane'[h].reply = lane[h].reply
    BY <1>5, <1>0, MarkedLane DEF CancelRefused
  <2> QED BY <1>5, <2>1, <1>0 DEF CancelRefused, outcomes, Ok, Answered, Truthful, Truth
<1>6. ASSUME NEW j \in Id, handleDeadRetry(j) PROVE Truth'
  BY <1>6, <1>s DEF handleDeadRetry, volatile
<1>7. ASSUME NEW j \in Id, handleDeadCancel(j) PROVE Truth'
  BY <1>7, <1>0, <1>f DEF handleDeadCancel, NoRow, SweptDone, purge, Row, volatile, bounds, ghosts,
     OutcomesTyped, Terminal, Numbered, Ok, Answered, Truthful, Truth
<1>8. CASE BootCut
  BY <1>8, <1>0, <1>f DEF BootCut, reindexWalk, restoreOutcome, NoJob, NoRow, volatile, ghosts,
     OutcomesTyped, Terminal, Draining, Superseded, Repairable, Ok, Answered, Truthful, Truth
<1>9. CASE Schedule \/ ScheduleCut
  BY <1>9, <1>2, StoppedLanes DEF Schedule, ScheduleCut, NotArmed, Stopped, volatile
<1>10. CASE CancelCut
  <2>1. PICK j \in Id : Removes(j)
    BY <1>10, <1>0, CutRemoves
  <2>2. lane' = [h \in Id |-> IdleLane] /\ ranOk' = ranOk
    BY <2>1, <1>10, <1>0, CutRemoves DEF Removes
  <2> QED BY <1>r, <1>i, <2>1, <2>2
<1>11. CASE DeadRetryCut
  BY <1>11, <1>s, StoppedLanes DEF DeadRetryCut, NotArmed, Stopped
<1>12. CASE DeadRetryLate \/ DeadCancelCut
  BY <1>12, <1>k, <1>0, <1>f, StoppedLanes DEF DeadRetryLate, DeadCancelCut, purge, Row, ghosts, OutcomesTyped
<1>13. CASE PoolCapCut \/ PauseCut \/ ResumeCut \/ Crash \/ EndCut
  BY <1>13, <1>k, <1>f, StoppedLanes DEF PoolCapCut, PauseCut, ResumeCut, Crash, EndCut, Stopped,
     outcomes, ghosts
<1>14. CASE AlarmIdle
  <2>1. \A h \in Id : done'[h] \in {done[h], NoRow}
    BY <1>14, <1>0 DEF AlarmIdle, SweptDone, OutcomesTyped
  <2>2. UNCHANGED <<lane, ranOk, jobs, repair>>
    BY <1>14 DEF AlarmIdle, volatile
  <2> QED BY <2>1, <2>2, <1>k, <1>f
<1>15. CASE AlarmDrain
  BY <1>15, <1>0, <1>f DEF AlarmDrain, IdleLane, NoJob, outcomes, bounds, ghosts, LaneTyped, Lane,
     Reply, Ok, Answered, Truthful, Truth
<1>16. CASE EndDrain
  BY <1>16, <1>0, <1>f DEF EndDrain, SweptDone, NoRow, bounds, ghosts, OutcomesTyped, Terminal, Ok,
     Answered, Truthful, Truth
<1>17. ASSUME NEW j \in Id, Drain(j) \/ Disconnect(j) PROVE Truth'
  <2>0. Framed(j)
    BY <1>17, <1>0, LaneFrame
  <2>1. ASSUME ClaimGone(j) \/ ClaimSkipped(j) PROVE Truthful(j)'
    BY <2>1, <1>0, <1>f DEF ClaimGone, Free, IdleLane, NoJob, ClaimSkipped, outcomes, bounds,
       ghosts, LaneTyped, Lane, NextInLine, Ok, Answered, Truthful, Truth
  <2>2. ASSUME Claim(j) PROVE Truthful(j)'
    BY <2>2, <1>0, <1>f DEF Claim, outcomes, bounds, ghosts, LaneTyped, Lane, NextInLine, Untouched,
       Ok, Answered, Truthful, Truth
  <2>3. ASSUME PutLease(j) \/ Reserve(j) \/ Refuse(j) \/ requeuePooled(j) PROVE Truthful(j)'
    BY <2>3, <1>0, <1>f DEF PutLease, Move, Reserve, Refuse, requeuePooled, outcomes, bounds,
       ghosts, LaneTyped, Lane, Ok, Answered, Truthful, Truth
  <2>4. ASSUME Send(j) \/ SendDeclined(j) \/ SendLost(j) PROVE Truthful(j)'
    BY <2>4, <1>0, <1>f DEF Send, Sent, SendDeclined, SendLost, outcomes, LaneTyped, Lane, Ok,
       Answered, Truthful, Truth
  <2>5. ASSUME SendAnswered(j) PROVE Truthful(j)'
    BY <2>5, <1>0, <1>f DEF SendAnswered, Sent, outcomes, LaneTyped, Lane, Ok, Answered, Truthful,
       Truth
  <2>6. ASSUME Answer(j) \/ ReleaseSlot(j) PROVE Truthful(j)'
    BY <2>6, <1>0, <1>f DEF Answer, Move, ReleaseSlot, outcomes, bounds, ghosts, LaneTyped, Lane,
       Ok, Answered, Truthful, Truth
  <2>7. ASSUME CancelledSettles(j) PROVE Truthful(j)'
    <3>1. \/ done' = done
          \/ Ok(j) /\ Corrigible(j) /\ done' = [done EXCEPT ![j] = Row(@.n, now, "succeeded")]
      BY <2>7 DEF CancelledSettles, correctCanceledToSucceeded
    <3>2. lane'[j].pc = "unleasing" /\ lane'[j].reply = lane[j].reply /\ ~At(j, "idle")
      BY <2>7, <1>0 DEF CancelledSettles, Move, LaneTyped, Lane
    <3>3. UNCHANGED <<repair, ranOk, jobs>>
      BY <2>7 DEF CancelledSettles, ghosts, bounds
    <3>4. done'[j] = done[j] \/ /\ Ok(j) /\ Has(done[j]) /\ done'[j] = Row(done[j].n, now, "succeeded")
      BY <3>1, <3>2, <1>0, <1>f DEF Corrigible, SameJob, Same, OutcomesTyped
    <3> QED BY <3>2, <3>3, <3>4, <1>0, <1>f DEF Row, Ok, Answered, Truthful, Truth
  <2>8. ASSUME RecordOutcome(j) PROVE Truthful(j)'
    BY <2>8, <1>0, <1>f DEF RecordOutcome, Row, Move, bounds, ghosts, LaneTyped, Lane,
       OutcomesTyped, Terminal, Numbered, SameJob, Same, Ok, Answered, Truthful, Truth
  <2>9. ASSUME OutcomeRefused(j) PROVE Truthful(j)'
    BY <2>9, <1>0, <1>f DEF OutcomeRefused, Row, Move, ghosts, LaneTyped, Lane, OutcomesTyped,
       Terminal, Numbered, SameJob, Same, Ok, Answered, Truthful, Truth
  <2>10. ASSUME Clear(j) \/ ClearRefused(j) PROVE Truthful(j)'
    BY <2>10, <1>0, <1>f DEF Clear, NoJob, clearPending, Move, ClearRefused, outcomes, LaneTyped,
       Lane, Ok, Answered, Truthful, Truth
  <2>11. ASSUME recordRetry(j) \/ parkDead(j) PROVE Truthful(j)'
    BY <2>11, <1>0, <1>f DEF recordRetry, Move, parkDead, Row, outcomes, bounds, LaneTyped, Lane,
       Fails, Ok, Answered, Truthful, Truth
  <2>12. ASSUME Unlease(j) \/ Catch(j) PROVE Truthful(j)'
    BY <2>12, <1>0, <1>f DEF Unlease, Free, IdleLane, NoJob, Catch, CatchWrites, outcomes, ghosts,
       LaneTyped, Lane, Ok, Answered, Truthful, Truth
  <2>13. ASSUME LaneFault(j) \/ Disconnect(j) PROVE Truthful(j)'
    BY <2>13, <1>0, <1>f DEF LaneFault, Disconnect, outcomes, ghosts, LaneTyped, Lane, NextInLine,
       Fails, Ok, Answered, Truthful, Truth
  <2>14. Truthful(j)'
    BY <1>17, <2>1, <2>2, <2>3, <2>4, <2>5, <2>6, <2>7, <2>8, <2>9, <2>10, <2>11, <2>12, <2>13 DEF
       Drain, Dispatch
  <2> QED BY <1>0, <2>0, <2>14 DEF Framed, Ok, Answered, Truthful, Truth
<1>18. ASSUME NEW k \in running, NEW result \in {"ok", "error"}, RunEnds(k, result) PROVE Truth'
  <2>1. \A h \in Id : /\ lane'[h].pc = lane[h].pc
                     /\ lane'[h].reply = IF Awaited(k) /\ h = k[1] THEN result ELSE lane[h].reply
    BY <1>18, <1>0 DEF RunEnds, LaneTyped, Lane
  <2>2. /\ ranOk' = IF result = "ok" THEN ranOk \cup {k} ELSE ranOk
        /\ UNCHANGED <<done, repair, jobs>>
    BY <1>18 DEF RunEnds, outcomes, bounds
  <2>3. \A h \in Id : Answered(h) => Answered(h)'
    BY <2>2 DEF Answered
  <2>4. \A h \in Id : Ok(h)' => Ok(h) \/ Answered(h)'
    BY <2>1, <2>2 DEF Ok, Answered
  <2>5. Awaited(k) => ~At(k[1], "clearing")
    BY DEF Awaited
  <2>6. \A h \in Id : At(h, "clearing") => lane'[h].reply = lane[h].reply
    BY <2>1, <2>5
  <2> QED BY <2>1, <2>2, <2>3, <2>4, <2>6, <1>0 DEF Ok, Truthful, Truth
<1>19. CASE UNCHANGED vars
  BY <1>19, <1>0, <1>f DEF vars, outcomes, volatile, bounds, ghosts, Ok, Answered, Truthful, Truth
<1> QED
  BY <1>1, <1>2, <1>3, <1>4, <1>5, <1>6, <1>7, <1>8, <1>9, <1>10, <1>11, <1>12, <1>13, <1>14, <1>15,
     <1>16, <1>17, <1>18, <1>19 DEF Next, Request, Cut, Alarm, Cancels

(* What recovery does to the rows of an id: nothing, or the outcome kept aside is restored. *)
LEMMA RestoredRows ==
    ASSUME RowsTyped, OutcomesTyped, Boot \/ BootCut, NEW h \in Id
    PROVE  /\ header'[h] = header[h] \/ (header'[h] = NoJob /\ Has(repair[h]) /\ ~Superseded(h))
           /\ done'[h] = done[h] \/ (Has(repair[h]) /\ done'[h] = repair[h])
           /\ UNCHANGED <<dead, told, ranOk, jobs, lane>> /\ ~up
BY ZenonT(30) DEF Boot, BootCut, reindexWalk, restoreOutcome, Repairable, RowsTyped, OutcomesTyped, rows, ghosts, bounds, volatile

(* What a row says of the job it carries, beside a success. *)
Accounted(j) ==
    /\ Has(dead[j]) => dead[j].state = "failed"
    /\ At(j, "parked") => dead[j].n = lane[j].job.n
    /\ Has(done[j]) => done[j].state # "none"
    /\ Has(done[j]) /\ done[j].state = "canceled" => <<j, done[j].n>> \in told
Accounts == \A j \in Id : Accounted(j)

(* Every outcome row was written by the handler that decided the outcome. *)
LEMMA AccountStep == Serve /\ Truth /\ Accounts /\ [Next]_vars => Accounts'
<1> SUFFICES ASSUME Serve, Truth, Accounts, [Next]_vars PROVE Accounts'
  OBVIOUS
<1>0. Draining /\ SameJob /\ Truth /\ Accounts /\ TypeOK /\ LaneTyped /\ RowsTyped /\ OutcomesTyped
  BY DEF Serve, Inv, TypeOK
<1>f. /\ \A h \in Id : dead[h].n \in Nat /\ done[h].n \in Nat /\ lane[h].job.n \in Nat
      /\ NoRow.n = 0 /\ NoRow.state = "none"
  BY <1>0, TerminalFields, LaneFields, JobFields DEF OutcomesTyped, LaneTyped, NoRow
<1>1. CASE Boot
  BY <1>1, <1>0, <1>f, RestoredRows DEF Draining, Truth, Truthful, Accounted, Accounts
<1>k. ASSUME \/ lane' = lane /\ (\A h \in Id : ~At(h, "parked"))
             \/ lane' = [h \in Id |-> IdleLane],
             told' = told, \A h \in Id : dead'[h] \in {dead[h], NoRow},
             \A h \in Id : done'[h] \in {done[h], NoRow} \/ done'[h].state = "failed"
      PROVE  Accounts'
  <2>1. \A h \in Id : ~At(h, "parked")'
    BY <1>k DEF IdleLane
  <2> QED BY <1>k, <2>1, <1>0, <1>f DEF Accounted, Accounts
<1>g. GateOpen => \A h \in Id : ~At(h, "parked")
  BY GateLanes
<1>2. ASSUME NEW i \in Id, NEW due \in Dues, NEW cap \in Caps, handleSchedule(i, due, cap),
             lane' = lane \/ lane' = [h \in Id |-> IdleLane]
      PROVE  Accounts'
  BY <1>2, <1>k, <1>g, <1>0 DEF handleSchedule, dropOutcome, OutcomesTyped
<1>s. ASSUME NEW i \in Id, revive(i), lane' = lane \/ lane' = [h \in Id |-> IdleLane] PROVE Accounts'
  <2>1. \A h \in Id : ~At(h, "parked")'
    BY <1>s, <1>g DEF revive, IdleLane
  <2>2. /\ dead' = [dead EXCEPT ![i] = NoRow] /\ done' = [done EXCEPT ![i] = NoRow]
        /\ told' = told \ {<<i, dead[i].n>>}
    BY <1>s DEF revive
  <2> QED BY <2>1, <2>2, <1>0, <1>f DEF Accounted, Accounts, OutcomesTyped
<1>3. CASE handleComplete \/ CompleteUnarmed \/ Resume \/ Pause \/ AlarmPaused \/ AlarmRefused
   \/ CompleteLost \/ Tick \/ EndRefused
  BY <1>3, <1>0, <1>f DEF handleComplete, CompleteUnarmed, Resume, Pause, AlarmPaused, AlarmRefused,
     CompleteLost, Tick, EndRefused, outcomes, volatile, ghosts, Accounted, Accounts
<1>r. ASSUME NEW j \in Id, Removes(j), \A h \in Id : ~At(h, "parked")' PROVE Accounts'
  <2>1. \A h \in Id \ {j} : done'[h] \in {done[h], NoRow}
    BY <1>r DEF Removes
  <2>2. \/ done'[j] \in {done[j], NoRow}
        \/ done'[j] = Row(header[j].n, now, "canceled") /\ <<j, header[j].n>> \in told'
    BY <1>r DEF Removes
  <2>4. dead' = dead /\ told \subseteq told'
    BY <1>r DEF Removes
  <2>5. \A h \in Id \ {j} : Accounted(h)'
    BY <1>r, <2>1, <2>4, <1>0, <1>f DEF Accounted, Accounts
  <2>6. CASE done'[j] \in {done[j], NoRow}
    <3>1. Has(done[j])' => done'[j] = done[j]
      BY <2>6, <1>f
    <3>2. Accounted(j)
      BY <1>0 DEF Accounts
    <3> QED BY <1>r, <3>1, <3>2, <2>4, <2>5 DEF Accounted, Accounts
  <2>7. CASE done'[j] = Row(header[j].n, now, "canceled") /\ <<j, header[j].n>> \in told'
    <3>1. done'[j].n = header[j].n /\ done'[j].state = "canceled"
      BY <2>7 DEF Row
    <3> QED BY <1>r, <3>1, <2>7, <2>4, <2>5, <1>0 DEF Accounted, Accounts
  <2> QED BY <2>2, <2>6, <2>7
<1>4. ASSUME NEW j \in Id, Cancels(j) PROVE Accounts'
  <2>1. Removes(j) /\ MarkCancelled(j)
    BY <1>4, <1>0, CancelRemoves
  <2>2. \A h \in Id : ~At(h, "parked")'
    BY <2>1, <1>0, <1>g, MarkedLane DEF Removes
  <2> QED BY <1>r, <2>1, <2>2
<1>5. ASSUME NEW j \in Id, CancelRefused(j) PROVE Accounts'
  <2>1. \A h \in Id : ~At(h, "parked")'
    BY <1>5, <1>0, <1>g, MarkedLane DEF CancelRefused
  <2> QED BY <1>5, <2>1, <1>0 DEF CancelRefused, outcomes, Accounted, Accounts
<1>6. ASSUME NEW j \in Id, handleDeadRetry(j) PROVE Accounts'
  BY <1>6, <1>s DEF handleDeadRetry, volatile
<1>7. ASSUME NEW j \in Id, handleDeadCancel(j) PROVE Accounts'
  BY <1>7, <1>0, <1>f, GateLanes DEF handleDeadCancel, NoRow, SweptDone, purge, Row, volatile,
     ghosts, OutcomesTyped, Terminal, Accounted, Accounts
<1>8. CASE BootCut
  BY <1>8, <1>0, <1>f, RestoredRows DEF Draining, Truth, Truthful, Accounted, Accounts
<1>9. CASE Schedule \/ ScheduleCut
  BY <1>9, <1>2, StoppedLanes DEF Schedule, ScheduleCut, NotArmed, Stopped, volatile
<1>10. CASE CancelCut
  <2>1. PICK j \in Id : Removes(j)
    BY <1>10, <1>0, CutRemoves
  <2>2. \A h \in Id : ~At(h, "parked")'
    BY <1>10, <1>0, CutRemoves DEF IdleLane
  <2> QED BY <1>r, <2>1, <2>2
<1>11. CASE DeadRetryCut
  BY <1>11, <1>s, StoppedLanes DEF DeadRetryCut, NotArmed, Stopped
<1>12. CASE DeadRetryLate \/ DeadCancelCut
  <2>1. GateOpen /\ Stopped /\ UNCHANGED <<told, dead>>
    BY <1>12 DEF DeadRetryLate, DeadCancelCut, ghosts
  <2>2. \A h \in Id : done'[h] \in {done[h], NoRow} \/ done'[h].state = "failed"
    BY <1>12, <1>0 DEF DeadRetryLate, DeadCancelCut, purge, Row, OutcomesTyped
  <2> QED BY <2>1, <2>2, <1>k, <1>g, StoppedLanes
<1>13. CASE PoolCapCut \/ PauseCut \/ ResumeCut \/ Crash \/ EndCut
  <2>1. UNCHANGED <<done, dead, told>>
    BY <1>13 DEF PoolCapCut, PauseCut, ResumeCut, Crash, EndCut, outcomes, ghosts
  <2>2. CASE PoolCapCut \/ PauseCut \/ ResumeCut
    BY <2>1, <2>2, <1>k, <1>g, StoppedLanes DEF PoolCapCut, PauseCut, ResumeCut
  <2>3. CASE Crash \/ EndCut
    BY <2>1, <2>3, <1>k DEF Crash, EndCut, Die
  <2> QED BY <1>13, <2>2, <2>3
<1>14. CASE AlarmIdle
  BY <1>14, <1>0, <1>f DEF AlarmIdle, SweptDone, NoRow, volatile, ghosts, OutcomesTyped, Terminal,
     Accounted, Accounts
<1>15. CASE AlarmDrain
  BY <1>15, <1>0, <1>f, GateLanes DEF AlarmDrain, IdleLane, NoJob, outcomes, ghosts, LaneTyped,
     Lane, AlarmDue, Accounted, Accounts
<1>16. CASE EndDrain
  BY <1>16, <1>0, <1>f DEF EndDrain, SweptDone, NoRow, ghosts, OutcomesTyped, Terminal, Accounted,
     Accounts
<1>17. ASSUME NEW j \in Id, Drain(j) \/ Disconnect(j) PROVE Accounts'
  <2>0. Framed(j)
    BY <1>17, <1>0, LaneFrame
  <2>1. ASSUME ClaimGone(j) \/ ClaimSkipped(j) PROVE Accounted(j)'
    BY <2>1, <1>0, <1>f DEF ClaimGone, Free, IdleLane, NoJob, ClaimSkipped, outcomes, ghosts,
       LaneTyped, Lane, NextInLine, Accounted, Accounts
  <2>2. ASSUME Claim(j) PROVE Accounted(j)'
    BY <2>2, <1>0, <1>f DEF Claim, outcomes, ghosts, LaneTyped, Lane, NextInLine, Untouched,
       Accounted, Accounts
  <2>3. ASSUME PutLease(j) \/ Reserve(j) \/ Refuse(j) \/ requeuePooled(j) PROVE Accounted(j)'
    BY <2>3, <1>0, <1>f DEF PutLease, Move, Reserve, Refuse, requeuePooled, outcomes, ghosts,
       LaneTyped, Lane, Accounted, Accounts
  <2>4. ASSUME Send(j) \/ SendAnswered(j) \/ SendDeclined(j) \/ SendLost(j) PROVE Accounted(j)'
    BY <2>4, <1>0, <1>f DEF Send, Sent, SendAnswered, SendDeclined, SendLost, outcomes, LaneTyped,
       Lane, Accounted, Accounts
  <2>5. ASSUME Answer(j) \/ ReleaseSlot(j) PROVE Accounted(j)'
    BY <2>5, <1>0, <1>f DEF Answer, Move, ReleaseSlot, outcomes, ghosts, LaneTyped, Lane, Accounted,
       Accounts
  <2>6. ASSUME CancelledSettles(j) PROVE Accounted(j)'
    <3>1. done' = done \/ done' = [done EXCEPT ![j] = Row(@.n, now, "succeeded")]
      BY <2>6 DEF CancelledSettles, correctCanceledToSucceeded
    <3>2. dead' = dead /\ told' = told /\ lane'[j].pc = "unleasing"
      BY <2>6, <1>0 DEF CancelledSettles, Move, LaneTyped, Lane, ghosts
    <3> QED BY <3>1, <3>2, <1>0, <1>f DEF Row, Accounted, Accounts, OutcomesTyped
  <2>7. ASSUME RecordOutcome(j) PROVE Accounted(j)'
    BY <2>7, <1>0, <1>f DEF RecordOutcome, Row, Move, ghosts, LaneTyped, Lane, OutcomesTyped,
       Terminal, Accounted, Accounts
  <2>8. ASSUME OutcomeRefused(j) PROVE Accounted(j)'
    BY <2>8, <1>0, <1>f DEF OutcomeRefused, Row, Move, ghosts, LaneTyped, Lane, Accounted, Accounts
  <2>9. ASSUME Clear(j) \/ ClearRefused(j) PROVE Accounted(j)'
    BY <2>9, <1>0, <1>f DEF Clear, NoJob, clearPending, Move, ClearRefused, outcomes, LaneTyped,
       Lane, Accounted, Accounts
  <2>10. ASSUME recordRetry(j) PROVE Accounted(j)'
    BY <2>10, <1>0, <1>f DEF recordRetry, Move, outcomes, LaneTyped, Lane, Fails, Accounted,
       Accounts
  <2>11. ASSUME parkDead(j) PROVE Accounted(j)'
    BY <2>11, <1>0, <1>f DEF parkDead, Row, Move, LaneTyped, Lane, OutcomesTyped, Terminal, Fails,
       Accounted, Accounts
  <2>12. ASSUME Unlease(j) \/ Catch(j) PROVE Accounted(j)'
    BY <2>12, <1>0, <1>f DEF Unlease, Free, IdleLane, NoJob, Catch, CatchWrites, outcomes, ghosts,
       LaneTyped, Lane, Accounted, Accounts
  <2>13. ASSUME LaneFault(j) \/ Disconnect(j) PROVE Accounted(j)'
    BY <2>13, <1>0, <1>f DEF LaneFault, Disconnect, outcomes, ghosts, LaneTyped, Lane, NextInLine,
       Fails, Accounted, Accounts
  <2>14. Accounted(j)'
    BY <1>17, <2>1, <2>2, <2>3, <2>4, <2>5, <2>6, <2>7, <2>8, <2>9, <2>10, <2>11, <2>12, <2>13 DEF
       Drain, Dispatch
  <2> QED BY <1>0, <2>0, <2>14 DEF Framed, Accounted, Accounts
<1>18. ASSUME NEW k \in running, NEW result \in {"ok", "error"}, RunEnds(k, result) PROVE Accounts'
  BY <1>18, <1>0, <1>f DEF RunEnds, outcomes, LaneTyped, Lane, Accounted, Accounts
<1>19. CASE UNCHANGED vars
  BY <1>19, <1>0, <1>f DEF vars, outcomes, volatile, ghosts, Accounted, Accounts
<1> QED
  BY <1>1, <1>2, <1>3, <1>4, <1>5, <1>6, <1>7, <1>8, <1>9, <1>10, <1>11, <1>12, <1>13, <1>14, <1>15,
     <1>16, <1>17, <1>18, <1>19 DEF Next, Request, Cut, Alarm, Cancels

(* The invariant the theorems about outcomes rest on. *)
Told == Serve /\ Tracked /\ Truth /\ Accounts

(* Every reachable state satisfies it. *)
LEMMA Tells == Spec => []Told
<1>1. Init => Tracked /\ Truth /\ Accounts
  BY SMTT(30), ConstantsAssumption DEF Init, Tracked, Truth, Truthful, Ok, Accounts, Accounted, IdleLane, NoRow, ConstantsAssumption
<1>2. Told /\ [Next]_vars => Tracked' /\ Truth' /\ Accounts'
  BY TrackedStep, TruthStep, AccountStep DEF Told
<1> QED BY <1>1, <1>2, Serves, PTL DEF Spec, Told

(* An id with a single job has an answer "ok" only if that job had one. *)
LEMMA OneJob ==
    ASSUME Told, MaxJobs = 1, NEW j \in Id, Answered(j), NEW n \in Nat, n > 0, n <= jobs[j]
    PROVE  <<j, n>> \in ranOk
<1>1. PICK k \in ranOk : k[1] = j
  BY DEF Answered
<1>2. k \in Id \X Nat /\ jobs[j] \in Nat
  BY DEF Told, Serve, Inv, TypeOK, GhostsTyped, BoundsTyped
<1>3. k[2] > 0 /\ k[2] <= jobs[j] /\ jobs[j] <= 1
  BY <1>1 DEF Told, Tracked
<1>4. k[2] = n
  BY <1>2, <1>3
<1> QED BY <1>1, <1>2, <1>4

(* Where ids are not reused, an outcome "succeeded" is that of a job whose handler did succeed, *)
(* whatever crashed and whatever write failed in between (drainRecord, restoreOutcome).         *)
THEOREM SuccessesRan == MaxJobs = 1 /\ Spec => []SucceededRan
<1> SUFFICES ASSUME MaxJobs = 1 PROVE Spec => []SucceededRan
  OBVIOUS
<1>1. Told => SucceededRan
  <2> SUFFICES ASSUME Told, NEW j \in Id, done[j].state = "succeeded" PROVE <<j, done[j].n>> \in ranOk
    BY DEF SucceededRan
  <2>1. Answered(j) /\ Has(done[j]) /\ done[j].n <= jobs[j]
    BY DEF Told, Truth, Truthful
  <2>2. done[j].n \in Nat
    BY TerminalFields DEF Told, Serve, Inv, TypeOK, OutcomesTyped
  <2> QED BY <2>1, <2>2, OneJob
<1> QED BY <1>1, Tells, PTL
-----------------------------------------------------------------------------
(* Why the pending job of an id may go. *)
Explained(j) ==
    \/ <<j, header[j].n>> \in told'
    \/ Answered(j)'
    \/ \E row \in {dead'[j], done'[j]} : row.n = header[j].n /\ row.state = "failed"
Kept == \A j \in Id : Has(header[j]) /\ header'[j].n # header[j].n => Explained(j)

(* The header of a finished job goes with the outcome already on record (CancelFinished). *)
LEMMA FinishedExplained ==
    ASSUME Told, NEW j \in Id, Has(header[j]), Has(done[j]), done' = done, told' = told, ranOk' = ranOk
    PROVE  Explained(j)
<1>1. done[j].n = header[j].n /\ done[j].state \in {"succeeded", "canceled", "failed"}
  BY DEF Told, Serve, SameJob, Same, Accounts, Accounted, Inv, TypeOK, OutcomesTyped, Terminal
<1>2. CASE done[j].state = "succeeded"
  BY <1>2 DEF Told, Truth, Truthful, Answered, Explained
<1>3. CASE done[j].state = "canceled"
  BY <1>1, <1>3 DEF Told, Accounts, Accounted, Explained
<1>4. CASE done[j].state = "failed"
  BY <1>1, <1>4 DEF Explained
<1> QED BY <1>1, <1>2, <1>3, <1>4

(* No step takes a pending job away without a cancel, an answer or a park behind it. *)
LEMMA KeptStep == Told /\ [Next]_vars => Kept
<1> SUFFICES ASSUME Told, [Next]_vars PROVE Kept
  OBVIOUS
<1>0. Serve /\ Draining /\ SameJob /\ Truth /\ Accounts /\ TypeOK /\ LaneTyped /\ RowsTyped /\ OutcomesTyped
  BY DEF Told, Serve, Inv, TypeOK
<1>1. CASE Boot
  BY <1>1, <1>0, RestoredRows DEF Superseded, Kept, Explained, Truth, Truthful, Answered
<1>2. CASE Schedule \/ ScheduleCut
  BY <1>2, <1>0, <1>0 DEF Schedule, handleSchedule, ScheduleCut, Die, RowsTyped, Kept
<1>3. CASE handleComplete \/ CompleteUnarmed \/ Resume \/ Pause \/ AlarmPaused \/ CompleteLost
   \/ Tick \/ AlarmIdle \/ AlarmRefused \/ AlarmDrain \/ EndDrain \/ EndRefused
  BY <1>3, <1>0 DEF handleComplete, CompleteUnarmed, Resume, Pause, AlarmPaused, CompleteLost, Tick,
     AlarmIdle, AlarmRefused, AlarmDrain, EndDrain, EndRefused, rows, Kept
<1>4. ASSUME NEW j \in Id, Removes(j) PROVE Kept
  <2>1. Explained(j)
    BY <1>4, <1>0, FinishedExplained DEF Removes, Explained
  <2>2. \A h \in Id : h # j => header'[h] = header[h]
    BY <1>4, <1>0 DEF Removes, removeRecord, RowsTyped
  <2> QED BY <2>1, <2>2 DEF Kept
<1>5. ASSUME NEW j \in Id, Cancels(j) \/ CancelRefused(j) PROVE Kept
  BY <1>5, <1>4, <1>0, CancelRemoves DEF CancelRefused, rows, Kept
<1>6. ASSUME NEW j \in Id, handleDeadRetry(j) PROVE Kept
  BY <1>6, <1>0 DEF handleDeadRetry, revive, SameJob, Same, RowsTyped, Kept
<1>7. ASSUME NEW j \in Id, handleDeadCancel(j) PROVE Kept
  BY <1>7, <1>0 DEF handleDeadCancel, rows, Kept
<1>8. CASE BootCut
  BY <1>8, <1>0, RestoredRows DEF Superseded, Kept, Explained, Truth, Truthful, Answered
<1>9. CASE CancelCut
  BY <1>9, <1>4, <1>0, CutRemoves
<1>10. CASE DeadRetryCut
  BY <1>10, <1>0 DEF DeadRetryCut, revive, SameJob, Same, RowsTyped, Kept
<1>11. CASE PoolCapCut \/ PauseCut \/ ResumeCut \/ Crash \/ EndCut \/ DeadCancelCut \/ DeadRetryLate
  BY <1>11, <1>0 DEF PoolCapCut, PauseCut, ResumeCut, Crash, EndCut, DeadCancelCut, DeadRetryLate,
     rows, Kept
<1>12. ASSUME NEW j \in Id, Drain(j) \/ Disconnect(j) PROVE Kept
  <2>0. Framed(j)
    BY <1>12, <1>0, LaneFrame
  <2>1. CASE header' = header
    BY <2>1 DEF Kept
  <2>2. CASE requeuePooled(j) \/ recordRetry(j)
    <3>1. lane[j].job \in Job
      BY <1>0, LaneFields DEF LaneTyped
    <3>2. header'[j].n = lane[j].job.n
      BY <2>2, <3>1, <1>0 DEF requeuePooled, recordRetry, RowsTyped, Job
    <3>3. header[j].n = lane[j].job.n
      BY <2>2, <1>0 DEF requeuePooled, recordRetry, Fails, Serving, Dispatched, SameJob, Same
    <3> QED BY <3>2, <3>3, <2>0 DEF Kept, Framed
  <2>3. ASSUME Clear(j) PROVE Kept
    <3>1. header'[j] = NoJob /\ header[j].n = lane[j].job.n /\ UNCHANGED <<dead, done, ranOk>>
      BY <2>3, <1>0 DEF Clear, clearPending, outcomes, Serving, SameJob, Same, RowsTyped
    <3>2. CASE At(j, "clearing")
      BY <3>1, <3>2, <1>0, <2>0 DEF Truth, Truthful, Answered, Explained, Kept, Framed
    <3>3. CASE At(j, "parked")
      BY <3>1, <3>3, <1>0, <2>0 DEF Accounts, Accounted, Explained, Kept, Framed
    <3> QED BY <2>3, <3>2, <3>3 DEF Clear
  <2>4. ASSUME Catch(j), header' # header PROVE Kept
    <3>1. Has(dead[j]) /\ dead' = dead
      BY <2>4 DEF Catch, CatchWrites, outcomes
    <3> QED BY <3>1, <1>0, <2>0 DEF SameJob, Same, Accounts, Accounted, Explained, Kept, Framed
  <2>5. ASSUME Drain(j) \/ Disconnect(j), ~requeuePooled(j), ~recordRetry(j), ~Clear(j), ~Catch(j) PROVE header' = header
    BY <2>5 DEF Drain, Dispatch, Disconnect, ClaimGone, ClaimSkipped, Claim, PutLease, Reserve, Refuse, Send,
       SendAnswered, SendDeclined, SendLost, Sent, Answer, ReleaseSlot, CancelledSettles, RecordOutcome,
       OutcomeRefused, ClearRefused, parkDead, Unlease, LaneFault, rows
  <2> QED BY <1>12, <2>1, <2>2, <2>3, <2>4, <2>5
<1>13. ASSUME NEW k \in running, NEW result \in {"ok", "error"}, RunEnds(k, result) PROVE Kept
  BY <1>13, <1>0 DEF RunEnds, rows, Kept
<1>14. CASE UNCHANGED vars
  BY <1>14, <1>0 DEF vars, rows, Kept
<1> QED
  BY <1>1, <1>2, <1>3, <1>4, <1>5, <1>6, <1>7, <1>8, <1>9, <1>10, <1>11, <1>12, <1>13, <1>14 DEF
     Next, Request, Cut, Alarm, Cancels

(* Whatever crashes and fails, a pending job only goes with a cancel, a success or a park. *)
THEOREM NothingVanishes == Spec => [][Kept]_vars
<1>1. Told /\ [Next]_vars => [Kept]_vars
  BY KeptStep
<1> QED BY <1>1, Tells, PTL DEF Spec

(* Where ids are not reused, the success is that of the very job that goes. *)
THEOREM NoJobVanishes == MaxJobs = 1 /\ Spec => NeverVanishes
<1> SUFFICES ASSUME MaxJobs = 1 PROVE Spec => NeverVanishes
  OBVIOUS
<1> DEFINE Gone == \A j \in Id : Has(header[j]) /\ header'[j].n # header[j].n
                      => \/ <<j, header[j].n>> \in told' \cup ranOk'
                         \/ \E row \in {dead'[j], done'[j]} : row.n = header[j].n /\ row.state = "failed"
<1>1. Told /\ Told' /\ [Next]_vars => [Gone]_vars
  <2> SUFFICES ASSUME Told, Told', [Next]_vars, NEW j \in Id, Has(header[j]), header'[j].n # header[j].n, Answered(j)'
               PROVE  <<j, header[j].n>> \in ranOk'
    BY KeptStep DEF Kept, Explained
  <2>1. header[j].n \in Nat /\ header[j].n <= jobs[j] /\ jobs[j] \in Nat /\ jobs'[j] \in Nat
    BY JobFields DEF Told, Serve, Inv, Numbered, TypeOK, RowsTyped, BoundsTyped
  <2>2. jobs[j] <= 1 /\ jobs'[j] <= 1
    BY DEF Told, Tracked
  <2>3. header[j].n = 1
    BY <2>1, <2>2
  <2>4. PICK k \in ranOk' : k[1] = j
    BY DEF Answered
  <2>5. k \in Id \X Nat /\ k[2] > 0 /\ k[2] <= jobs'[j]
    BY <2>4 DEF Told, Serve, Inv, TypeOK, GhostsTyped, Tracked
  <2>6. k[2] = header[j].n
    BY <2>1, <2>2, <2>3, <2>5
  <2> QED BY <2>4, <2>5, <2>6
<1> QED BY <1>1, Tells, PTL DEF Spec, NeverVanishes
-----------------------------------------------------------------------------
(* Only a lane whose dispatch was open is cancelled, and a lease ends after the claim it replaces. *)
Leased(j) ==
    /\ lane[j].cancelled => lane[j].pc \in {"sent", "answered", "released", "unleasing", "failing"}
    /\ ~At(j, "idle") => lane[j].claim <= now
    /\ ~At(j, "idle") /\ ~At(j, "queued") => lane[j].claim < lane[j].lease
Leases == \A j \in Id : Leased(j)

(* CLEAN_KEY is set, or would be if the drain ended now. *)
Vouches == clean \/ (up /\ ~dirty)

(* A pending job that recovery could re-arm and no /cancel was refused to delete, and a lane *)
(* that no longer stands for its record: all it has left to do is drop its lease row.        *)
Pending(j) == /\ Has(header[j]) /\ header[j].due <= MaxIndexable
              /\ <<j, header[j].n>> \notin unremoved
Rearmed(j) == At(j, "unleasing") \/ lane[j].cancelled

(* A pending job has a row of the index, its own one if its lane only drops the lease; the  *)
(* exception is a lane between its claim and its lease, or one in its catch block.          *)
CoveredJob(j) ==
    Pending(j) => /\ Indexed(j) \/ (lane[j].pc \in {"unindexed", "failing"} /\ ~lane[j].cancelled)
                  /\ Rearmed(j) => Ix(header[j].due, j) \in index
Covered == Vouches => \A j \in Id : CoveredJob(j)

(* The lease that such a lane drops is not at the very time its id is pending again: the index *)
(* would hold one row for the two of them.                                                     *)
Apart == \A j \in Id : Pending(j) /\ Rearmed(j) => header[j].due # lane[j].lease

(* Lanes are leased and cancelled one step at a time. *)
LEMMA LeasedStep == Serve /\ Leases /\ [Next]_vars => Leases'
<1> SUFFICES ASSUME Serve, Leases, [Next]_vars PROVE Leases'
  OBVIOUS
<1>0. Leases /\ TypeOK /\ LaneTyped /\ now \in Nat /\ Lease \in Nat \ {0} /\ TickStep \in Nat
  BY ConstantsAssumption DEF Serve, Inv, TypeOK, ClockTyped, ConstantsAssumption
<1>f. \A h \in Id : lane[h].claim \in Nat /\ lane[h].lease \in Nat
  BY <1>0, LaneFields DEF LaneTyped
<1>1. CASE handleComplete \/ CompleteUnarmed \/ Resume \/ Pause \/ AlarmPaused \/ CompleteLost
   \/ AlarmIdle \/ AlarmRefused \/ EndDrain \/ EndRefused \/ Boot \/ BootCut \/ Schedule
  BY <1>1, <1>0, <1>f DEF handleComplete, CompleteUnarmed, Resume, Pause, AlarmPaused, CompleteLost,
     AlarmIdle, AlarmRefused, EndDrain, EndRefused, Boot, BootCut, Schedule, handleSchedule,
     volatile, bounds, Leased, Leases
<1>2. ASSUME NEW j \in Id, Cancels(j) PROVE Leases'
  <2>1. MarkCancelled(j) /\ now' = now
    BY <1>2, CancelRemoves DEF Removes, Serve, Inv, TypeOK
  <2> QED BY ZenonT(30), <2>1, <1>0, <1>f, MarkedLane DEF Leased, Leases
<1>3. ASSUME NEW j \in Id, CancelRefused(j) PROVE Leases'
  BY ZenonT(30), <1>3, <1>0, <1>f, MarkedLane DEF CancelRefused, Leased, Leases
<1>4. ASSUME NEW j \in Id, handleDeadRetry(j) \/ handleDeadCancel(j) PROVE Leases'
  BY <1>4, <1>0, <1>f DEF handleDeadRetry, revive, handleDeadCancel, volatile, bounds, Leased,
     Leases
<1>5. CASE CancelCut \/ Crash \/ EndCut \/ RequestCut
  <2>1. lane' = lane \/ lane' = [h \in Id |-> IdleLane]
    BY <1>5, CutStops, StoppedFrame DEF CancelCut, Crash, EndCut, Die
  <2>2. now' = now
    BY <1>5, CutStops, StoppedFrame DEF CancelCut, Crash, EndCut, Die
  <2> QED BY <2>1, <2>2, <1>0 DEF IdleLane, Leased, Leases
<1>6. CASE AlarmDrain
  <2>1. \A h \in Selected : ClaimTime(h) \in Nat /\ ClaimTime(h) <= now
    BY <1>0, ClaimTyped DEF DueTimes, Due
  <2> QED BY <1>6, <2>1, <1>0, <1>f DEF AlarmDrain, bounds, IdleLane, Leased, Leases
<1>7. CASE Tick
  <2>1. lane' = lane /\ now' = now + TickStep
    BY <1>7 DEF Tick, volatile
  <2> QED BY <2>1, <1>0, <1>f DEF Leased, Leases
<1>8. ASSUME NEW j \in Id, Drain(j) \/ Disconnect(j) PROVE Leases'
  <2>0. Framed(j)
    BY <1>8, <1>0, LaneFrame
  <2>1. ASSUME ClaimGone(j) \/ ClaimSkipped(j) \/ Unlease(j) \/ Catch(j) PROVE Leased(j)'
    BY <2>1, <1>0, <1>f DEF ClaimGone, Free, IdleLane, NoJob, ClaimSkipped, Unlease, Catch,
       CatchWrites, bounds, LaneTyped, Lane, NextInLine, Leased, Leases
  <2>2. ASSUME Claim(j) PROVE Leased(j)'
    BY <2>2, <1>0, <1>f DEF Claim, bounds, LaneTyped, Lane, NextInLine, Untouched, Leased, Leases
  <2>3. ASSUME PutLease(j) \/ Reserve(j) \/ Refuse(j) \/ requeuePooled(j) PROVE Leased(j)'
    BY <2>3, <1>0, <1>f DEF PutLease, Move, Reserve, Refuse, requeuePooled, bounds, LaneTyped, Lane,
       Leased, Leases
  <2>4. ASSUME Send(j) \/ SendAnswered(j) \/ SendDeclined(j) \/ SendLost(j) PROVE Leased(j)'
    BY <2>4, <1>0, <1>f DEF Send, Sent, SendAnswered, SendDeclined, SendLost, LaneTyped, Lane,
       Leased, Leases
  <2>5. ASSUME Answer(j) \/ ReleaseSlot(j) PROVE Leased(j)'
    BY <2>5, <1>0, <1>f DEF Answer, Move, ReleaseSlot, bounds, LaneTyped, Lane, Leased, Leases
  <2>6. ASSUME CancelledSettles(j) \/ RecordOutcome(j) \/ OutcomeRefused(j) PROVE Leased(j)'
    BY <2>6, <1>0, <1>f DEF CancelledSettles, Move, RecordOutcome, OutcomeRefused, bounds,
       LaneTyped, Lane, Leased, Leases
  <2>7. ASSUME Clear(j) \/ ClearRefused(j) PROVE Leased(j)'
    BY <2>7, <1>0, <1>f DEF Clear, NoJob, clearPending, Move, ClearRefused, LaneTyped, Lane, Leased,
       Leases
  <2>8. ASSUME recordRetry(j) \/ parkDead(j) PROVE Leased(j)'
    BY <2>8, <1>0, <1>f DEF recordRetry, Move, parkDead, bounds, LaneTyped, Lane, Fails, Leased,
       Leases
  <2>9. ASSUME LaneFault(j) PROVE Leased(j)'
    <3>1. /\ lane'[j].pc = "failing" /\ lane'[j].claim = lane[j].claim /\ lane'[j].cancelled = lane[j].cancelled
          /\ lane'[j].lease = IF At(j, "queued") THEN now + Lease ELSE lane[j].lease
          /\ now' = now
      BY <2>9, <1>0 DEF LaneFault, LaneTyped, Lane
    <3>2. lane[j].claim <= now /\ (~At(j, "queued") => lane[j].claim < lane[j].lease)
      BY <2>9, <1>0 DEF LaneFault, NextInLine, Fails, Leased, Leases
    <3> QED BY <3>1, <3>2, <1>0, <1>f DEF Leased
  <2>10. ASSUME Disconnect(j) PROVE Leased(j)'
    BY <2>10, <1>0, <1>f DEF Disconnect, LaneTyped, Lane, Leased, Leases
  <2>11. Leased(j)'
    BY <1>8, <2>1, <2>2, <2>3, <2>4, <2>5, <2>6, <2>7, <2>8, <2>9, <2>10 DEF Drain, Dispatch
  <2> QED BY <1>0, <2>0, <2>11 DEF Framed, Leased, Leases
<1>9. ASSUME NEW k \in running, NEW result \in {"ok", "error"}, RunEnds(k, result) PROVE Leases'
  BY <1>9, <1>0, <1>f DEF RunEnds, bounds, LaneTyped, Lane, Leased, Leases
<1>10. CASE UNCHANGED vars
  BY <1>10, <1>0, <1>f DEF vars, volatile, bounds, Leased, Leases
<1> QED
  BY <1>1, <1>2, <1>3, <1>4, <1>5, <1>6, <1>7, <1>8, <1>9, <1>10 DEF Next, Request, Cut, Alarm, Cancels,
     RequestCut

(* The rows that the alarm drops leave every job that has a due row the one it claims (listDue). *)
LEMMA ClaimsStay ==
    ASSUME TypeOK, NEW j \in Id, Has(header[j]), Indexed(j),
           NEW D \in SUBSET (Due \ Claims), index' = index \ D
    PROVE  \E e \in index' : e[2] = j
<1>1. PICK e \in index : e[2] = j
  BY DEF Indexed
<1>2. CASE e \notin Due
  BY <1>1, <1>2
<1>3. CASE e \in Due
  <2>1. e[1] \in DueTimes(j)
    BY <1>1, <1>3 DEF DueTimes
  <2>2. j \in Selected
    BY <2>1 DEF Selected
  <2>3. ClaimTime(j) \in DueTimes(j) /\ Ix(ClaimTime(j), j) \in Claims
    BY <2>2, ClaimTyped DEF Claims
  <2>4. PICK f \in Due : f[2] = j /\ f[1] = ClaimTime(j)
    BY <2>3 DEF DueTimes
  <2>5. f = Ix(ClaimTime(j), j) /\ f \in index
    BY <2>4 DEF Due, TypeOK, RowsTyped
  <2> QED BY <2>3, <2>4, <2>5
<1> QED BY <1>2, <1>3

(* Recovery leaves no pending job without a row (reindexOrphanedRecords). *)
LEMMA BootCovers ==
    ASSUME Serve, Leases, Covered, Boot \/ (BootCut /\ clean') PROVE Covered'
<1>0. RowsTyped /\ OutcomesTyped /\ lane' = lane /\ unremoved' = unremoved
  BY DEF Serve, Inv, TypeOK, Boot, BootCut, volatile, ghosts
<1>1. \A h \in Id : At(h, "idle") /\ ~lane[h].cancelled
  BY DEF Boot, BootCut, Serve, Draining, Leases, Leased
<1>2. SUFFICES ASSUME NEW h \in Id, Pending(h)' PROVE Indexed(h)'
  BY <1>0, <1>1 DEF Covered, CoveredJob, Rearmed
<1>3. CASE clean
  BY <1>0, <1>1, <1>2, <1>3 DEF Boot, BootCut, rows, Covered, CoveredJob, Vouches, Pending, Indexed
<1>4. CASE ~clean
  <2>0. reindexWalk(Repairable, Orphans)
    BY <1>4 DEF Boot, BootCut
  <2>1. header'[h] = header[h] /\ index' = index \cup {Ix(header[g].due, g) : g \in Orphans}
    BY <1>0, <1>2, <2>0, RestoredRows DEF reindexWalk, Pending, NoJob
  <2>2. CASE Indexed(h)
    BY <2>1, <2>2 DEF Indexed
  <2>3. CASE h \in Orphans
    <3>1. Ix(header[h].due, h) \in index'
      BY <2>1, <2>3
    <3> QED BY <3>1 DEF Indexed
  <2> QED BY <1>0, <1>2, <2>1, <2>2, <2>3 DEF Orphans, Pending
<1> QED BY <1>3, <1>4

(* A lane that leaves its record no row is about to write one, or taints the store. *)
LEMMA LaneCovers ==
    ASSUME TypeOK, NEW j \in Id, Drain(j) \/ Disconnect(j), Leased(j), CoveredJob(j),
           Pending(j) /\ Rearmed(j) => header[j].due # lane[j].lease, ~dirty'
    PROVE  CoveredJob(j)'
<1>0. /\ LaneTyped /\ RowsTyped /\ Leased(j) /\ CoveredJob(j) /\ ~dirty' /\ now \in Nat /\ Backpressure \in Nat
      /\ Pending(j) /\ Rearmed(j) => header[j].due # lane[j].lease
  BY TimesTyped DEF TypeOK, ClockTyped
<1>f. /\ lane[j].claim \in Nat /\ lane[j].lease \in Nat /\ lane[j].job \in Job /\ header[j] \in Job
      /\ NoJob.n = 0 /\ unremoved' = unremoved
  BY <1>0, LaneFields, LaneFrame DEF LaneTyped, RowsTyped, NoJob, Framed
<1>k. ASSUME header' = header, index \subseteq index', lane'[j].cancelled = lane[j].cancelled,
            Indexed(j) \/ lane'[j].pc = "failing" \/ lane[j].cancelled \/ ~Pending(j),
            ~(lane'[j].pc = "unleasing") \/ lane[j].cancelled
      PROVE CoveredJob(j)'
  <2>1. ASSUME Pending(j), lane[j].cancelled PROVE Ix(header[j].due, j) \in index
    BY <2>1, <1>0 DEF Rearmed, CoveredJob
  <2>2. Pending(j)' => Pending(j)
    BY <1>k, <1>f DEF Pending
  <2>3. Indexed(j) => Indexed(j)'
    BY <1>k DEF Indexed
  <2>4. ASSUME Pending(j), lane[j].cancelled PROVE Ix(header'[j].due, j) \in index' /\ Indexed(j)'
    <3>1. Ix(header'[j].due, j) \in index'
      BY <1>k, <2>1, <2>4
    <3> QED BY <3>1 DEF Indexed
  <2> QED BY <1>k, <2>2, <2>3, <2>4 DEF Rearmed, CoveredJob
<1>w. ASSUME NEW t, header'[j].due = t, Ix(t, j) \in index' PROVE CoveredJob(j)'
  BY <1>w DEF Indexed, CoveredJob
<1>1. CASE ClaimGone(j) \/ ClaimSkipped(j)
  BY <1>1, <1>0, <1>f DEF ClaimGone, Free, IdleLane, NoJob, NextInLine, ClaimSkipped, rows,
     LaneTyped, RowsTyped, Leased, Pending, Rearmed, Indexed, CoveredJob
<1>2. CASE Claim(j)
  BY <1>2, <1>0, <1>f DEF Claim, NextInLine, Untouched, LaneTyped, RowsTyped, Leased, Pending,
     Rearmed, Indexed, CoveredJob
<1>3. CASE PutLease(j)
  <2>1. /\ header' = header /\ index \subseteq index' /\ Ix(lane[j].lease, j) \in index'
        /\ lane'[j].pc = "leased" /\ lane'[j].cancelled = lane[j].cancelled /\ ~lane[j].cancelled
    BY <1>3, <1>0 DEF PutLease, Move, LaneTyped, Leased
  <2> QED BY <2>1 DEF Indexed, Rearmed, CoveredJob
<1>4. CASE Reserve(j) \/ Refuse(j)
  <2>1. /\ header' = header /\ index \subseteq index' /\ lane'[j].cancelled = lane[j].cancelled
        /\ ~(lane'[j].pc = "unleasing") \/ lane[j].cancelled
    BY <1>4, <1>0 DEF Reserve, Refuse, Move, rows, LaneTyped, Lane
  <2>2. Indexed(j) \/ lane'[j].pc = "failing" \/ lane[j].cancelled \/ ~Pending(j)
    BY <1>4, <1>0 DEF Reserve, Refuse, LaneTyped, Leased, CoveredJob
  <2> QED BY <2>1, <2>2, <1>k
<1>5. CASE requeuePooled(j)
  <2>1. header'[j].due = now + Backpressure /\ Ix(now + Backpressure, j) \in index'
    BY <1>5, <1>0, <1>f DEF requeuePooled, RowsTyped, Job
  <2> QED BY <2>1, <1>w
<1>6. CASE Send(j) \/ SendAnswered(j) \/ SendDeclined(j) \/ SendLost(j)
  <2>1. /\ header' = header /\ index \subseteq index' /\ lane'[j].cancelled = lane[j].cancelled
        /\ ~(lane'[j].pc = "unleasing") \/ lane[j].cancelled
    BY <1>6, <1>0 DEF Send, SendAnswered, SendDeclined, SendLost, Sent, rows, LaneTyped, Lane
  <2>2. Indexed(j) \/ lane'[j].pc = "failing" \/ lane[j].cancelled \/ ~Pending(j)
    BY <1>6, <1>0 DEF Send, SendAnswered, SendDeclined, SendLost, Sent, LaneTyped, Leased, CoveredJob
  <2> QED BY <2>1, <2>2, <1>k
<1>7. CASE Answer(j) \/ ReleaseSlot(j) \/ Disconnect(j)
  <2>1. /\ header' = header /\ index \subseteq index' /\ lane'[j].cancelled = lane[j].cancelled
        /\ ~(lane'[j].pc = "unleasing") \/ lane[j].cancelled
    BY <1>7, <1>0 DEF Answer, ReleaseSlot, Disconnect, Move, rows, LaneTyped, Lane
  <2>2. Indexed(j) \/ lane'[j].pc = "failing" \/ lane[j].cancelled \/ ~Pending(j)
    BY <1>7, <1>0 DEF Answer, ReleaseSlot, Disconnect, LaneTyped, Leased, CoveredJob
  <2> QED BY <2>1, <2>2, <1>k
<1>8. CASE CancelledSettles(j)
  BY <1>8, <1>0, <1>f DEF CancelledSettles, Move, rows, LaneTyped, RowsTyped, Leased, Pending,
     Rearmed, Indexed, CoveredJob
<1>9. CASE RecordOutcome(j) \/ OutcomeRefused(j)
  <2>1. /\ header' = header /\ index \subseteq index' /\ lane'[j].cancelled = lane[j].cancelled
        /\ ~(lane'[j].pc = "unleasing") \/ lane[j].cancelled
    BY <1>9, <1>0 DEF RecordOutcome, OutcomeRefused, Move, rows, LaneTyped, Lane
  <2>2. Indexed(j) \/ lane'[j].pc = "failing" \/ lane[j].cancelled \/ ~Pending(j)
    BY <1>9, <1>0 DEF RecordOutcome, OutcomeRefused, LaneTyped, Leased, CoveredJob
  <2> QED BY <2>1, <2>2, <1>k
<1>10. CASE Clear(j) \/ ClearRefused(j)
  BY <1>10, <1>0, <1>f DEF Clear, NoJob, clearPending, Move, ClearRefused, rows, LaneTyped,
     RowsTyped, Leased, Pending, Rearmed, Indexed, CoveredJob
<1>11. CASE recordRetry(j)
  <2>1. header'[j].due = now + DelayOf(j) /\ Ix(now + DelayOf(j), j) \in index'
    BY <1>11, <1>0, <1>f DEF recordRetry, RowsTyped, Job
  <2> QED BY <2>1, <1>w
<1>12. CASE parkDead(j)
  BY <1>12, <1>0, <1>f DEF parkDead, Move, Fails, rows, LaneTyped, RowsTyped, Leased, Pending,
     Rearmed, Indexed, CoveredJob
<1>13. CASE Unlease(j)
  <2>1. header' = header /\ lane'[j].pc = "idle" /\ ~lane'[j].cancelled /\ LeaseKey(j) = Ix(lane[j].lease, j)
    BY <1>13, <1>0 DEF Unlease, Free, IdleLane, LaneTyped, LeaseKey
  <2>2. \A e \in index : e # Ix(lane[j].lease, j) => e \in index'
    BY <1>13, <2>1 DEF Unlease
  <2>3. ASSUME Pending(j)' PROVE Ix(header'[j].due, j) \in index'
    <3>1. Ix(header[j].due, j) \in index /\ header[j].due # lane[j].lease
      BY <1>13, <2>1, <2>3, <1>0, <1>f DEF Unlease, Pending, Rearmed, CoveredJob
    <3> QED BY <3>1, <2>1, <2>2
  <2> QED BY <2>1, <2>3 DEF Indexed, Rearmed, CoveredJob, Pending
<1>14. CASE LaneFault(j)
  BY <1>14, <1>0, <1>f DEF LaneFault, NextInLine, Fails, rows, LaneTyped, RowsTyped, Leased,
     Pending, Rearmed, Indexed, CoveredJob
<1>15. CASE Catch(j)
  <2>1. lane'[j].pc = "idle" /\ ~lane'[j].cancelled /\ At(j, "failing") /\ CatchWrites(j, 2)
    BY <1>15, <1>0 DEF Catch, Free, IdleLane, LaneTyped
  <2>2. CASE lane[j].cancelled
    <3>1. header' = header /\ index' = index \ {Ix(lane[j].lease, j)}
      BY <2>1, <2>2 DEF CatchWrites, LeaseRow, LeaseKey
    <3>2. ASSUME Pending(j)' PROVE Ix(header'[j].due, j) \in index'
      <4>1. Ix(header[j].due, j) \in index /\ header[j].due # lane[j].lease
        BY <3>1, <3>2, <2>2, <1>0, <1>f DEF Pending, Rearmed, CoveredJob
      <4> QED BY <4>1, <3>1
    <3> QED BY <2>1, <3>2 DEF Indexed, Rearmed, CoveredJob, Pending
  <2>3. CASE ~lane[j].cancelled /\ Has(dead[j])
    BY <2>1, <2>3, <1>0, <1>f DEF CatchWrites, RowsTyped, CoveredJob, Pending
  <2>4. CASE ~lane[j].cancelled /\ ~Has(dead[j])
    <3>1. index' = (index \cup {Ix(lane[j].claim, j)}) \ {Ix(lane[j].lease, j)}
      BY <2>1, <2>4 DEF CatchWrites, LeaseRow, LeaseKey
    <3>2. lane[j].claim # lane[j].lease
      BY <2>1, <1>0, <1>f DEF Leased
    <3>3. Ix(lane[j].claim, j) \in index'
      BY <3>1, <3>2
    <3> QED BY <2>1, <3>3 DEF Indexed, Rearmed, CoveredJob
  <2> QED BY <2>2, <2>3, <2>4
<1> QED
  BY <1>1, <1>2, <1>3, <1>4, <1>5, <1>6, <1>7, <1>8, <1>9, <1>10, <1>11, <1>12, <1>13, <1>14, <1>15
     DEF Drain, Dispatch

(* No step that the store vouches for takes the last row of a pending job away. *)
LEMMA CoveredStep == Serve /\ Leases /\ Apart /\ Covered /\ [Next]_vars => Covered'
<1> SUFFICES ASSUME Serve, Leases, Apart, Covered, [Next]_vars PROVE Covered'
  OBVIOUS
<1>0. /\ Draining /\ Leases /\ Apart /\ Covered /\ TypeOK /\ LaneTyped /\ RowsTyped /\ now \in Nat
      /\ Backpressure \in Nat
  BY TimesTyped DEF Serve, Inv, TypeOK, ClockTyped
<1>f. /\ \A h \in Id : lane[h].claim \in Nat /\ lane[h].lease \in Nat /\ lane[h].job \in Job /\ header[h] \in Job
      /\ NoJob.n = 0
  BY <1>0, LaneFields DEF LaneTyped, RowsTyped, NoJob
<1>i. clean \/ ~pass.on => \A h \in Id : At(h, "idle") /\ ~lane[h].cancelled
  BY <1>0 DEF Draining, Leases, Leased
<1>1. CASE Boot
  BY <1>1, BootCovers
<1>l. ASSUME lane' = lane \/ lane' = [h \in Id |-> IdleLane], NEW h \in Id
      PROVE  lane'[h] = lane[h] \/ (lane'[h].pc = "idle" /\ ~lane'[h].cancelled)
  BY <1>l DEF IdleLane
<1>o. ASSUME NEW h \in Id, Vouches, header'[h] = header[h], unremoved \subseteq unremoved',
             \A e \in index : e[2] = h => e \in index',
             lane'[h] = lane[h] \/ (clean /\ lane'[h].pc = "idle" /\ ~lane'[h].cancelled)
      PROVE  CoveredJob(h)'
  <2>1. Pending(h)' => Pending(h)
    BY <1>o DEF Pending
  <2>2. Indexed(h) => Indexed(h)'
    BY <1>o DEF Indexed
  <2>3. Ix(header[h].due, h) \in index => Ix(header'[h].due, h) \in index'
    BY <1>o
  <2>4. CoveredJob(h)
    BY <1>o, <1>0 DEF Covered
  <2>5. CASE lane'[h] = lane[h]
    BY <2>1, <2>2, <2>3, <2>4, <2>5 DEF CoveredJob, Rearmed
  <2>6. CASE clean /\ lane'[h].pc = "idle" /\ ~lane'[h].cancelled
    BY <2>1, <2>2, <2>4, <2>6, <1>i DEF CoveredJob, Rearmed
  <2> QED BY <1>o, <2>5, <2>6
<1>v. ASSUME Stopped, clean' = clean, Vouches', NEW h \in Id
      PROVE  Vouches /\ (lane'[h] = lane[h] \/ (clean /\ lane'[h].pc = "idle" /\ ~lane'[h].cancelled))
  BY <1>v, <1>l, StoppedFrame DEF Vouches
<1>2. ASSUME NEW i \in Id, NEW due \in Dues, NEW cap \in Caps, handleSchedule(i, due, cap),
             Vouches', clean' = clean,
             \/ UNCHANGED <<lane, up, dirty>>
             \/ Stopped
      PROVE  \A h \in Id : CoveredJob(h)'
  <2>1. /\ index' = index \cup {Ix(due, i)} /\ unremoved' = unremoved
        /\ header' = [header EXCEPT ![i] = [n |-> jobs[i] + 1, due |-> due, attempts |-> 0]]
    BY <1>2 DEF handleSchedule
  <2>2. header'[i].due = due /\ \A h \in Id \ {i} : header'[h] = header[h]
    BY <2>1, <1>0 DEF RowsTyped
  <2>3. CoveredJob(i)'
    BY <2>1, <2>2 DEF Indexed, CoveredJob
  <2>4. ASSUME NEW h \in Id \ {i} PROVE CoveredJob(h)'
    <3>1. Vouches /\ (lane'[h] = lane[h] \/ (clean /\ lane'[h].pc = "idle" /\ ~lane'[h].cancelled))
      BY <1>2, <1>v DEF Vouches
    <3> QED BY <3>1, <2>1, <2>2, <2>4, <1>o
  <2> QED BY <2>3, <2>4
<1>g. ASSUME NEW i \in Id, revive(i), Vouches', \/ UNCHANGED <<lane, up, dirty>>
                                              \/ Stopped
      PROVE  \A h \in Id : CoveredJob(h)'
  <2>1. /\ index' = index \cup {Ix(now, i)} /\ unremoved' = unremoved /\ clean' = clean
        /\ header' = [header EXCEPT ![i] = [n |-> dead[i].n, due |-> now, attempts |-> 0]]
    BY <1>g DEF revive, flags
  <2>2. header'[i].due = now /\ \A h \in Id \ {i} : header'[h] = header[h]
    BY <2>1, <1>0 DEF RowsTyped
  <2>3. CoveredJob(i)'
    BY <2>1, <2>2 DEF Indexed, CoveredJob
  <2>4. ASSUME NEW h \in Id \ {i} PROVE CoveredJob(h)'
    <3>1. Vouches /\ (lane'[h] = lane[h] \/ (clean /\ lane'[h].pc = "idle" /\ ~lane'[h].cancelled))
      BY <1>g, <2>1, <1>v DEF Vouches
    <3> QED BY <3>1, <2>1, <2>2, <2>4, <1>o
  <2> QED BY <2>3, <2>4
<1>3. CASE handleComplete \/ CompleteUnarmed \/ Resume \/ Pause \/ AlarmPaused \/ CompleteLost
   \/ Tick \/ EndRefused
  <2>1. UNCHANGED <<header, index, lane, clean, up, dirty, unremoved>>
    BY <1>3 DEF handleComplete, CompleteUnarmed, Resume, Pause, AlarmPaused, CompleteLost, Tick,
       EndRefused, rows, flags, volatile, ghosts
  <2> QED BY <2>1, <1>0 DEF Vouches, Pending, Rearmed, Indexed, CoveredJob, Covered
<1>r. ASSUME NEW j \in Id, Removes(j), Vouches', NEW h \in Id,
             h # j => Vouches /\ (lane'[h] = lane[h] \/ (clean /\ lane'[h].pc = "idle" /\ ~lane'[h].cancelled))
      PROVE  CoveredJob(h)'
  <2>1. /\ header' = [header EXCEPT ![j] = NoJob] /\ unremoved' = unremoved
        /\ \A e \in index : e[2] # j => e \in index'
    BY <1>r DEF Removes, removeRecord, HeldRows
  <2>2. CASE h = j
    BY <2>1, <2>2, <1>0, <1>f DEF RowsTyped, Pending, CoveredJob
  <2>3. CASE h # j
    <3>1. header'[h] = header[h]
      BY <2>1, <2>3, <1>0 DEF RowsTyped
    <3> QED BY <3>1, <2>1, <2>3, <1>r, <1>o
  <2> QED BY <2>2, <2>3
<1>4. ASSUME NEW j \in Id, Cancels(j) PROVE Covered'
  <2>1. Removes(j) /\ MarkCancelled(j) /\ UNCHANGED <<up, dirty, clean>>
    BY <1>4, CancelRemoves DEF Serve, Inv, TypeOK, Removes
  <2>2. \A h \in Id \ {j} : lane'[h] = lane[h]
    BY <2>1, <1>0 DEF MarkCancelled, LaneTyped
  <2> QED BY <2>1, <2>2, <1>r DEF Vouches, Covered
<1>5. ASSUME NEW j \in Id, CancelRefused(j) PROVE Covered'
  <2>1. /\ UNCHANGED <<header, index, clean, up, dirty>> /\ unremoved' = unremoved \cup {Key(j)}
        /\ MarkCancelled(j) /\ At(j, "sent")
    BY <1>5 DEF CancelRefused, rows, flags
  <2>2. \A h \in Id \ {j} : lane'[h] = lane[h]
    BY <2>1, <1>0 DEF MarkCancelled, LaneTyped
  <2>3. CASE lane[j].cancelled
    <3>1. lane'[j] = lane[j]
      BY <2>1, <2>3, <1>0 DEF MarkCancelled, LaneTyped, Lane
    <3> QED BY <2>1, <2>2, <3>1, <1>o DEF Vouches, Covered
  <2>4. CASE ~lane[j].cancelled
    <3>1. header[j].n = lane[j].job.n
      BY <2>1, <2>4, <1>0 DEF Serve, SameJob, Same, Serving, Dispatched
    <3>2. CoveredJob(j)'
      BY <2>1, <3>1 DEF Pending, CoveredJob
    <3> QED BY <2>1, <2>2, <3>2, <1>o DEF Vouches, Covered
  <2> QED BY <2>3, <2>4
<1>6. ASSUME NEW j \in Id, handleDeadRetry(j) PROVE Covered'
  BY <1>6, <1>g DEF handleDeadRetry, volatile, Covered
<1>7. ASSUME NEW j \in Id, handleDeadCancel(j) PROVE Covered'
  BY <1>7, <1>0 DEF handleDeadCancel, rows, flags, volatile, ghosts, Vouches, Pending, Rearmed,
     Indexed, CoveredJob, Covered
<1>8. CASE BootCut
  BY <1>8, <1>0, BootCovers DEF BootCut, volatile, Vouches, Covered
<1>9. CASE Schedule \/ ScheduleCut
  <2>1. PICK i \in Id, due \in Dues, cap \in Caps : handleSchedule(i, due, cap)
    BY <1>9 DEF Schedule, ScheduleCut
  <2>2. clean' = clean /\ (UNCHANGED <<lane, up, dirty>> \/ Stopped)
    BY <1>9, <2>1 DEF Schedule, ScheduleCut, handleSchedule, NotArmed, Stopped, flags, volatile
  <2> QED BY <2>1, <2>2, <1>2 DEF Covered
<1>10. CASE CancelCut
  <2>1. PICK j \in Id : Removes(j)
    BY <1>10, CutRemoves DEF Serve, Inv, TypeOK
  <2>2. lane' = [h \in Id |-> IdleLane] /\ ~up' /\ clean' = clean
    BY <1>10, <2>1, CutRemoves DEF Removes, Serve, Inv, TypeOK
  <2>3. \A h \in Id : lane'[h].pc = "idle" /\ ~lane'[h].cancelled
    BY <2>2 DEF IdleLane
  <2> QED BY <2>1, <2>2, <2>3, <1>r DEF Vouches, Covered
<1>11. CASE DeadRetryCut
  BY <1>11, <1>g DEF DeadRetryCut, NotArmed, Stopped, Covered
<1>12. CASE PoolCapCut \/ DeadRetryLate \/ DeadCancelCut \/ PauseCut \/ ResumeCut \/ Crash \/ EndCut
  <2>1. UNCHANGED <<header, index, clean, unremoved>> /\ Stopped
    BY <1>12 DEF PoolCapCut, DeadRetryLate, DeadCancelCut, PauseCut, ResumeCut, Crash, EndCut,
       Stopped, rows, flags, ghosts
  <2> QED BY <2>1, <1>v, <1>o DEF Covered
<1>13. CASE AlarmIdle \/ AlarmRefused
  <2>1. PICK D \in SUBSET (Due \ Claims) : index' = index \ D
    BY <1>13 DEF AlarmIdle, AlarmRefused
  <2>2. UNCHANGED <<header, lane, clean, up, dirty, unremoved>> /\ ~pass.on
    BY <1>13 DEF AlarmIdle, AlarmRefused, AlarmDue, flags, volatile
  <2>3. \A h \in Id : Has(header[h]) /\ Indexed(h) => Indexed(h)'
    BY <2>1, <1>0, ClaimsStay DEF Indexed
  <2> QED BY <2>2, <2>3, <1>0, <1>i DEF Vouches, Pending, Rearmed, CoveredJob, Covered
<1>14. CASE AlarmDrain
  <2>1. /\ index' = index \ (Due \ Claims) /\ UNCHANGED <<header, up, dirty, unremoved>>
        /\ ~pass.on /\ up /\ ~clean'
    BY <1>14 DEF AlarmDrain, AlarmDue, ghosts
  <2>2. \A h \in Id : Has(header[h]) /\ Indexed(h) => Indexed(h)'
    BY <2>1, <1>0, ClaimsStay DEF Indexed
  <2>3. \A h \in Id : lane'[h].pc \in {"idle", "queued"} /\ ~lane'[h].cancelled
    BY <1>14, <2>1, <1>i DEF AlarmDrain, IdleLane
  <2> QED BY <2>1, <2>2, <2>3, <1>0, <1>i DEF Vouches, Pending, Rearmed, CoveredJob, Covered
<1>15. CASE EndDrain
  BY <1>15, <1>0, <1>i DEF EndDrain, rows, Vouched, Draining, Vouches, Pending, Rearmed, Indexed, CoveredJob, Covered
<1>16. ASSUME NEW j \in Id, Drain(j) \/ Disconnect(j) PROVE Covered'
  <2>0. Framed(j)
    BY <1>16, <1>0, LaneFrame
  <2>1. ~clean /\ clean' = clean /\ up' = up
    BY <2>0, <1>0 DEF Framed, Draining
  <2>2. ~dirty' => ~dirty
    BY <1>16 DEF Drain, Dispatch, Disconnect, ClaimGone, ClaimSkipped, Claim, PutLease, Reserve, Refuse,
       requeuePooled, Send, SendAnswered, SendDeclined, SendLost, Sent, Answer, ReleaseSlot,
       CancelledSettles, RecordOutcome, OutcomeRefused, Clear, ClearRefused, clearPending,
       recordRetry, parkDead, Unlease, LaneFault, Catch
  <2>3. ASSUME Vouches', NEW h \in Id \ {j} PROVE CoveredJob(h)'
    <3>1. \A e \in index : e[2] # j => e \in index'
      BY <2>0, <1>0 DEF Framed, RowsTyped
    <3> QED BY <2>0, <2>1, <2>2, <2>3, <3>1, <1>0 DEF Framed, Vouches, Pending, Rearmed, Indexed, CoveredJob, Covered
  <2>4. ASSUME up, ~dirty' PROVE CoveredJob(j)'
    BY <1>16, <2>2, <2>4, <1>0, LaneCovers DEF Covered, Vouches, Leases, Apart
  <2> QED BY <2>1, <2>3, <2>4 DEF Vouches, Covered
<1>17. ASSUME NEW k \in running, NEW result \in {"ok", "error"}, RunEnds(k, result) PROVE Covered'
  BY <1>17, <1>0, <1>f, <1>i DEF RunEnds, rows, flags, ghosts, Vouches, Pending, Rearmed, Indexed,
     CoveredJob, Covered
<1>18. CASE UNCHANGED vars
  BY <1>18, <1>0, <1>f, <1>i DEF vars, rows, flags, volatile, ghosts, Vouches, Pending, Rearmed, Indexed,
     CoveredJob, Covered
<1> QED
  BY <1>1, <1>2, <1>3, <1>4, <1>5, <1>6, <1>7, <1>8, <1>9, <1>10, <1>11, <1>12, <1>13, <1>14, <1>15,
     <1>16, <1>17, <1>18 DEF Next, Request, Cut, Alarm, Cancels

(* CLEAN_KEY never stands over a pending job without an index row, in every behaviour in which no *)
(* job is re-armed for the very time at which the lease of its earlier dispatch ends              *)
(* (reindexOrphanedRecords, the claim and the tail of drainRecordGuarded).                        *)
THEOREM CleanStore == Spec /\ []Apart => []CleanMeansIndexed
<1>1. Init => Leases /\ Covered
  BY DEF Init, Leases, Leased, Covered, Vouches, IdleLane
<1>2. Serve /\ Leases /\ [Next]_vars => Leases'
  BY LeasedStep
<1>3. Serve /\ Leases /\ Apart /\ Covered /\ [Next]_vars => Covered'
  BY CoveredStep
<1>4. Serve /\ Covered => CleanMeansIndexed
  BY DEF Serve, Draining, Covered, Vouches, CoveredJob, Pending, CleanMeansIndexed
<1> QED BY <1>1, <1>2, <1>3, <1>4, Serves, PTL DEF Spec
-----------------------------------------------------------------------------
(* What the history index names of an id: its outcome row, and its dead letter until it expires. *)
Listed(j) == /\ Has(done[j]) => Ix(done[j].at, j) \in history
             /\ Has(dead[j]) /\ ~Expired(dead[j].at) => Ix(dead[j].at, j) \in history

(* A cancelled outcome and a dead letter that stand beside each other under one id are not *)
(* of the same instant: the index would hold one row for the two of them.                  *)
Distinct ==
    \A j \in Id : Has(done[j]) /\ done[j].state = "canceled" /\ Has(dead[j]) => dead[j].at # done[j].at

(* The sweep drops an outcome with its index row, and neither without the other (sweepTerminal). *)
LEMMA SweptListed ==
    ASSUME NEW d \in [Id -> Terminal], NEW h \in SUBSET (Nat \X Id), now \in Nat, Retention \in Nat,
           NEW j \in Id, Has(d[j]) => Ix(d[j].at, j) \in h
    PROVE  /\ Has(SweptDone(d, h)[j]) => Ix(SweptDone(d, h)[j].at, j) \in SweptHistory(h)
           /\ \A t \in Nat : ~Expired(t) /\ Ix(t, j) \in h => Ix(t, j) \in SweptHistory(h)
<1>1. \A t \in Nat : ~Expired(t) /\ Ix(t, j) \in h => Ix(t, j) \in SweptHistory(h)
  BY DEF SweptHistory
<1>2. SweptDone(d, h)[j] = IF Expired(d[j].at) /\ Ix(d[j].at, j) \in h THEN NoRow ELSE d[j]
  BY DEF SweptDone
<1>3. ASSUME Has(SweptDone(d, h)[j]) PROVE Ix(SweptDone(d, h)[j].at, j) \in SweptHistory(h)
  <2>1. SweptDone(d, h)[j] = d[j] /\ Ix(d[j].at, j) \in h /\ ~Expired(d[j].at)
    BY <1>2, <1>3 DEF NoRow
  <2> QED BY <2>1, <1>1 DEF Terminal
<1> QED BY <1>1, <1>3

(* Rows and index change together, step by step. *)
LEMMA HistoryStep == Serve /\ Distinct /\ HistoryIndexed /\ [Next]_vars => HistoryIndexed'
<1> SUFFICES ASSUME Serve, Distinct, HistoryIndexed, [Next]_vars PROVE HistoryIndexed'
  OBVIOUS
<1>0. /\ TypeOK /\ OutcomesTyped /\ RowsTyped /\ LaneTyped /\ Distinct /\ HistoryIndexed
      /\ now \in Nat /\ Retention \in Nat /\ TickStep \in Nat /\ NoRow.n = 0
  BY ConstantsAssumption DEF Serve, Inv, TypeOK, ClockTyped, ConstantsAssumption, NoRow
<1>s. ASSUME NEW d \in [Id -> Terminal], NEW h \in SUBSET (Nat \X Id), NEW j \in Id,
             done' = SweptDone(d, h), history' = SweptHistory(h), now' = now,
             Has(d[j]) => Ix(d[j].at, j) \in h,
             Has(dead'[j]) => dead'[j] \in Terminal /\ (~Expired(dead'[j].at) => Ix(dead'[j].at, j) \in h)
      PROVE  Listed(j)'
  <2>1. /\ Has(done'[j]) => Ix(done'[j].at, j) \in history'
        /\ \A t \in Nat : ~Expired(t) /\ Ix(t, j) \in h => Ix(t, j) \in history'
    BY <1>s, <1>0, SweptListed
  <2> QED BY <2>1, <1>s DEF Terminal, Listed, Expired
<1>u. ASSUME done' = SweptDone(done, history), history' = SweptHistory(history), UNCHANGED <<dead, now>>
      PROVE  HistoryIndexed'
  BY <1>u, <1>s, <1>0 DEF OutcomesTyped, HistoryIndexed, Listed
<1>l. \A h \in Id : Listed(h)
  BY <1>0 DEF HistoryIndexed, Listed
<1>r. now \in Nat /\ \A h \in Id : done[h].at \in Nat /\ dead[h].at \in Nat /\ repair[h].at \in Nat
  BY <1>0, TerminalFields DEF OutcomesTyped
<1>p. ASSUME history \subseteq history', UNCHANGED <<dead, now>>,
             \A h \in Id : done'[h] \in {done[h], NoRow} \/ Ix(done'[h].at, h) \in history'
      PROVE  HistoryIndexed'
  BY <1>p, <1>0 DEF HistoryIndexed, Expired
<1>c. ASSUME NEW j \in Id, UNCHANGED <<dead, now>>, done' = SweptDone(CanceledRow(j), CanceledList(j)),
             history' = SweptHistory(CanceledList(j))
      PROVE  HistoryIndexed'
  <2> DEFINE d == CanceledRow(j)
             h == CanceledList(j)
  <2>0. header[j].n \in Nat
    BY <1>0, JobFields DEF RowsTyped
  <2>1. d \in [Id -> Terminal] /\ h \in SUBSET (Nat \X Id)
    BY <2>0, <1>0 DEF CanceledRow, CanceledList, OutcomesTyped, Terminal, Row
  <2>2. \A g \in Id : Has(d[g]) => Ix(d[g].at, g) \in h
    BY <1>0 DEF CanceledRow, CanceledList, OutcomesTyped, HistoryIndexed, Row
  <2>3. \A g \in Id : Has(dead'[g]) => dead'[g] \in Terminal /\ (~Expired(dead'[g].at) => Ix(dead'[g].at, g) \in h)
    BY <1>c, <1>0 DEF CanceledList, OutcomesTyped, HistoryIndexed
  <2>4. done' = SweptDone(d, h) /\ history' = SweptHistory(h)
    BY <1>c
  <2> HIDE DEF d, h
  <2>5. \A g \in Id : Listed(g)'
    BY <1>c, <2>1, <2>2, <2>3, <2>4, <1>s
  <2> QED BY <2>5 DEF Listed, HistoryIndexed
<1>1. CASE Boot \/ BootCut
  BY ZenonT(30), <1>1, <1>0 DEF Boot, reindexWalk, restoreOutcome, NoRow, BootCut, bounds, Expired,
     HistoryIndexed
<1>2. ASSUME NEW i \in Id, NEW due \in Dues, NEW cap \in Caps, handleSchedule(i, due, cap), now' = now
      PROVE  HistoryIndexed'
  BY <1>2, <1>0, <1>p DEF handleSchedule, dropOutcome, OutcomesTyped
<1>g. ASSUME NEW j \in Id, revive(j), now' = now PROVE HistoryIndexed'
  <2>1. /\ dead' = [dead EXCEPT ![j] = NoRow] /\ done' = [done EXCEPT ![j] = NoRow]
        /\ history' = history \ {Ix(dead[j].at, j)}
    BY <1>g DEF revive
  <2> QED BY <1>g, <2>1, <1>0 DEF OutcomesTyped, Expired, HistoryIndexed
<1>3. CASE handleComplete \/ CompleteUnarmed \/ Resume \/ Pause \/ AlarmPaused \/ AlarmRefused
   \/ CompleteLost \/ EndRefused
  BY <1>3, <1>0 DEF handleComplete, CompleteUnarmed, Resume, Pause, AlarmPaused, AlarmRefused,
     CompleteLost, EndRefused, outcomes, bounds, Expired, HistoryIndexed
<1>4. ASSUME NEW j \in Id, handleCancel(j) \/ CancelUnclocked(j) PROVE HistoryIndexed'
  <2>1. UNCHANGED <<dead, now>>
    BY <1>4 DEF handleCancel, CancelUnclocked
  <2>2. \/ done' = SweptDone(CanceledRow(j), CanceledList(j)) /\ history' = SweptHistory(CanceledList(j))
        \/ done' = SweptDone(done, history) /\ history' = SweptHistory(history)
        \/ UNCHANGED <<done, history>>
    BY <1>4 DEF handleCancel, CancelUnclocked, writeCanceled
  <2>3. CASE UNCHANGED <<done, history>>
    BY <2>1, <2>3, <1>p
  <2> QED BY <2>1, <2>2, <2>3, <1>c, <1>u
<1>5. ASSUME NEW j \in Id, CancelFinished(j) \/ CancelRefused(j) PROVE HistoryIndexed'
  BY <1>5, <1>0 DEF CancelFinished, CancelRefused, outcomes, bounds, Expired, HistoryIndexed
<1>6. ASSUME NEW j \in Id, handleDeadRetry(j) PROVE HistoryIndexed'
  BY <1>6, <1>g DEF handleDeadRetry
<1>7. ASSUME NEW j \in Id, handleDeadCancel(j) PROVE HistoryIndexed'
  <2>1. UNCHANGED now /\ dead' = [dead EXCEPT ![j] = NoRow] /\ dead[j].n \in Nat
    BY <1>7, <1>0, TerminalFields DEF handleDeadCancel, bounds, OutcomesTyped
  <2> DEFINE h == history \cup {Ix(dead[j].at, j)}
  <2>2. purge(j) \in [Id -> Terminal] /\ h \in SUBSET (Nat \X Id) /\ done' = SweptDone(purge(j), h) /\ history' = SweptHistory(h)
    BY <1>7, <2>1, <1>0, <1>r DEF handleDeadCancel, purge, OutcomesTyped, Terminal, Row
  <2>3. \A g \in Id : Has(purge(j)[g]) => Ix(purge(j)[g].at, g) \in h
    BY <1>0 DEF purge, OutcomesTyped, HistoryIndexed, Row
  <2>4. \A g \in Id : Has(dead'[g]) => dead'[g] \in Terminal /\ (~Expired(dead'[g].at) => Ix(dead'[g].at, g) \in h)
    BY <2>1, <1>0 DEF OutcomesTyped, HistoryIndexed
  <2> HIDE DEF h
  <2>5. \A g \in Id : Listed(g)'
    BY <2>1, <2>2, <2>3, <2>4, <1>s
  <2> QED BY <2>5 DEF Listed, HistoryIndexed
<1>8. CASE Schedule \/ ScheduleCut
  BY <1>8, <1>2, StoppedFrame DEF Schedule, ScheduleCut, NotArmed, Stopped
<1>9. CASE PoolCapCut \/ PauseCut \/ ResumeCut \/ Crash \/ EndCut
  <2>1. UNCHANGED <<done, dead, history, now>>
    BY <1>9, StoppedFrame DEF PoolCapCut, PauseCut, ResumeCut, Crash, EndCut, Stopped, outcomes
  <2> QED BY <2>1, <1>0 DEF Expired, HistoryIndexed
<1>10. CASE DeadRetryCut
  BY <1>10, <1>g, StoppedFrame DEF DeadRetryCut, NotArmed, Stopped
<1>11. CASE DeadCancelCut
  <2>1. PICK j \in Id : done' = purge(j) /\ history' = history \cup {Ix(dead[j].at, j)}
    BY <1>11 DEF DeadCancelCut
  <2>2. UNCHANGED <<dead, now>>
    BY <1>11, StoppedFrame DEF DeadCancelCut
  <2> QED BY <2>1, <2>2, <1>p DEF purge, Row
<1>18. CASE DeadRetryLate
  <2>1. UNCHANGED <<dead, history, now>> /\ \E j \in Id : done' = [done EXCEPT ![j] = NoRow]
    BY <1>18, StoppedFrame DEF DeadRetryLate
  <2> QED BY <2>1, <1>0, <1>p DEF OutcomesTyped
<1>19. CASE CancelCut
  <2>1. UNCHANGED <<dead, now>>
    BY <1>19 DEF CancelCut, Die
  <2>2. PICK j \in Id :
          \/ UNCHANGED <<done, history>>
          \/ done' = CanceledRow(j) /\ history' = CanceledList(j)
          \/ done' = SweptDone(CanceledRow(j), CanceledList(j)) /\ history' = SweptHistory(CanceledList(j))
    BY <1>19 DEF CancelCut
  <2>3. CASE UNCHANGED <<done, history>>
    BY <2>1, <2>3, <1>p
  <2>4. CASE done' = CanceledRow(j) /\ history' = CanceledList(j)
    BY <2>1, <2>4, <1>0, <1>p DEF CanceledRow, CanceledList, Row, OutcomesTyped
  <2> QED BY <2>1, <2>2, <2>3, <2>4, <1>c
<1>12. CASE AlarmIdle \/ EndDrain
  BY <1>12, <1>0 DEF AlarmIdle, SweptDone, SweptHistory, NoRow, EndDrain, bounds, Expired,
     HistoryIndexed
<1>13. CASE AlarmDrain
  BY <1>13, <1>0 DEF AlarmDrain, outcomes, bounds, Expired, HistoryIndexed
<1>14. CASE Tick
  <2>1. UNCHANGED <<done, dead, history>> /\ now' = now + TickStep
    BY <1>14 DEF Tick, outcomes
  <2>2. \A h \in Id : Has(dead[h]) /\ ~Expired(dead[h].at)' => ~Expired(dead[h].at)
    BY <2>1, <1>0, <1>r DEF Expired
  <2> QED BY <2>1, <2>2, <1>0 DEF HistoryIndexed
<1>15. ASSUME NEW j \in Id, Drain(j) \/ Disconnect(j) PROVE HistoryIndexed'
  <2>0. Framed(j)
    BY <1>15, <1>0, LaneFrame
  <2>1. ASSUME ClaimGone(j) \/ ClaimSkipped(j) \/ Claim(j) \/ PutLease(j) \/ Reserve(j) \/ Refuse(j)
     \/ requeuePooled(j) PROVE Listed(j)'
    BY <2>1, <1>0, <1>r, <1>l DEF ClaimGone, ClaimSkipped, Claim, PutLease, Reserve, Refuse,
       requeuePooled, outcomes, bounds, Expired, HistoryIndexed, Listed
  <2>2. ASSUME Send(j) \/ SendAnswered(j) \/ SendDeclined(j) \/ SendLost(j) \/ Answer(j) \/
     ReleaseSlot(j) PROVE Listed(j)'
    BY <2>2, <1>0, <1>r, <1>l DEF Send, Sent, SendAnswered, SendDeclined, SendLost, Answer,
       ReleaseSlot, outcomes, bounds, Expired, HistoryIndexed, Listed
  <2>3. ASSUME CancelledSettles(j) PROVE Listed(j)'
    <3>1. UNCHANGED <<dead, now>>
      BY <2>3 DEF CancelledSettles, bounds
    <3>2. CASE UNCHANGED <<done, history>>
      BY <3>1, <3>2, <1>l DEF Listed, Expired
    <3>3. CASE Corrigible(j) /\ correctCanceledToSucceeded(j)
      <4>1. Has(dead[j]) => dead[j].at # done[j].at
        BY <2>3, <3>3, <1>0 DEF CancelledSettles, Corrigible, Distinct, Serve, SameJob, Same
      <4> QED BY <3>1, <3>3, <4>1, <1>l, <1>0, <1>r DEF correctCanceledToSucceeded, OutcomesTyped, Row, Listed, Expired
    <3> QED BY <2>3, <3>2, <3>3 DEF CancelledSettles
  <2>4. ASSUME RecordOutcome(j) PROVE Listed(j)'
    BY <2>4, <1>l, <1>0 DEF RecordOutcome, bounds, OutcomesTyped, Row, Listed, Expired
  <2>5. ASSUME OutcomeRefused(j) \/ Clear(j) \/ ClearRefused(j) \/ recordRetry(j) PROVE Listed(j)'
    BY <2>5, <1>0, <1>r, <1>l DEF OutcomeRefused, Row, Clear, clearPending, ClearRefused,
       recordRetry, outcomes, bounds, Expired, HistoryIndexed, Listed
  <2>6. ASSUME parkDead(j) PROVE Listed(j)'
    BY <2>6, <1>l, <1>0 DEF parkDead, bounds, OutcomesTyped, Row, Listed, Expired
  <2>7. ASSUME Unlease(j) \/ LaneFault(j) \/ Catch(j) \/ Disconnect(j) PROVE Listed(j)'
    BY <2>7, <1>0, <1>r, <1>l DEF Unlease, LaneFault, Catch, CatchWrites, Disconnect, outcomes,
       Expired, HistoryIndexed, Listed
  <2>8. Listed(j)'
    BY <1>15, <2>1, <2>2, <2>3, <2>4, <2>5, <2>6, <2>7 DEF Drain, Dispatch
  <2>9. now' = now
    BY <2>0 DEF Framed
  <2>10. \A h \in Id \ {j} : Listed(h)'
    BY <2>0, <2>9, <1>l, <1>r DEF Framed, Listed, Expired
  <2> QED BY <2>10, <2>8 DEF HistoryIndexed, Listed
<1>16. ASSUME NEW k \in running, NEW result \in {"ok", "error"}, RunEnds(k, result) PROVE
   HistoryIndexed'
  BY <1>16, <1>0 DEF RunEnds, outcomes, bounds, Expired, HistoryIndexed
<1>17. CASE UNCHANGED vars
  BY <1>17, <1>0 DEF vars, outcomes, bounds, Expired, HistoryIndexed
<1> QED
  BY <1>1, <1>2, <1>3, <1>4, <1>5, <1>6, <1>7, <1>8, <1>9, <1>10, <1>11, <1>12, <1>13, <1>14, <1>15,
     <1>16, <1>17, <1>18, <1>19 DEF Next, Request, Cut, Alarm

(* Every outcome stands in the history index, and a dead letter until it expires, in every behaviour *)
(* in which no dead letter shares its instant with a cancelled outcome of its id (sweepTerminal,     *)
(* correctCanceledToSucceeded, reviveDeadLetter). Nothing else is needed.                            *)
THEOREM HistoryComplete == Spec /\ []Distinct => []HistoryIndexed
<1>1. Init => HistoryIndexed
  BY DEF Init, HistoryIndexed, NoRow
<1>2. Serve /\ Distinct /\ HistoryIndexed /\ [Next]_vars => HistoryIndexed'
  BY HistoryStep
<1> QED BY <1>1, <1>2, Serves, PTL DEF Spec
=============================================================================
