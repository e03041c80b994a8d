-------------------------- MODULE SchedulerDOCalm --------------------------
(***************************************************************************)
(* Proofs about SchedulerDO for every value of its other constants where   *)
(* one kind of trouble is absent: no storage operation is rejected         *)
(* (MaxFaults = 0), no instance is lost (MaxCrashes = 0), no call fails    *)
(* (MaxLosses = 0). What each theorem needs is what breaks its property.   *)
(***************************************************************************)
EXTENDS SchedulerDOStore, FunctionTheorems

USE DEF Ix, Key, At, Has
-----------------------------------------------------------------------------
(* What is left of a settlement: the lane was answered or parked the job, its pending rows stand. *)
Finishing(j) == \/ At(j, "clearing") \/ At(j, "parked")
                \/ At(j, "released") /\ Ok(j) /\ ~lane[j].cancelled

(* A settled job is numbered, and pending only until its lane has deleted the rows. *)
Ending(j) == <<j, header[j].n>> \in settled => Finishing(j) /\ lane[j].job.n = header[j].n
Ended == /\ \A k \in settled : k[2] > 0 /\ k[2] <= jobs[k[1]]
         /\ \A j \in Id : Ending(j)

(* While every write lands, a lane that settles a job deletes its header, or is lost with its      *)
(* instance before it could (drainRecord, recordDeadLetter).                                       *)
LEMMA EndedStep == MaxFaults = 0 /\ Serve /\ Ended /\ [Next]_vars => Ended'
<1> SUFFICES ASSUME MaxFaults = 0, Serve, Ended, [Next]_vars PROVE Ended'
  OBVIOUS
<1>0. /\ Inv /\ TypeOK /\ RowsTyped /\ OutcomesTyped /\ LaneTyped /\ BoundsTyped /\ settled \subseteq Id \X Nat
      /\ faults \in Nat /\ MaxFaults = 0 /\ SameJob /\ Numbered /\ Draining
  BY DEF Serve, Inv, TypeOK, BoundsTyped, GhostsTyped
<1>n. \A h \in Id : /\ header[h].n \in Nat /\ lane[h].job \in Job /\ lane[h].job.n \in Nat /\ dead[h].n \in Nat
                    /\ jobs[h] \in Nat
                    /\ header[h].n <= jobs[h] /\ lane[h].job.n <= jobs[h] /\ dead[h].n <= jobs[h]
  BY <1>0, JobFields, LaneFields, TerminalFields DEF RowsTyped, OutcomesTyped, LaneTyped, BoundsTyped, Numbered
<1>f. \A h \in Id : <<h, 0>> \notin settled /\ <<h, jobs[h] + 1>> \notin settled /\ Ending(h)
  <2> TAKE h \in Id
  <2>1. <<h, jobs[h] + 1>> \in settled => jobs[h] + 1 <= jobs[h]
    BY DEF Ended
  <2> QED BY <2>1, <1>n DEF Ended
<1>g. GateOpen \/ ~up \/ (\A h \in Id : At(h, "idle")) => \A h \in Id : ~Finishing(h) /\ <<h, header[h].n>> \notin settled
  BY <1>0, <1>f, GateLanes DEF Draining, Finishing, Ending
<1>p. ASSUME settled' = settled, jobs' = jobs,
             \A h \in Id : /\ header'[h].n \in {0, header[h].n}
                           /\ Finishing(h) => Finishing(h)' /\ lane'[h].job.n = lane[h].job.n
      PROVE  Ended'
  BY <1>p, <1>f DEF Ended, Ending
<1>o. ASSUME settled' = settled, jobs' = jobs, GateOpen \/ ~up \/ (\A h \in Id : At(h, "idle")),
             \A h \in Id : header'[h].n \in {0, header[h].n}
      PROVE  Ended'
  BY <1>o, <1>g, <1>f DEF Ended, Ending
<1>s. ASSUME NEW i \in Id, NEW due \in Dues, NEW cap \in Caps, handleSchedule(i, due, cap) PROVE Ended'
  <2>1. /\ \A h \in Id : /\ jobs'[h] \in Nat /\ jobs[h] <= jobs'[h]
                         /\ \/ header'[h].n = header[h].n
                            \/ header'[h].n = jobs[h] + 1
        /\ settled' = settled /\ GateOpen
    BY <1>s, <1>0, NextNumber DEF handleSchedule
  <2>2. ASSUME NEW k \in settled PROVE k[2] > 0 /\ k[2] <= jobs'[k[1]]
    <3>1. k[1] \in Id /\ k[2] \in Nat
      BY <1>0
    <3> QED BY <3>1, <2>1, <1>n DEF Ended
  <2>3. \A h \in Id : <<h, header'[h].n>> \notin settled'
    BY <2>1, <1>f, <1>g
  <2> QED BY <2>1, <2>2, <2>3 DEF Ended, Ending
<1>r. ASSUME NEW i \in Id, revive(i) PROVE Ended'
  <2>1. /\ settled' = settled \ {<<i, dead[i].n>>} /\ jobs' = jobs /\ GateOpen
        /\ \A h \in Id : header'[h].n = IF h = i THEN dead[i].n ELSE header[h].n
    BY <1>r, <1>0 DEF revive, RowsTyped
  <2> QED BY <2>1, <1>g DEF Ended, Ending
<1>1. CASE Boot \/ BootCut
  <2>1. settled' = settled /\ jobs' = jobs
    BY <1>1 DEF Boot, BootCut, bounds, ghosts
  <2> QED BY <2>1, <1>1, <1>0, <1>o, RestoredRows DEF NoJob
<1>2. CASE Schedule
  BY <1>2, <1>s DEF Schedule
<1>3. CASE handleComplete \/ CompleteUnarmed \/ Resume \/ Pause \/ AlarmPaused \/ CompleteLost \/ AlarmIdle
   \/ AlarmRefused \/ EndDrain \/ EndRefused \/ Tick
  BY <1>3, <1>p DEF handleComplete, CompleteUnarmed, Resume, Pause, AlarmPaused, CompleteLost, AlarmIdle,
     AlarmRefused, EndDrain, EndRefused, Tick, rows, bounds, ghosts, volatile, Finishing, Ok
<1>4. CASE AlarmDrain
  BY <1>4, <1>o DEF AlarmDrain, AlarmDue, bounds, ghosts
<1>5. ASSUME NEW j \in Id, Cancels(j) PROVE Ended'
  <2>1. Removes(j) /\ settled' = settled
    BY <1>5, <1>0, CancelRemoves DEF Cancels, handleCancel, CancelFinished, CancelUnclocked, ghosts
  <2> QED BY <2>1, <1>0, <1>o DEF Removes, removeRecord, NoJob, RowsTyped
<1>6. ASSUME NEW j \in Id, CancelRefused(j) \/ handleDeadCancel(j) PROVE Ended'
  BY <1>6, <1>0, <1>o DEF CancelRefused, handleDeadCancel, rows, bounds, ghosts
<1>7. ASSUME NEW j \in Id, handleDeadRetry(j) PROVE Ended'
  BY <1>7, <1>r DEF handleDeadRetry
<1>8. CASE RequestCut
  <2>1. CASE ScheduleCut \/ DeadRetryCut
    BY <2>1, <1>s, <1>r DEF ScheduleCut, DeadRetryCut
  <2>2. CASE PoolCapCut \/ DeadRetryLate \/ DeadCancelCut \/ PauseCut \/ ResumeCut
    BY <2>2, <1>o DEF PoolCapCut, DeadRetryLate, DeadCancelCut, PauseCut, ResumeCut, rows, ghosts
  <2> QED BY <1>8, <2>1, <2>2 DEF RequestCut
<1>9. CASE CancelCut
  <2>1. PICK j \in Id : Removes(j)
    BY <1>9, <1>0, CutRemoves
  <2>2. settled' = settled
    BY <1>9 DEF CancelCut
  <2> QED BY <2>1, <2>2, <1>0, <1>o DEF Removes, removeRecord, NoJob, RowsTyped
<1>10. CASE EndCut
  BY <1>10, <1>o DEF EndCut, rows
<1>11. CASE Crash
  <2>1. settled' = settled \ Interrupted /\ header' = header /\ jobs' = jobs
    BY <1>11 DEF Crash, rows
  <2>2. ASSUME NEW h \in Id, <<h, header[h].n>> \in settled PROVE <<h, header[h].n>> \in Interrupted
    BY <2>2, <1>f DEF Interrupted, Settling, Finishing, Ending
  <2> QED BY <2>1, <2>2 DEF Ended, Ending
<1>12. ASSUME NEW j \in Id, Drain(j) \/ Disconnect(j) PROVE Ended'
  <2>1. jobs' = jobs /\ \A h \in Id \ {j} : header'[h] = header[h] /\ lane'[h] = lane[h]
    BY <1>12, <1>0, LaneFrame DEF Framed
  <2>2. \A h \in Id \ {j} : Finishing(h) => Finishing(h)' /\ lane'[h].job.n = lane[h].job.n
    BY <2>1 DEF Finishing, Ok
  <2>3. ASSUME settled' = settled, header'[j].n \in {0, header[j].n}, ~Finishing(j) PROVE Ended'
    BY <2>1, <2>2, <2>3, <1>p
  <2>4. ASSUME settled' = settled \cup {Key(j)}, Serving(j), header'[j] = header[j], Finishing(j)',
               lane'[j].job = lane[j].job
        PROVE  Ended'
    <3>1. header[j].n = lane[j].job.n /\ lane[j].job.n > 0 /\ lane[j].job.n <= jobs[j]
      BY <2>4, <1>0, <1>n DEF SameJob, Same, Serving, Dispatched
    <3>2. ASSUME NEW h \in Id \ {j} PROVE Ending(h)'
      BY <2>1, <2>2, <2>4, <1>f DEF Ending
    <3>3. Ending(j)'
      BY <2>4, <3>1 DEF Ending
    <3> QED BY <2>1, <2>4, <3>1, <3>2, <3>3 DEF Ended
  <2>5. CASE Answer(j)
    <3>1. /\ At(j, "sent") /\ header' = header /\ lane'[j].job = lane[j].job
          /\ lane'[j].cancelled = lane[j].cancelled /\ lane'[j].reply = lane[j].reply
          /\ lane'[j].pc = IF j \in Pooled /\ ~Ok(j) THEN "answered" ELSE "released"
      BY <2>5, <1>0 DEF Answer, Move, rows, LaneTyped, Lane
    <3>2. CASE Ok(j) /\ ~lane[j].cancelled
      BY <2>4, <2>5, <3>1, <3>2 DEF Answer, Serving, Dispatched, Finishing, Ok
    <3>3. CASE ~(Ok(j) /\ ~lane[j].cancelled)
      BY <2>3, <2>5, <3>1, <3>3 DEF Answer, Finishing
    <3> QED BY <3>2, <3>3
  <2>6. CASE parkDead(j)
    <3>1. /\ settled' = settled \cup {Key(j)} /\ header' = header /\ Serving(j)
          /\ lane'[j].pc = "parked" /\ lane'[j].job = lane[j].job
      BY <2>6, <1>0 DEF parkDead, Fails, Move, rows, LaneTyped, Lane, Serving, Dispatched
    <3> QED BY <2>4, <3>1 DEF Finishing
  <2>7. CASE RecordOutcome(j)
    <3>1. /\ settled' = settled /\ header' = header /\ lane'[j].pc = "clearing" /\ lane'[j].job = lane[j].job
      BY <2>7, <1>0 DEF RecordOutcome, Move, rows, ghosts, LaneTyped, Lane
    <3> QED BY <2>1, <2>2, <3>1, <1>p DEF Finishing
  <2>8. CASE Clear(j)
    <3>1. settled' = settled /\ header'[j].n = 0
      BY <2>8, <1>0 DEF Clear, clearPending, NoJob, RowsTyped
    <3>2. ASSUME NEW h \in Id PROVE Ending(h)'
      BY <2>1, <2>2, <3>1, <1>f DEF Ending
    <3> QED BY <2>1, <3>1, <3>2 DEF Ended
  <2>9. CASE recordRetry(j) \/ requeuePooled(j)
    <3>1. settled' = settled /\ Serving(j) /\ ~Finishing(j)
      BY <2>9 DEF recordRetry, requeuePooled, Fails, Serving, Dispatched, ghosts, Finishing
    <3>2. header'[j].n = lane[j].job.n
      BY <2>9, <1>n, <1>0 DEF recordRetry, requeuePooled, RowsTyped, Job
    <3>3. header'[j].n = header[j].n
      BY <3>1, <3>2, <1>0 DEF SameJob, Same
    <3> QED BY <2>3, <3>1, <3>3
  <2>10. CASE Catch(j)
    BY <2>3, <2>10, <1>0 DEF Catch, CatchWrites, NoJob, RowsTyped, Finishing
  <2>11. CASE OutcomeRefused(j) \/ ClearRefused(j) \/ LaneFault(j)
    BY <2>11, <1>0 DEF OutcomeRefused, ClearRefused, LaneFault
  <2>12. CASE ClaimGone(j) \/ ClaimSkipped(j) \/ Claim(j) \/ PutLease(j) \/ Reserve(j) \/ Refuse(j) \/ Dispatch(j)
          \/ ReleaseSlot(j) \/ CancelledSettles(j) \/ Unlease(j) \/ Disconnect(j)
    BY <2>3, <2>12 DEF ClaimGone, ClaimSkipped, NextInLine, Claim, PutLease, Reserve, Refuse, Dispatch, Send,
       SendAnswered, SendDeclined, SendLost, Sent, ReleaseSlot, CancelledSettles, Unlease, Disconnect, rows,
       ghosts, Finishing
  <2> QED BY <1>12, <2>5, <2>6, <2>7, <2>8, <2>9, <2>10, <2>11, <2>12 DEF Drain
<1>13. ASSUME NEW k \in running, NEW result \in {"ok", "error"}, RunEnds(k, result) PROVE Ended'
  <2>1. /\ UNCHANGED <<header, jobs, settled>> /\ k[1] \in Id
        /\ lane' = IF Awaited(k) THEN [lane EXCEPT ![k[1]].reply = result] ELSE lane
    BY <1>13, <1>0 DEF RunEnds, rows, bounds, TypeOK, WorldTyped
  <2>2. ASSUME NEW h \in Id, Finishing(h) PROVE Finishing(h)' /\ lane'[h].job.n = lane[h].job.n
    <3>1. lane'[h] = lane[h]
      BY <2>1, <2>2, <1>0 DEF Awaited, Finishing, LaneTyped
    <3> QED BY <2>2, <3>1 DEF Finishing, Ok
  <2> QED BY <2>1, <2>2, <1>p
<1>14. CASE UNCHANGED vars
  BY <1>14, <1>p DEF vars, rows, bounds, ghosts, volatile, Finishing, Ok
<1> QED
  BY <1>1, <1>2, <1>3, <1>4, <1>5, <1>6, <1>7, <1>8, <1>9, <1>10, <1>11, <1>12, <1>13, <1>14 DEF
     Next, Request, Cut, Alarm, Cancels, RequestCut

(* While no storage operation is rejected, a job that was answered 2xx or parked is not sent again,       *)
(* whatever call fails and whatever instance is lost, but for the one that is lost after the answer or    *)
(* the dead letter and before the pending rows are removed: that job is sent again (drainRecord).         *)
THEOREM SettledStays == MaxFaults = 0 /\ Spec => NeverRefireSettled
<1> SUFFICES ASSUME MaxFaults = 0 PROVE Spec => NeverRefireSettled
  OBVIOUS
<1> DEFINE Unsent == \A j \in Id : SendStep(j) /\ Key(j) \in settled => faults # 0 /\ faults + crashes > 1
<1>1. Init => Ended
  BY DEF Init, Ended, Ending
<1>2. Serve /\ Ended /\ [Next]_vars => Ended'
  BY EndedStep
<1>3. Serve /\ Ended /\ [Next]_vars => [Unsent]_vars
  <2> SUFFICES ASSUME Serve, Ended, [Next]_vars, NEW j \in Id, SendStep(j) PROVE Key(j) \notin settled
    OBVIOUS
  <2>1. Claimed(j) /\ Serving(j)
    BY SendIsClaimed DEF Serve, Claimed, Serving
  <2>2. header[j].n = lane[j].job.n /\ ~Finishing(j)
    BY <2>1 DEF Serve, SameJob, Same, Claimed, Finishing
  <2>3. <<j, header[j].n>> \notin settled
    BY <2>2 DEF Ended, Ending
  <2> QED BY <2>2, <2>3
<1> QED BY <1>1, <1>2, <1>3, Serves, PTL DEF Spec, NeverRefireSettled
-----------------------------------------------------------------------------
(* Without a lost instance there is one recovery, and it finds an empty store. *)
Unbooted == ~up => index = {} /\ \A j \in Id : ~Has(header[j])

(* No instance is lost: a request that is stopped was refused a write. *)
LEMMA NoLoss ==
    ASSUME TypeOK, MaxCrashes = 0
    PROVE  ~BootCut /\ ~CancelCut /\ ~Crash /\ ~EndCut /\ (Stopped => Refused) /\ (NotArmed => unarmed')
<1>1. ~(crashes < MaxCrashes)
  BY DEF TypeOK, BoundsTyped
<1>2. ~Die
  BY <1>1 DEF Die
<1> QED BY <1>1, <1>2 DEF BootCut, CancelCut, Crash, EndCut, Stopped, NotArmed

(* No step ends an instance. *)
LEMMA StaysUp == ASSUME TypeOK, MaxCrashes = 0, [Next]_vars, up PROVE up'
<1>1. CASE Boot \/ CompleteLost \/ Tick \/ UNCHANGED vars
  BY <1>1 DEF Boot, CompleteLost, Tick, volatile, vars
<1>2. CASE Request
  BY <1>2 DEF Request, Schedule, handleComplete, CompleteUnarmed, Pause, Resume, handleCancel, CancelFinished,
     CancelRefused, CancelUnclocked, handleDeadRetry, handleDeadCancel, volatile
<1>3. CASE Alarm
  BY <1>3 DEF Alarm, AlarmPaused, AlarmIdle, AlarmRefused, AlarmDrain, EndDrain, EndRefused, volatile
<1>4. CASE \E j \in Id : Drain(j) \/ Disconnect(j)
  BY <1>4, LaneFrame DEF Framed
<1>5. CASE \E k \in running, result \in {"ok", "error"} : RunEnds(k, result)
  BY <1>5 DEF RunEnds
<1>6. CASE Cut
  BY <1>6, NoLoss, CutStops DEF Cut, RequestCut, Refused, volatile
<1> QED BY <1>1, <1>2, <1>3, <1>4, <1>5, <1>6 DEF Next

(* Nothing is lost and nothing is refused. *)
Trouble == \/ Cut \/ CompleteUnarmed \/ AlarmRefused \/ EndRefused
           \/ \E j \in Id : CancelRefused(j) \/ CancelUnclocked(j)
LEMMA NoTrouble == ASSUME TypeOK, MaxCrashes = 0, MaxFaults = 0 PROVE ~Trouble
<1>1. ~(faults < MaxFaults)
  BY DEF TypeOK, BoundsTyped
<1>2. ~Refused /\ ~CompleteUnarmed /\ ~AlarmRefused /\ ~EndRefused
      /\ \A j \in Id : ~CancelRefused(j) /\ ~CancelUnclocked(j)
  BY <1>1 DEF Refused, CompleteUnarmed, AlarmRefused, EndRefused, CancelRefused, CancelUnclocked
<1> QED BY <1>2, NoLoss, CutStops DEF Trouble, Cut, RequestCut

(* Nothing is scheduled before the first instance is up. *)
LEMMA UnbootedStep ==
    ASSUME TypeOK, Draining, MaxCrashes = 0, Unbooted, [Next]_vars PROVE Unbooted'
<1>1. SUFFICES ASSUME ~up' PROVE index' = {} /\ \A j \in Id : ~Has(header'[j])
  BY DEF Unbooted
<1>2. ~up
  BY <1>1, StaysUp
<1>3. index = {} /\ \A j \in Id : ~Has(header[j])
  BY <1>2 DEF Unbooted
<1>4. ~GateOpen /\ ~pass.on /\ \A j \in Id : At(j, "idle")
  BY <1>2 DEF GateOpen, Draining
<1>5. ~Boot /\ ~Request /\ ~Cut /\ ~Alarm /\ ~(\E j \in Id : Drain(j) \/ Disconnect(j))
  <2>1. ~Request
    BY <1>4 DEF Request, Schedule, handleSchedule, handleComplete, CompleteUnarmed, Pause, Resume, handleCancel,
       CancelFinished, CancelRefused, CancelUnclocked, handleDeadRetry, revive, handleDeadCancel
  <2>2. ~Alarm
    BY <1>4 DEF Alarm, AlarmPaused, AlarmIdle, AlarmRefused, AlarmDrain, EndDrain, EndRefused, AlarmDue
  <2>3. ~(\E j \in Id : Drain(j) \/ Disconnect(j))
    BY <1>4, LaneFrame DEF Framed
  <2>4. ~Cut
    BY <1>4, NoLoss, CutStops DEF Cut, RequestCut
  <2> QED BY <1>1, <2>1, <2>2, <2>3, <2>4 DEF Boot
<1>6. UNCHANGED rows
  BY <1>2, <1>5 DEF Next, CompleteLost, Tick, RunEnds, vars
<1> QED BY <1>3, <1>6 DEF rows

(* The earliest of some times is no later than any of them. *)
LEMMA EarliestLeast ==
    ASSUME NEW times, times \subseteq Nat \cup {NoAlarm}, NEW t \in Earliest(times), NEW u \in times \cap Nat
    PROVE  t \in Nat /\ t # NoAlarm /\ t <= u
BY ConstantsAssumption DEF Earliest, ConstantsAssumption

(* What the clock promises of a row, for an alarm and an index. *)
InTime == \A e \in index : alarm # NoAlarm /\ alarm <= e[1]

(* A recomputed alarm is in time for every row (rescheduleAlarm). *)
LEMMA RescheduleInTime == ASSUME RowsTyped', rescheduleAlarm, ~paused PROVE InTime'
<1>1. alarm' \in Earliest(Times(index')) /\ Times(index') \subseteq Nat
  BY DEF rescheduleAlarm, RowsTyped, Times
<1>2. \A e \in index' : e[1] \in Times(index') \cap Nat
  BY <1>1 DEF Times
<1> QED BY <1>1, <1>2, EarliestLeast DEF InTime

(* An alarm brought forward stays in time, and is in time for the row it was brought forward for. *)
LEMMA ArmedInTime ==
    ASSUME RowsTyped, ClockTyped, NEW t \in Nat, NEW j \in Id, armAlarmIfEarlier(t), InTime,
           index' \subseteq index \cup {Ix(t, j)}
    PROVE  InTime'
<1>1. {alarm, t} \subseteq Nat \cup {NoAlarm} /\ alarm' \in Earliest({alarm, t})
  BY DEF ClockTyped, armAlarmIfEarlier
<1>2. alarm' \in Nat /\ alarm' # NoAlarm /\ alarm' <= t /\ (alarm \in Nat => alarm' <= alarm)
  BY <1>1, EarliestLeast
<1>3. ASSUME NEW e \in index' PROVE alarm' <= e[1]
  <2>1. CASE e = Ix(t, j)
    BY <2>1, <1>2
  <2>2. CASE e \in index
    BY <2>2, <1>2 DEF InTime, ClockTyped, RowsTyped
  <2> QED BY <2>1, <2>2
<1> QED BY <1>2, <1>3 DEF InTime

(* No handler leaves the alarm behind a row (armAlarmIfEarlier, rescheduleAlarm). *)
LEMMA PunctualStep ==
    MaxCrashes = 0 /\ Inv /\ Draining /\ Unbooted /\ ClockPunctual /\ [Next]_vars => ClockPunctual'
<1> SUFFICES ASSUME MaxCrashes = 0, Inv, Draining, Unbooted, ClockPunctual, [Next]_vars,
                    up', ~paused', ~pass'.on, ~unarmed'
             PROVE  InTime'
  BY DEF ClockPunctual, InTime
<1>0. TypeOK /\ RowsTyped /\ ClockTyped /\ RowsTyped' /\ now \in Nat /\ Draining
  BY TypeStep DEF Inv, TypeOK, ClockTyped
<1>1. CASE Boot
  <2>1. index = {} /\ Orphans = {} /\ index' \subseteq index \cup {Ix(header[j].due, j) : j \in Orphans}
    BY <1>1 DEF Boot, Unbooted, Orphans, rows, reindexWalk
  <2> QED BY <2>1 DEF InTime
<1>2. CASE Schedule
  <2>1. PICK i \in Id, due \in Dues, cap \in Caps : handleSchedule(i, due, cap) /\ armAlarmIfEarlier(due)
    BY <1>2 DEF Schedule
  <2>2. index' = index \cup {Ix(due, i)} /\ UNCHANGED <<up, paused, pass, unarmed>>
    BY <1>2, <2>1 DEF Schedule, handleSchedule, volatile, flags
  <2> QED BY <2>1, <2>2, <1>0, InputsTyped, ArmedInTime DEF ClockPunctual, InTime
<1>3. CASE handleComplete
  <2>1. PICK c \in calls : armAlarmIfEarlier(now)
    BY <1>3 DEF handleComplete
  <2>2. index' = index /\ UNCHANGED <<up, paused, pass, unarmed>> /\ c[1] \in Id
    BY <1>3, <1>0 DEF handleComplete, rows, flags, volatile, ghosts, TypeOK, WorldTyped
  <2> QED BY <2>1, <2>2, <1>0, ArmedInTime DEF ClockPunctual, InTime
<1>4. CASE Pause
  BY <1>4 DEF Pause
<1>5. CASE Resume
  <2>1. index' = index /\ resumedAlarm
    BY <1>5 DEF Resume, rows
  <2>2. Times(index) \subseteq Nat /\ \A e \in index : e[1] \in Times(index) \cap Nat
    BY <1>0 DEF RowsTyped, Times
  <2> QED BY <2>1, <2>2, EarliestLeast DEF resumedAlarm, InTime
<1>6. ASSUME NEW j \in Id, CancelUnclocked(j) PROVE InTime'
  <2>1. index' \subseteq index /\ UNCHANGED <<up, paused, pass, unarmed, alarm>>
    BY <1>6 DEF CancelUnclocked, removeRecord, flags
  <2> QED BY <2>1 DEF ClockPunctual, InTime
<1>16. CASE \E j \in Id : handleCancel(j) \/ CancelFinished(j)
  <2>1. rescheduleAlarm /\ paused' = paused
    BY <1>16 DEF handleCancel, CancelFinished, flags
  <2> QED BY <2>1, <1>0, RescheduleInTime
<1>7. ASSUME NEW j \in Id, handleDeadRetry(j) PROVE InTime'
  <2>1. armAlarmIfEarlier(now) /\ index' = index \cup {Ix(now, j)} /\ UNCHANGED <<up, paused, pass, unarmed>>
    BY <1>7 DEF handleDeadRetry, revive, volatile, flags
  <2> QED BY <2>1, <1>0, ArmedInTime DEF ClockPunctual, InTime
<1>8. CASE CompleteUnarmed \/ \E j \in Id : handleDeadCancel(j) \/ CancelRefused(j)
  BY <1>8 DEF CompleteUnarmed, handleDeadCancel, CancelRefused, rows, volatile, flags, ghosts, ClockPunctual, InTime
<1>9. CASE AlarmPaused
  BY <1>9 DEF AlarmPaused, flags
<1>10. CASE AlarmIdle
  BY <1>10, <1>0, RescheduleInTime DEF AlarmIdle
<1>11. CASE AlarmDrain
  BY <1>11 DEF AlarmDrain
<1>19. CASE AlarmRefused
  BY <1>19 DEF AlarmRefused
<1>12. CASE EndDrain
  <2>1. rescheduleAlarm /\ paused' = paused
    BY <1>12 DEF EndDrain
  <2> QED BY <2>1, <1>0, RescheduleInTime
<1>17. CASE EndRefused
  BY <1>17, <1>0, RescheduleInTime DEF EndRefused, flags
<1>18. CASE Cut
  <2>1. Refused /\ (ScheduleCut \/ DeadRetryCut => unarmed') /\ RequestCut
    BY <1>18, <1>0, NoLoss, CutStops DEF Cut, RequestCut, ScheduleCut, DeadRetryCut
  <2>2. UNCHANGED <<up, pass>>
    BY <2>1 DEF Refused, volatile
  <2>3. CASE ResumeCut
    BY <2>3 DEF ResumeCut, flags
  <2>4. CASE PoolCapCut \/ DeadRetryLate \/ DeadCancelCut
    BY <2>2, <2>4 DEF PoolCapCut, DeadRetryLate, DeadCancelCut, rows, flags, ghosts, ClockPunctual, InTime
  <2> QED BY <2>1, <2>3, <2>4 DEF RequestCut, PauseCut
<1>13. CASE CompleteLost \/ Tick \/ UNCHANGED vars
  BY <1>13 DEF CompleteLost, Tick, vars, rows, volatile, flags, ghosts, ClockPunctual, InTime
<1>14. CASE \E j \in Id : Drain(j) \/ Disconnect(j)
  BY <1>14, <1>0, LaneFrame DEF Framed, Draining
<1>15. CASE \E k \in running, result \in {"ok", "error"} : RunEnds(k, result)
  BY <1>15 DEF RunEnds, rows, flags, ClockPunctual, InTime
<1> QED BY <1>1, <1>2, <1>3, <1>4, <1>5, <1>6, <1>7, <1>8, <1>9, <1>10, <1>11, <1>12, <1>13, <1>14, <1>15,
           <1>16, <1>17, <1>18, <1>19 DEF Next, Request, Alarm

(* While no instance is lost, no job fires late: whenever the deployment is at rest and not paused, the  *)
(* alarm is set for no later than the earliest row, with any number of failed calls and rejected writes; *)
(* but when the write that arms the alarm was rejected, not before the alarm is armed again.             *)
THEOREM ClockInTime == MaxCrashes = 0 /\ Spec => []ClockPunctual
<1> SUFFICES ASSUME MaxCrashes = 0 PROVE Spec => []ClockPunctual
  OBVIOUS
<1>1. Init => Unbooted /\ ClockPunctual
  BY DEF Init, Unbooted, ClockPunctual, NoJob
<1>2. Serve /\ Unbooted /\ ClockPunctual /\ [Next]_vars => Unbooted' /\ ClockPunctual'
  BY UnbootedStep, PunctualStep DEF Serve, Inv
<1> QED BY <1>1, <1>2, Serves, PTL DEF Spec
-----------------------------------------------------------------------------
(* While no call fails and no instance is lost, the worker and the lane of an id agree: a call of    *)
(* /complete under way is that of a lane whose handler has ended, a handler runs for the lane that   *)
(* waits for it and, if its job is pooled, in a slot; a slot is held from its reservation on.        *)
Slotted(j) ==
    /\ \A c \in calls : c[1] = j => c[2] = "awaited" /\ At(j, "sent") /\ lane[j].reply # "running"
    /\ \A k \in running : k[1] = j => /\ At(j, "sent") /\ lane[j].reply = "running" /\ lane[j].job.n = k[2]
                                      /\ j \in Pooled => j \in pool.holders
    /\ At(j, "reserved") => j \in pool.holders
Slots == \A j \in Id : Slotted(j)

(* A step of one lane leaves the slots, the handlers and the calls of the other ids alone. *)
SlotFramed(j) ==
    \A h \in Id \ {j} : /\ lane'[h] = lane[h]
                        /\ h \in pool'.holders <=> h \in pool.holders
                        /\ \A n \in Nat : <<h, n>> \in running' <=> <<h, n>> \in running
                        /\ \A s \in {"awaited", "stray"} : <<h, s>> \in calls' <=> <<h, s>> \in calls

(* The worker of one id never touches the slot of another (releasePoolSlot, reservePoolSlot). *)
LEMMA SlotFrame == ASSUME TypeOK, NEW j \in Id, Drain(j) \/ Disconnect(j) PROVE SlotFramed(j)
<1>0. LaneTyped /\ PoolTyped /\ Framed(j)
  BY LaneFrame DEF TypeOK
<1>1. CASE Reserve(j) \/ ReleaseSlot(j)
  BY <1>1, <1>0 DEF Reserve, ReleaseSlot, Framed, SlotFramed, PoolTyped, world
<1>2. CASE Dispatch(j)
  BY <1>2, <1>0 DEF Dispatch, Send, SendAnswered, SendDeclined, SendLost, Sent, Attached, Framed, SlotFramed, world
<1>3. ASSUME ~Reserve(j), ~ReleaseSlot(j), ~Dispatch(j) PROVE UNCHANGED <<pool, world>>
  BY <1>3 DEF Drain, Disconnect, ClaimGone, ClaimSkipped, Claim, PutLease, Refuse, requeuePooled, Answer,
     CancelledSettles, RecordOutcome, OutcomeRefused, Clear, ClearRefused, clearPending, recordRetry,
     parkDead, Unlease, LaneFault, Catch
<1>4. CASE UNCHANGED <<pool, world>>
  BY <1>4, <1>0 DEF Framed, SlotFramed, world
<1> QED BY <1>1, <1>2, <1>3, <1>4

(* A slot is given back after its handler has ended, and before its lane goes on (releasePoolSlot). *)
LEMMA SlotsStep == MaxCrashes = 0 /\ MaxLosses = 0 /\ Inv /\ Draining /\ Slots /\ [Next]_vars => Slots'
<1> SUFFICES ASSUME MaxCrashes = 0, MaxLosses = 0, Inv, Draining, Slots, [Next]_vars PROVE Slots'
  OBVIOUS
<1>0. /\ TypeOK /\ LaneTyped /\ PoolTyped /\ WorldTyped /\ Draining /\ Slots /\ losses \in Nat
      /\ MaxLosses = 0
  BY DEF Inv, TypeOK, BoundsTyped
<1>l. \A h \in Id : Slotted(h) /\ lane[h] \in Lane
  BY <1>0 DEF Slots, LaneTyped
<1>w. (\A k \in running : k[1] \in Id /\ k[2] \in Nat) /\ (\A c \in calls : c[1] \in Id)
  BY <1>0 DEF WorldTyped
<1>p. ASSUME UNCHANGED <<lane, calls, running>>, pool'.holders = pool.holders PROVE Slots'
  BY <1>p, <1>0 DEF Slots, Slotted
<1>1. CASE Boot \/ Pause \/ Resume \/ AlarmPaused \/ AlarmIdle \/ AlarmRefused \/ EndDrain \/ EndRefused
   \/ CompleteLost \/ Tick \/ UNCHANGED vars
  BY <1>1, <1>0, <1>p DEF Boot, Pause, Resume, AlarmPaused, AlarmIdle, AlarmRefused, EndDrain, EndRefused,
     CompleteLost, Tick, vars, volatile, world
<1>2. CASE Schedule
  <2>1. UNCHANGED <<lane, calls, running>>
    BY <1>2 DEF Schedule, volatile, world
  <2>2. pool'.holders = pool.holders
    BY <1>2, <1>0 DEF Schedule, handleSchedule, PoolTyped
  <2> QED BY <2>1, <2>2, <1>p
<1>3. CASE handleComplete \/ CompleteUnarmed
  <2>1. PICK c \in calls : pool' = [pool EXCEPT !.holders = @ \ {c[1]}] /\ calls' = calls \ {c}
    BY <1>3 DEF handleComplete, CompleteUnarmed
  <2>2. UNCHANGED <<lane, running>> /\ pool'.holders = pool.holders \ {c[1]}
    BY <1>3, <2>1, <1>0 DEF handleComplete, CompleteUnarmed, volatile, PoolTyped
  <2>3. At(c[1], "sent") /\ lane[c[1]].reply # "running"
    BY <1>l, <1>w DEF Slotted
  <2> QED BY <2>1, <2>2, <2>3, <1>l DEF Slots, Slotted
<1>4. ASSUME NEW j \in Id, Cancels(j) \/ CancelRefused(j) PROVE Slots'
  <2>1. MarkCancelled(j) /\ UNCHANGED <<pool, calls, running>>
    BY <1>4 DEF Cancels, handleCancel, CancelFinished, CancelUnclocked, CancelRefused, world
  <2>2. \A h \in Id : lane'[h].pc = lane[h].pc /\ lane'[h].job = lane[h].job /\ lane'[h].reply = lane[h].reply
    BY <2>1, <1>0, MarkedLane
  <2> QED BY <2>1, <2>2, <1>l DEF Slots, Slotted
<1>5. CASE \E j \in Id : handleDeadRetry(j) \/ handleDeadCancel(j)
  BY <1>5, <1>p DEF handleDeadRetry, revive, handleDeadCancel, volatile, world
<1>9. CASE Cut
  <2>1. Refused /\ RequestCut
    BY <1>9, <1>0, NoLoss, CutStops DEF Cut, RequestCut
  <2>2. UNCHANGED <<lane, calls, running>>
    BY <2>1 DEF Refused, volatile, world
  <2>3. pool'.holders = pool.holders
    BY <2>1, <1>0 DEF RequestCut, ScheduleCut, handleSchedule, PoolCapCut, DeadRetryCut, revive, DeadRetryLate,
       DeadCancelCut, PauseCut, ResumeCut, PoolTyped
  <2> QED BY <2>2, <2>3, <1>p
<1>6. CASE AlarmDrain
  <2>1. \A h \in Id : At(h, "idle") /\ lane'[h].pc \in {"idle", "queued"}
    BY <1>6, <1>0 DEF AlarmDrain, AlarmDue, Draining, IdleLane
  <2>2. running = {} /\ calls = {}
    BY <2>1, <1>l, <1>w DEF Slotted
  <2> QED BY <1>6, <2>1, <2>2 DEF AlarmDrain, world, Slots, Slotted
<1>7. ASSUME NEW j \in Id, Drain(j) \/ Disconnect(j) PROVE Slots'
  <2>0. SlotFramed(j) /\ Framed(j) /\ j \in Id
    BY <1>7, <1>0, SlotFrame, LaneFrame
  <2>1. ASSUME Reserve(j) PROVE Slotted(j)'
    BY <2>1, <1>0, <1>l DEF Reserve, Move, world, PoolTyped, Lane, LaneTyped, Slotted
  <2>2. ASSUME Send(j) PROVE Slotted(j)'
    BY <2>2, <1>0, <1>l DEF Send, Sent, Lane, LaneTyped, Slotted
  <2>3. ASSUME SendAnswered(j) \/ SendDeclined(j) PROVE Slotted(j)'
    BY <2>3, <1>0, <1>l DEF SendAnswered, SendDeclined, Sent, Attached, Lane, LaneTyped, Slotted
  <2>4. ASSUME SendLost(j) \/ Disconnect(j) PROVE Slotted(j)'
    BY <2>4, <1>0 DEF SendLost, Disconnect
  <2>5. ASSUME Answer(j) PROVE Slotted(j)'
    <3>1. /\ UNCHANGED <<pool, world>> /\ lane'[j].pc \in {"answered", "released"}
          /\ lane[j].reply # "running" /\ <<j, "awaited">> \notin calls
      BY <2>5, <1>0 DEF Answer, Move, Lane, LaneTyped
    <3>2. ASSUME NEW c \in calls, c[1] = j PROVE FALSE
      <4>1. c = <<j, c[2]>> /\ c[2] = "awaited"
        BY <3>2, <1>0, <1>l DEF WorldTyped, Slotted
      <4> QED BY <3>1, <4>1
    <3>3. \A k \in running : k[1] # j
      BY <3>1, <1>l DEF Slotted
    <3> QED BY <3>1, <3>2, <3>3 DEF world, Slotted
  <2>6. ASSUME ReleaseSlot(j) PROVE Slotted(j)'
    BY <2>6, <1>0, <1>l DEF ReleaseSlot, Move, world, PoolTyped, Lane, LaneTyped, Slotted
  <2>7. ASSUME ~At(j, "sent") /\ UNCHANGED <<pool, world>> /\ lane'[j].pc \notin {"sent", "reserved"} PROVE Slotted(j)'
    BY <2>7, <1>l DEF world, Slotted
  <2>8. ASSUME ~Reserve(j), ~Send(j), ~SendAnswered(j), ~SendDeclined(j), ~SendLost(j), ~Disconnect(j),
               ~Answer(j), ~ReleaseSlot(j)
        PROVE  ~At(j, "sent") /\ UNCHANGED <<pool, world>> /\ lane'[j].pc \notin {"sent", "reserved"}
    BY <1>7, <2>8, <1>0, <1>l DEF Drain, Dispatch, ClaimGone, ClaimSkipped, Claim, NextInLine, PutLease, Refuse,
       requeuePooled, CancelledSettles, RecordOutcome, OutcomeRefused, Clear, ClearRefused, clearPending,
       recordRetry, parkDead, Fails, Unlease, LaneFault, Catch, Move, Free, IdleLane, Lane, LaneTyped
  <2>9. Slotted(j)'
    BY <1>7, <2>1, <2>2, <2>3, <2>4, <2>5, <2>6, <2>7, <2>8
  <2>10. ASSUME NEW h \in Id \ {j} PROVE Slotted(h)'
    <3>1. WorldTyped'
      BY TypeStep DEF TypeOK, Inv
    <3>2. ASSUME NEW c \in calls', c[1] = h PROVE c \in calls
      <4>1. c = <<h, c[2]>> /\ c[2] \in {"awaited", "stray"}
        BY <3>1, <3>2 DEF WorldTyped
      <4> QED BY <2>0, <4>1 DEF SlotFramed
    <3>3. ASSUME NEW k \in running', k[1] = h PROVE k \in running
      <4>1. k = <<h, k[2]>> /\ k[2] \in Nat
        BY <3>1, <3>3 DEF WorldTyped
      <4> QED BY <2>0, <4>1 DEF SlotFramed
    <3>4. lane'[h] = lane[h] /\ (h \in pool'.holders <=> h \in pool.holders) /\ Slotted(h)
      BY <2>0, <1>l DEF SlotFramed
    <3> QED BY <3>2, <3>3, <3>4 DEF Slotted
  <2> QED BY <2>9, <2>10 DEF Slots, Slotted
<1>8. ASSUME NEW k \in running, NEW result \in {"ok", "error"}, RunEnds(k, result) PROVE Slots'
  <2>1. k[1] \in Id /\ k = <<k[1], k[2]>> /\ Awaited(k)
    BY <1>0, <1>l, <1>w DEF WorldTyped, Awaited, Slotted
  <2>2. /\ running' = running \ {k} /\ pool' = pool /\ lane' = [lane EXCEPT ![k[1]].reply = result]
        /\ \A c \in calls' : c \in calls \/ c = <<k[1], "awaited">>
    BY <1>8, <2>1 DEF RunEnds
  <2>3. \A i \in running' : i[1] # k[1]
    BY <2>1, <2>2, <1>0, <1>l, <1>w DEF WorldTyped, Slotted
  <2>4. \A h \in Id : /\ lane'[h].pc = lane[h].pc /\ lane'[h].job = lane[h].job
                      /\ h # k[1] => lane'[h].reply = lane[h].reply
    BY <2>1, <2>2, <1>0, <1>l DEF LaneTyped, Lane
  <2>5. lane'[k[1]].reply # "running" /\ At(k[1], "sent")
    BY <2>1, <2>2, <1>0, <1>l DEF LaneTyped, Lane, Awaited
  <2>6. ASSUME NEW h \in Id PROVE Slotted(h)'
    BY <2>2, <2>3, <2>4, <2>5, <1>l DEF Slotted
  <2> QED BY <2>6 DEF Slots, Slotted
<1> QED BY <1>1, <1>2, <1>3, <1>4, <1>5, <1>6, <1>7, <1>8, <1>9 DEF Next, Request, Alarm,
        Cancels

(* While no instance is lost and no call fails, a pooled job whose handler runs holds a slot: neither *)
(* /complete nor the lane of its dispatch gives it away under the handler (releasePoolSlot).          *)
THEOREM RunHoldsSlot == MaxCrashes = 0 /\ MaxLosses = 0 /\ Spec => []SlotHeld
<1> SUFFICES ASSUME MaxCrashes = 0, MaxLosses = 0 PROVE Spec => []SlotHeld
  OBVIOUS
<1>1. Init => Slots
  BY DEF Init, Slots, Slotted, IdleLane
<1>2. Serve /\ Slots /\ [Next]_vars => Slots'
  BY SlotsStep DEF Serve
<1>3. Serve /\ Slots => SlotHeld
  BY DEF Serve, Inv, TypeOK, WorldTyped, Slots, Slotted, SlotHeld, PooledRunning
<1> QED BY <1>1, <1>2, <1>3, Serves, PTL DEF Spec

(* Slots are reserved up to the cap, which enqueues that agree on it never lower. *)
Capped == /\ IsFiniteSet(pool.holders) /\ Cardinality(pool.holders) <= pool.cap
          /\ pool.cap \in {1} \cup Caps

(* Only the reservation takes a slot, and only while there is room (reservePoolSlot). *)
LEMMA CappedStep ==
    (\A c, d \in Caps : c = d) /\ Inv /\ Capped /\ [Next]_vars => Capped'
<1> SUFFICES ASSUME \A c, d \in Caps : c = d, Inv, Capped, [Next]_vars PROVE Capped'
  OBVIOUS
<1>0. /\ TypeOK /\ PoolTyped /\ WorldTyped /\ \A c \in Caps : c \in Nat \ {0}
      /\ pool.cap \in Nat /\ Cardinality(pool.holders) \in Nat
  BY InputsTyped, FS_CardinalityType DEF Inv, TypeOK, PoolTyped, Capped
<1>p. ASSUME pool'.holders \subseteq pool.holders, pool'.cap = pool.cap PROVE Capped'
  <2>1. IsFiniteSet(pool'.holders) /\ Cardinality(pool'.holders) <= Cardinality(pool.holders)
        /\ Cardinality(pool'.holders) \in Nat
    BY <1>p, FS_Subset, FS_CardinalityType DEF Capped
  <2> QED BY <2>1, <1>p, <1>0 DEF Capped
<1>s. ASSUME NEW i \in Id, NEW due \in Dues, NEW cap \in Caps, handleSchedule(i, due, cap) PROVE Capped'
  <2>1. pool'.holders = pool.holders /\ pool'.cap \in {pool.cap, cap}
    BY <1>s, <1>0 DEF handleSchedule, PoolTyped
  <2>2. pool.cap <= cap
    BY <1>0 DEF Capped
  <2> QED BY <2>1, <2>2, <1>0 DEF Capped
<1>1. CASE Schedule \/ ScheduleCut
  BY <1>1, <1>s DEF Schedule, ScheduleCut
<1>8. CASE PoolCapCut
  <2>1. PICK cap \in Caps : pool' = [pool EXCEPT !.cap = cap]
    BY <1>8 DEF PoolCapCut
  <2>2. pool'.holders = pool.holders /\ pool'.cap = cap /\ pool.cap <= cap
    BY <2>1, <1>0 DEF PoolTyped, Capped
  <2> QED BY <2>2, <1>0 DEF Capped
<1>2. CASE handleComplete \/ CompleteUnarmed \/ \E j \in Id : ReleaseSlot(j)
  BY <1>2, <1>0, <1>p DEF handleComplete, CompleteUnarmed, ReleaseSlot, PoolTyped
<1>3. CASE \E j \in Id : Reserve(j)
  <2>1. PICK j \in Id : Reserve(j)
    BY <1>3
  <2>2. pool'.holders = pool.holders \cup {j} /\ pool'.cap = pool.cap /\ HasRoom
    BY <2>1, <1>0 DEF Reserve, PoolTyped
  <2>3. IsFiniteSet(pool'.holders) /\ Cardinality(pool'.holders) <= Cardinality(pool.holders) + 1
        /\ Cardinality(pool'.holders) \in Nat
    <3>1. IsFiniteSet(pool.holders)
      BY DEF Capped
    <3>2. /\ IsFiniteSet(pool.holders \cup {j})
          /\ Cardinality(pool.holders \cup {j}) = IF j \in pool.holders THEN Cardinality(pool.holders)
                                                   ELSE Cardinality(pool.holders) + 1
      BY <3>1, FS_AddElement
    <3> QED BY <2>2, <3>2, <1>0
  <2> QED BY <2>2, <2>3, <1>0 DEF Capped, HasRoom
<1>4. CASE pool' = pool
  BY <1>4, <1>p
<1>5. CASE Boot \/ (Request /\ ~Schedule /\ ~handleComplete /\ ~CompleteUnarmed)
   \/ (Cut /\ ~ScheduleCut /\ ~PoolCapCut) \/ Alarm \/ CompleteLost \/ Tick \/ UNCHANGED vars
  <2>1. CASE Boot \/ Alarm \/ CompleteLost \/ Tick \/ UNCHANGED vars
    BY <2>1, <1>4 DEF Boot, Alarm, AlarmPaused, AlarmIdle, AlarmRefused, AlarmDrain, EndDrain, EndRefused,
       CompleteLost, Tick, vars
  <2>2. CASE Request /\ ~Schedule /\ ~handleComplete /\ ~CompleteUnarmed
    BY <2>2, <1>4 DEF Request, Pause, Resume, handleCancel, CancelFinished, CancelRefused, CancelUnclocked,
       handleDeadRetry, revive, handleDeadCancel
  <2>3. CASE Cut /\ ~ScheduleCut /\ ~PoolCapCut
    BY <2>3, <1>4 DEF Cut, BootCut, CancelCut, DeadRetryCut, revive, DeadRetryLate, DeadCancelCut, PauseCut, ResumeCut,
       Crash, EndCut
  <2> QED BY <2>1, <2>2, <2>3, <1>5
<1>6. ASSUME NEW j \in Id, Drain(j) \/ Disconnect(j), ~Reserve(j), ~ReleaseSlot(j) PROVE pool' = pool
  BY <1>6 DEF Drain, Dispatch, Disconnect, ClaimGone, ClaimSkipped, Claim, PutLease, Refuse, requeuePooled,
     Send, SendAnswered, SendDeclined, SendLost, Sent, Answer, CancelledSettles, RecordOutcome, OutcomeRefused,
     Clear, ClearRefused, clearPending, recordRetry, parkDead, Unlease, LaneFault, Catch
<1>7. CASE \E k \in running, result \in {"ok", "error"} : RunEnds(k, result)
  BY <1>7, <1>4 DEF RunEnds
<1> QED BY <1>1, <1>2, <1>3, <1>4, <1>5, <1>6, <1>7, <1>8 DEF Next

(* Handlers of pooled jobs are no more than the slots held for them. *)
LEMMA RunsWithinSlots == ASSUME TypeOK, Slots, Capped PROVE PoolBounded
<1> DEFINE f == [k \in PooledRunning |-> k[1]]
<1>1. ASSUME NEW k \in PooledRunning PROVE k[1] \in Id /\ k[2] \in Nat /\ k = <<k[1], k[2]>> /\ k[1] \in pool.holders
                                           /\ k[2] = lane[k[1]].job.n
  BY <1>1 DEF PooledRunning, TypeOK, WorldTyped, Slots, Slotted
<1>2. f \in Injection(PooledRunning, pool.holders)
  <2>1. f \in [PooledRunning -> pool.holders]
    BY <1>1
  <2>2. ASSUME NEW a \in PooledRunning, NEW b \in PooledRunning, f[a] = f[b] PROVE a = b
    BY <1>1, <2>2
  <2> HIDE DEF f
  <2> QED BY <2>1, <2>2, Fun_IsInj
<1> HIDE DEF f
<1>3. IsFiniteSet(PooledRunning) /\ Cardinality(PooledRunning) <= Cardinality(pool.holders)
  BY <1>2, FS_Injection DEF Capped, ExistsInjection
<1>4. Cardinality(PooledRunning) \in Nat /\ Cardinality(pool.holders) \in Nat /\ pool.cap \in Nat
  BY <1>3, FS_CardinalityType DEF Capped, TypeOK, PoolTyped
<1> QED BY <1>3, <1>4 DEF Capped, PoolBounded

(* While no instance is lost, no call fails and the enqueues of the pool agree on maxConcurrency, at most *)
(* that many handlers of the pool's jobs run at once (reservePoolSlot, releasePoolSlot).                  *)
THEOREM PoolKeepsCap ==
    MaxCrashes = 0 /\ MaxLosses = 0 /\ (\A c, d \in Caps : c = d) /\ Spec => []PoolBounded
<1> SUFFICES ASSUME MaxCrashes = 0, MaxLosses = 0, \A c, d \in Caps : c = d PROVE Spec => []PoolBounded
  OBVIOUS
<1>1. Init => Slots /\ Capped
  BY FS_EmptySet DEF Init, Slots, Slotted, IdleLane, Capped
<1>2. Serve /\ Slots /\ Capped /\ [Next]_vars => Slots' /\ Capped'
  BY SlotsStep, CappedStep DEF Serve
<1>3. Serve /\ Slots /\ Capped => PoolBounded
  BY RunsWithinSlots DEF Serve, Inv
<1> QED BY <1>1, <1>2, <1>3, Serves, PTL DEF Spec
-----------------------------------------------------------------------------
(* While no instance is lost and every write lands, an id has one row at a time: an outcome stands  *)
(* beside a header only between the two writes of a settlement, and a lane that serves its record   *)
(* holds what the store holds.                                                                      *)
Shaped(j) ==
    /\ ~Has(repair[j]) /\ ~At(j, "failing")
    /\ Has(dead[j]) => ~Has(done[j]) /\ (Has(header[j]) => At(j, "parked"))
    /\ Has(done[j]) /\ Has(header[j]) => At(j, "clearing")
    /\ Serving(j) => header[j] = lane[j].job
Shape == \A j \in Id : Shaped(j)

(* No request and no write of a lane leaves two rows of an id behind (idConflict, dropOutcome). *)
LEMMA ShapeStep == MaxCrashes = 0 /\ MaxFaults = 0 /\ Serve /\ Shape /\ [Next]_vars => Shape'
<1> SUFFICES ASSUME MaxCrashes = 0, MaxFaults = 0, Serve, Shape, [Next]_vars PROVE Shape'
  OBVIOUS
<1>0. /\ Draining /\ SameJob /\ Shape /\ TypeOK /\ LaneTyped /\ RowsTyped /\ OutcomesTyped /\ ~Trouble
      /\ faults \in Nat /\ MaxFaults = 0
  BY NoTrouble DEF Serve, Inv, TypeOK, BoundsTyped
<1>f. /\ \A h \in Id : header[h].n \in Nat /\ dead[h].n \in Nat /\ done[h].n \in Nat /\ lane[h].job.n \in Nat
      /\ NoJob.n = 0 /\ NoRow.n = 0
  BY <1>0, JobFields, TerminalFields, LaneFields DEF RowsTyped, OutcomesTyped, LaneTyped, NoJob, NoRow
<1>g. GateOpen => \A h \in Id : /\ lane[h].pc \in {"idle", "queued", "sent"}
                                /\ Has(dead[h]) => ~Has(header[h])
                                /\ Has(done[h]) => ~Has(header[h])
                                /\ Serving(h) => At(h, "sent") /\ Has(header[h]) /\ ~lane[h].cancelled
  BY <1>0, GateLanes DEF Shape, Shaped, SameJob, Same, Serving, Dispatched
<1>1. CASE Boot
  <2>1. UNCHANGED <<header, dead, done, repair, lane>>
    BY SMTT(30), <1>1, <1>0, RestoredRows DEF Shape, Shaped, Boot, rows, reindexWalk, restoreOutcome, Repairable, RowsTyped, OutcomesTyped
  <2> QED BY <2>1, <1>0 DEF Serving, Dispatched, Shaped, Shape
<1>2. CASE Schedule
  <2>1. PICK i \in Id, due \in Dues, cap \in Caps : handleSchedule(i, due, cap)
    BY <1>2 DEF Schedule
  <2>2. /\ ~Has(header[i]) /\ ~Has(dead[i]) /\ dead' = dead /\ lane' = lane /\ GateOpen
        /\ header' = [header EXCEPT ![i] = [n |-> jobs[i] + 1, due |-> due, attempts |-> 0]]
        /\ done' = [done EXCEPT ![i] = NoRow] /\ repair' = [repair EXCEPT ![i] = NoRow]
    BY <1>2, <2>1 DEF Schedule, handleSchedule, dropOutcome, volatile
  <2>3. ~Serving(i)
    BY <2>2, <1>g
  <2> QED BY <2>2, <2>3, <1>0, <1>f DEF Serving, Dispatched, Shaped, Shape, RowsTyped, OutcomesTyped
<1>3. CASE handleComplete \/ Resume \/ Pause \/ AlarmPaused \/ CompleteLost \/ Tick
  BY <1>3, <1>0, <1>f DEF handleComplete, Resume, Pause, AlarmPaused, CompleteLost, Tick, rows,
     outcomes, volatile, Serving, Dispatched, Shaped, Shape
<1>4. ASSUME NEW j \in Id, handleCancel(j) PROVE Shape'
  <2>1. /\ header' = [header EXCEPT ![j] = NoJob] /\ dead' = dead /\ repair' = repair
        /\ MarkCancelled(j) /\ Removes(j) /\ GateOpen /\ Has(header[j])
    BY <1>4, <1>0, CancelRemoves DEF handleCancel, removeRecord, Cancels
  <2>2. \A h \in Id : done'[h] \in {done[h], NoRow} \/ h = j
    BY <2>1 DEF Removes
  <2>3. \A h \in Id : /\ lane'[h].pc = lane[h].pc /\ lane'[h].job = lane[h].job
                     /\ lane'[h].cancelled = IF h = j /\ At(j, "sent") THEN TRUE ELSE lane[h].cancelled
    BY <2>1, <1>0, MarkedLane
  <2>4. ~Has(dead[j]) /\ lane[j].pc \in {"idle", "queued", "sent"}
    BY <2>1, <1>g
  <2>5. ASSUME NEW h \in Id \ {j} PROVE Shaped(h)'
    <3>1. header'[h] = header[h] /\ done'[h] \in {done[h], NoRow}
      BY <2>1, <2>2, <1>0 DEF RowsTyped
    <3>2. lane'[h].pc = lane[h].pc /\ lane'[h].job = lane[h].job /\ lane'[h].cancelled = lane[h].cancelled
      BY <2>3
    <3> QED BY <3>1, <3>2, <2>1, <1>0, <1>f DEF Serving, Dispatched, Shaped, Shape
  <2>6. Shaped(j)'
    <3>1. ~Has(header'[j]) /\ ~Has(dead'[j]) /\ ~Has(repair'[j])
      BY <2>1, <2>4, <1>0, <1>f DEF Shape, Shaped, RowsTyped
    <3>2. lane'[j].pc \in {"idle", "queued", "sent"} /\ (At(j, "sent") => lane'[j].cancelled) /\ lane'[j].pc = lane[j].pc
      BY <2>3, <2>4
    <3> QED BY <3>1, <3>2 DEF Serving, Dispatched, Shaped
  <2> QED BY <2>5, <2>6 DEF Shape
<1>5. ASSUME NEW j \in Id, CancelFinished(j) PROVE Shape'
  BY <1>5, <1>g DEF CancelFinished
<1>6. ASSUME NEW j \in Id, handleDeadRetry(j) PROVE Shape'
  <2>1. /\ GateOpen /\ Has(dead[j]) /\ lane' = lane /\ repair' = repair
        /\ header' = [header EXCEPT ![j] = [n |-> dead[j].n, due |-> now, attempts |-> 0]]
        /\ dead' = [dead EXCEPT ![j] = NoRow] /\ done' = [done EXCEPT ![j] = NoRow]
    BY <1>6 DEF handleDeadRetry, revive, volatile
  <2>2. ~Serving(j)
    BY <2>1, <1>g
  <2> QED BY <2>1, <2>2, <1>0, <1>f DEF Serving, Dispatched, Shaped, Shape, RowsTyped, OutcomesTyped
<1>7. ASSUME NEW j \in Id, handleDeadCancel(j) PROVE Shape'
  <2>1. /\ GateOpen /\ Has(dead[j]) /\ lane' = lane /\ repair' = repair /\ header' = header
        /\ dead' = [dead EXCEPT ![j] = NoRow]
        /\ \A h \in Id : done'[h] \in {done[h], NoRow} \/ h = j
    BY <1>7, <1>0 DEF handleDeadCancel, SweptDone, purge, rows, volatile, OutcomesTyped
  <2>2. ~Has(header[j])
    BY <2>1, <1>g
  <2> QED BY <2>1, <2>2, <1>0, <1>f DEF Serving, Dispatched, Shaped, Shape, OutcomesTyped
<1>8. CASE Trouble
  BY <1>8, <1>0
<1>9. CASE AlarmIdle \/ EndDrain
  BY ZenonT(30), <1>9, <1>0, <1>f DEF AlarmIdle, SweptDone, NoRow, EndDrain, volatile, rows, Serving,
     Dispatched, Shaped, Shape
<1>10. CASE AlarmDrain
  BY ZenonT(30), <1>10, <1>0, <1>f, <1>g DEF AlarmDrain, AlarmDue, outcomes, IdleLane, NoJob, LaneTyped, Lane, Serving, Dispatched, Shaped, Shape
<1>11. ASSUME NEW j \in Id, Drain(j) \/ Disconnect(j) PROVE Shape'
  <2>0. Framed(j)
    BY <1>11, <1>0, LaneFrame
  <2>1. ASSUME ClaimGone(j) \/ ClaimSkipped(j) PROVE Shaped(j)'
    BY <2>1, <1>0, <1>f DEF ClaimGone, Free, IdleLane, NoJob, ClaimSkipped, outcomes, rows,
       LaneTyped, Lane, NextInLine, Serving, Dispatched, Shaped, Shape, SameJob, Same
  <2>2. ASSUME Claim(j) PROVE Shaped(j)'
    BY <2>2, <1>0, <1>f DEF Claim, outcomes, LaneTyped, Lane, NextInLine, Untouched, Serving,
       Dispatched, Shaped, Shape, SameJob, Same
  <2>3. ASSUME PutLease(j) \/ Reserve(j) \/ Refuse(j) PROVE Shaped(j)'
    BY <2>3, <1>0, <1>f DEF PutLease, Move, Reserve, Refuse, outcomes, rows, LaneTyped, Lane,
       Serving, Dispatched, Shaped, Shape, SameJob, Same
  <2>4. ASSUME requeuePooled(j) PROVE Shaped(j)'
    BY <2>4, <1>0, <1>f DEF requeuePooled, Move, outcomes, LaneTyped, Lane, RowsTyped, Job, Serving,
       Dispatched, Shaped, Shape, SameJob, Same
  <2>5. ASSUME Send(j) \/ SendAnswered(j) \/ SendDeclined(j) \/ SendLost(j) PROVE Shaped(j)'
    BY SMTT(30), <2>5, <1>0, <1>f DEF Send, Sent, SendAnswered, SendDeclined, SendLost, rows, outcomes,
       LaneTyped, Lane, Serving, Dispatched, Shaped, Shape, SameJob, Same
  <2>6. ASSUME Answer(j) \/ ReleaseSlot(j) PROVE Shaped(j)'
    BY <2>6, <1>0, <1>f DEF Answer, Move, ReleaseSlot, rows, outcomes, LaneTyped, Lane, Serving,
       Dispatched, Shaped, Shape, SameJob, Same
  <2>7. ASSUME CancelledSettles(j) PROVE Shaped(j)'
    BY <2>7, <1>0, <1>f DEF CancelledSettles, correctCanceledToSucceeded, Move, Row, rows,
       LaneTyped, Lane, OutcomesTyped, Terminal, Serving, Dispatched, Shaped, Shape, SameJob, Same
  <2>8. ASSUME RecordOutcome(j) PROVE Shaped(j)'
    BY <2>8, <1>0, <1>f DEF RecordOutcome, Row, Move, rows, LaneTyped, Lane, OutcomesTyped,
       Terminal, Serving, Dispatched, Shaped, Shape, SameJob, Same
  <2>9. ASSUME OutcomeRefused(j) PROVE Shaped(j)'
    BY <2>9, <1>0, <1>f DEF OutcomeRefused, Row, Move, rows, LaneTyped, Lane, Serving, Dispatched,
       Shaped, Shape, SameJob, Same
  <2>10. ASSUME Clear(j) PROVE Shaped(j)'
    BY <2>10, <1>0, <1>f DEF Clear, NoJob, clearPending, Move, outcomes, LaneTyped, Lane, RowsTyped,
       Job, Serving, Dispatched, Shaped, Shape, SameJob, Same
  <2>11. ASSUME ClearRefused(j) PROVE Shaped(j)'
    BY <2>11, <1>0, <1>f DEF ClearRefused, clearPending, Move, rows, outcomes, LaneTyped, Lane,
       Serving, Dispatched, Shaped, Shape, SameJob, Same
  <2>12. ASSUME recordRetry(j) PROVE Shaped(j)'
    BY SMTT(30), <2>12, <1>0, <1>f DEF recordRetry, DelayOf, AttemptsOf, Move, Charged, outcomes, LaneTyped,
       Lane, RowsTyped, Job, Fails, Serving, Dispatched, Shaped, Shape, SameJob, Same
  <2>13. ASSUME parkDead(j) PROVE Shaped(j)'
    BY <2>13, <1>0, <1>f DEF parkDead, Row, Move, rows, LaneTyped, Lane, Fails, Serving, Dispatched,
       Shaped, Shape, SameJob, Same
  <2>14. ASSUME Unlease(j) PROVE Shaped(j)'
    BY <2>14, <1>0, <1>f DEF Unlease, Free, IdleLane, NoJob, outcomes, LaneTyped, Lane, Serving,
       Dispatched, Shaped, Shape, SameJob, Same
  <2>15. ASSUME LaneFault(j) PROVE Shaped(j)'
    BY <2>15, <1>0, <1>f DEF LaneFault, rows, outcomes, LaneTyped, Lane, NextInLine, Fails, Serving,
       Dispatched, Shaped, Shape, SameJob, Same
  <2>16. ASSUME Catch(j) PROVE Shaped(j)'
    BY <2>16, <1>0, <1>f DEF Catch, CatchWrites, Free, NoJob, IdleLane, outcomes, LaneTyped, Lane,
       RowsTyped, Job, Serving, Dispatched, Shaped, Shape, SameJob, Same
  <2>17. ASSUME Disconnect(j) PROVE Shaped(j)'
    BY <2>17, <1>0, <1>f DEF Disconnect, rows, outcomes, LaneTyped, Lane, Serving, Dispatched,
       Shaped, Shape, SameJob, Same
  <2>18. Shaped(j)'
    BY <1>11, <2>1, <2>2, <2>3, <2>4, <2>5, <2>6, <2>7, <2>8, <2>9, <2>10, <2>11, <2>12, <2>13, <2>14,
       <2>15, <2>16, <2>17 DEF Drain, Dispatch
  <2> QED BY <1>0, <2>0, <2>18 DEF Framed, Serving, Dispatched, Shaped, Shape, SameJob, Same
<1>12. ASSUME NEW k \in running, NEW result \in {"ok", "error"}, RunEnds(k, result) PROVE Shape'
  BY <1>12, <1>0, <1>f DEF RunEnds, rows, outcomes, LaneTyped, Lane, Serving, Dispatched, Shaped,
     Shape
<1>13. CASE UNCHANGED vars
  BY <1>13, <1>0, <1>f DEF vars, rows, outcomes, volatile, Serving, Dispatched, Shaped, Shape
<1> QED
  BY <1>1, <1>2, <1>3, <1>4, <1>5, <1>6, <1>7, <1>8, <1>9, <1>10, <1>11, <1>12, <1>13 DEF Next,
     Request, Alarm, Trouble

(* Of a calm scheduler: what every reachable state satisfies. *)
Calm == Told /\ Shape

(* Every reachable state satisfies it. *)
LEMMA Calms == MaxCrashes = 0 /\ MaxFaults = 0 /\ Spec => []Calm
<1> SUFFICES ASSUME MaxCrashes = 0, MaxFaults = 0 PROVE Spec => []Calm
  OBVIOUS
<1>1. Init => Shape
  BY DEF Init, Shape, Shaped, Serving, Dispatched, IdleLane, NoRow
<1>2. Told /\ Shape /\ [Next]_vars => Shape'
  BY ShapeStep DEF Told
<1> QED BY <1>1, <1>2, Tells, PTL DEF Spec, Calm

(* The same promise of the history index without any assumption on instants, where an id never has *)
(* a dead letter beside an outcome.                                                                *)
THEOREM HistoryCalm == MaxCrashes = 0 /\ MaxFaults = 0 /\ Spec => []HistoryIndexed
<1> SUFFICES ASSUME MaxCrashes = 0, MaxFaults = 0 PROVE Spec => []HistoryIndexed
  OBVIOUS
<1>1. Init => HistoryIndexed
  BY DEF Init, HistoryIndexed, NoRow
<1>2. Calm => Serve /\ Distinct
  BY DEF Calm, Told, Shape, Shaped, Distinct
<1>3. Serve /\ Distinct /\ HistoryIndexed /\ [Next]_vars => HistoryIndexed'
  BY HistoryStep
<1> QED BY <1>1, <1>2, <1>3, Calms, PTL DEF Spec
-----------------------------------------------------------------------------
(* While no instance is lost and every write lands, a row of the index is the due row of a pending *)
(* job that no lane serves, or the lease of the lane at work; what a lane holds was due.           *)
Keyed(j) ==
    /\ \A e \in index : e[2] = j => \/ Has(header[j]) /\ e[1] = header[j].due /\ ~Serving(j)
                                    \/ ~At(j, "idle") /\ ~At(j, "queued") /\ e[1] = lane[j].lease
    /\ ~At(j, "idle") => lane[j].job.due <= now
    /\ At(j, "queued") => lane[j].claim = lane[j].job.due
Keys == \A j \in Id : Keyed(j)

(* What is claimed was due, and its row goes before the lease comes (drainRecordGuarded). *)
LEMMA KeysStep == MaxCrashes = 0 /\ MaxFaults = 0 /\ Calm /\ Unbooted /\ Keys /\ [Next]_vars => Keys'
<1> SUFFICES ASSUME MaxCrashes = 0, MaxFaults = 0, Calm, Unbooted, Keys, [Next]_vars PROVE Keys'
  OBVIOUS
<1>0. /\ Draining /\ SameJob /\ Shape /\ Unbooted /\ Keys /\ TypeOK /\ LaneTyped /\ RowsTyped /\ ~Trouble
      /\ faults \in Nat /\ MaxFaults = 0 /\ now \in Nat /\ TickStep \in Nat /\ Backpressure \in Nat
  BY NoTrouble, TimesTyped DEF Calm, Told, Serve, Inv, TypeOK, BoundsTyped, ClockTyped
<1>f. /\ \A h \in Id : /\ header[h].n \in Nat /\ header[h].due \in Nat /\ lane[h].job \in Job
                       /\ lane[h].job.due \in Nat /\ lane[h].claim \in Nat /\ lane[h].lease \in Nat
      /\ NoJob.n = 0
  BY <1>0, JobFields, LaneFields DEF RowsTyped, LaneTyped, NoJob
<1>g. GateOpen => \A h \in Id : /\ lane[h].pc \in {"idle", "queued", "sent"}
                                /\ Has(dead[h]) => ~Has(header[h])
                                /\ Serving(h) => At(h, "sent") /\ Has(header[h]) /\ ~lane[h].cancelled
  BY <1>0, GateLanes DEF Shape, Shaped, SameJob, Same, Serving, Dispatched
<1>k. \A h \in Id : Keyed(h)
  BY <1>0 DEF Keys
<1>p. ASSUME index' \subseteq index, UNCHANGED <<header, lane, now>> PROVE Keys'
  BY <1>p, <1>0 DEF Keys, Keyed, Serving, Dispatched
<1>b. ASSUME NEW j \in Id, NEW t \in Nat, GateOpen, ~Serving(j), index' = index \cup {Ix(t, j)},
             header'[j].due = t, Has(header'[j]), ~Has(header[j]), \A h \in Id \ {j} : header'[h] = header[h],
             UNCHANGED <<lane, now>>
      PROVE  Keys'
  <2>1. ASSUME NEW h \in Id \ {j} PROVE Keyed(h)'
    BY <1>b, <2>1, <1>k DEF Keyed, Serving, Dispatched
  <2>2. Keyed(j)'
    BY <1>b, <1>k DEF Keyed, Serving, Dispatched
  <2> QED BY <2>1, <2>2 DEF Keys
<1>c. ASSUME NEW j \in Id, GateOpen, removeRecord(j), MarkCancelled(j), now' = now PROVE Keys'
  <2>1. /\ \A h \in Id \ {j} : header'[h] = header[h]
        /\ index' = index \ ({Ix(header[j].due, j)} \cup HeldRows(j))
    BY <1>c, <1>0 DEF removeRecord, RowsTyped
  <2>2. \A h \in Id : /\ lane'[h].pc = lane[h].pc /\ lane'[h].job = lane[h].job
                      /\ lane'[h].claim = lane[h].claim /\ lane'[h].lease = lane[h].lease
                      /\ h # j => lane'[h].cancelled = lane[h].cancelled
    BY <1>c, <1>0, MarkedLane
  <2>3. ASSUME NEW h \in Id \ {j} PROVE Keyed(h)'
    BY <1>c, <2>1, <2>2, <1>k DEF Keyed, Serving, Dispatched
  <2>4. ASSUME NEW e \in index', e[2] = j PROVE FALSE
    <3>1. e \in index /\ e = Ix(e[1], j) /\ e \notin HeldRows(j) /\ e[1] # header[j].due
      BY <2>1, <2>4, <1>0 DEF RowsTyped
    <3>2. ~At(j, "idle") /\ ~At(j, "queued") /\ e[1] = lane[j].lease
      BY <3>1, <2>4, <1>k DEF Keyed
    <3> QED BY <3>1, <3>2, <1>c, <1>g DEF HeldRows
  <2>5. Keyed(j)'
    BY <1>c, <2>2, <2>4, <1>k DEF Keyed
  <2> QED BY <2>3, <2>5 DEF Keys
<1>1. CASE Boot
  <2>1. restoreOutcome({}) => header' = header
    BY <1>0 DEF restoreOutcome, RowsTyped
  <2>2. index = {} /\ Orphans = {} /\ Repairable = {}
    BY <1>1, <1>0 DEF Boot, Unbooted, Orphans, Shape, Shaped, Repairable
  <2> QED BY <1>1, <2>1, <2>2, <1>p DEF Boot, rows, reindexWalk, volatile, bounds
<1>2. CASE Schedule
  <2>1. PICK i \in Id, due \in Dues, cap \in Caps : handleSchedule(i, due, cap)
    BY <1>2 DEF Schedule
  <2>2. /\ header' = [header EXCEPT ![i] = [n |-> jobs[i] + 1, due |-> due, attempts |-> 0]]
        /\ index' = index \cup {Ix(due, i)} /\ GateOpen /\ ~Has(header[i]) /\ UNCHANGED <<lane, now>>
        /\ due \in Nat /\ jobs[i] \in Nat
    BY <1>2, <2>1, <1>0, InputsTyped DEF Schedule, handleSchedule, volatile, TypeOK, BoundsTyped
  <2>3. ~Serving(i) /\ header'[i].due = due /\ Has(header'[i]) /\ \A h \in Id \ {i} : header'[h] = header[h]
    BY <2>2, <1>g, <1>0 DEF RowsTyped
  <2> QED BY <2>2, <2>3, <1>b
<1>3. CASE handleComplete \/ Resume \/ Pause \/ AlarmPaused \/ CompleteLost \/ AlarmIdle \/ EndDrain
  BY <1>3, <1>0, <1>p DEF handleComplete, Resume, Pause, AlarmPaused, CompleteLost, AlarmIdle,
     rescheduleAlarm, EndDrain, rows, volatile, bounds, Serving, Dispatched, Keyed, Keys
<1>4. ASSUME NEW j \in Id, handleCancel(j) PROVE Keys'
  BY <1>4, <1>c DEF handleCancel
<1>5. ASSUME NEW j \in Id, CancelFinished(j) PROVE Keys'
  BY <1>5, <1>c DEF CancelFinished, bounds
<1>6. ASSUME NEW j \in Id, handleDeadRetry(j) PROVE Keys'
  <2>1. /\ header' = [header EXCEPT ![j] = [n |-> dead[j].n, due |-> now, attempts |-> 0]]
        /\ index' = index \cup {Ix(now, j)} /\ GateOpen /\ Has(dead[j]) /\ UNCHANGED <<lane, now>>
    BY <1>6 DEF handleDeadRetry, revive, volatile
  <2>2. ~Has(header[j])
    BY <2>1, <1>g
  <2>3. ~Serving(j)
    BY <2>2, <2>1, <1>g
  <2>4. header'[j].due = now /\ Has(header'[j]) /\ \A h \in Id \ {j} : header'[h] = header[h]
    BY <2>1, <1>0 DEF RowsTyped
  <2> QED BY <2>1, <2>2, <2>3, <2>4, <1>0, <1>b
<1>7. ASSUME NEW j \in Id, handleDeadCancel(j) PROVE Keys'
  BY <1>7, <1>p DEF handleDeadCancel, rows, volatile, bounds
<1>8. CASE Trouble
  BY <1>8, <1>0
<1>9. CASE AlarmDrain
  <2>1. \A h \in Id : At(h, "idle")
    BY <1>9, <1>0 DEF AlarmDrain, AlarmDue, Draining
  <2>2. ASSUME NEW h \in Selected PROVE ClaimTime(h) = header[h].due /\ header[h].due <= now
    <3>1. ClaimTime(h) \in DueTimes(h) /\ h \in Id
      BY <1>0, ClaimTyped, <2>2 DEF TypeOK, Selected
    <3>2. PICK e \in index : e[2] = h /\ e[1] = ClaimTime(h) /\ e[1] <= now
      BY <3>1 DEF DueTimes, Due
    <3> QED BY <3>1, <3>2, <2>1, <1>k DEF Keyed
  <2>3. /\ header' = header /\ now' = now /\ index' \subseteq index
        /\ lane' = [h \in Id |-> IF h \in Selected THEN [IdleLane EXCEPT !.pc = "queued", !.job = header[h], !.claim = ClaimTime(h)] ELSE lane[h]]
    BY <1>9 DEF AlarmDrain, bounds
  <2>4. ASSUME NEW h \in Selected PROVE lane'[h].pc = "queued" /\ lane'[h].job = header[h] /\ lane'[h].claim = ClaimTime(h) /\ h \in Id
    BY <2>3, <2>4 DEF IdleLane, Selected
  <2>5. ASSUME NEW h \in Id PROVE Keyed(h)'
    <3>1. CASE h \in Selected
      <4>1. /\ lane'[h].pc = "queued" /\ lane'[h].job = header[h] /\ lane'[h].claim = header[h].due
            /\ header[h].due <= now
        BY <3>1, <2>2, <2>4
      <4>2. /\ Has(header[h]) /\ ~Serving(h)' /\ header'[h] = header[h]
        BY <3>1, <4>1, <2>3 DEF Selected, Serving, Dispatched
      <4>3. \A e \in index : e[2] = h => e[1] = header[h].due
        BY <2>1, <1>k DEF Keyed
      <4> QED BY <4>1, <4>2, <4>3, <2>3 DEF Keyed
    <3>2. CASE h \notin Selected
      BY <3>2, <2>1, <2>3, <1>k DEF Keyed, Serving, Dispatched
    <3> QED BY <3>1, <3>2
  <2> QED BY <2>5 DEF Keys
<1>10. CASE Tick
  <2>1. UNCHANGED <<rows, lane>> /\ now' = now + TickStep
    BY <1>10 DEF Tick, volatile
  <2> QED BY <2>1, <1>0, <1>f, <1>k DEF rows, Keys, Keyed, Serving, Dispatched
<1>11. ASSUME NEW j \in Id, Drain(j) \/ Disconnect(j) PROVE Keys'
  <2>0. Framed(j)
    BY <1>11, <1>0, LaneFrame
  <2>1. ASSUME ClaimGone(j) PROVE Keyed(j)'
    BY <2>1, <1>0, <1>f, <1>k DEF ClaimGone, Free, IdleLane, NoJob, bounds, LaneTyped, Lane,
       NextInLine, Serving, Dispatched, Keyed, Keys, SameJob, Same, Shape, Shaped
  <2>2. ASSUME ClaimSkipped(j) PROVE Keyed(j)'
    BY <2>2, <1>0, <1>f, <1>k DEF ClaimSkipped, Free, IdleLane, NoJob, rows, bounds, LaneTyped,
       Lane, NextInLine, Serving, Dispatched, Keyed, Keys, SameJob, Same, Shape, Shaped
  <2>3. ASSUME Claim(j) PROVE Keyed(j)'
    <3>1. /\ At(j, "queued") /\ header[j] = lane[j].job /\ index' = index \ {Ix(lane[j].claim, j)} /\ now' = now
          /\ lane' = [lane EXCEPT ![j].pc = "unindexed", ![j].lease = now + Lease]
      BY <2>3 DEF Claim, NextInLine, Untouched, bounds
    <3>2. lane[j].claim = header[j].due /\ header[j].due <= now
      BY <3>1, <1>k DEF Keyed
    <3>3. \A e \in index : e[2] = j => e = Ix(header[j].due, j)
      BY <3>1, <1>k, <1>0 DEF Keyed, RowsTyped
    <3>4. \A e \in index' : e[2] # j
      BY <3>1, <3>2, <3>3
    <3>5. lane'[j].job = lane[j].job /\ lane'[j].pc = "unindexed"
      BY <3>1, <1>0 DEF LaneTyped, Lane
    <3> QED BY <3>1, <3>2, <3>4, <3>5 DEF Keyed
  <2>4. ASSUME PutLease(j) PROVE Keyed(j)'
    BY <2>4, <1>0, <1>f, <1>k DEF PutLease, Move, bounds, LaneTyped, Lane, Serving, Dispatched,
       Keyed, Keys, SameJob, Same, Shape, Shaped
  <2>5. ASSUME Reserve(j) \/ Refuse(j) PROVE Keyed(j)'
    BY SMTT(30), <2>5, <1>0, <1>f, <1>k DEF Reserve, Move, Refuse, rows, bounds, LaneTyped, Lane, Serving,
       Dispatched, Keyed, Keys, SameJob, Same, Shape, Shaped
  <2>6. ASSUME requeuePooled(j) PROVE Keyed(j)'
    BY <2>6, <1>0, <1>f, <1>k DEF requeuePooled, Move, bounds, LaneTyped, Lane, RowsTyped, Job,
       Serving, Dispatched, Keyed, Keys, SameJob, Same, Shape, Shaped
  <2>7. ASSUME Send(j) \/ SendAnswered(j) \/ SendDeclined(j) \/ SendLost(j) PROVE Keyed(j)'
    <3>1. PICK reply \in {"running", "ok", "declined", "lost"} : Sent(j, reply)
      BY <2>7 DEF Send, SendAnswered, SendDeclined, SendLost
    <3> QED BY <3>1, <1>0, <1>f, <1>k DEF Sent, rows, LaneTyped, Lane, Serving, Dispatched, Keyed,
               Keys, SameJob, Same, Shape, Shaped
  <2>8. ASSUME Answer(j) \/ ReleaseSlot(j) PROVE Keyed(j)'
    BY SMTT(30), <2>8, <1>0, <1>f, <1>k DEF Answer, Move, ReleaseSlot, rows, bounds, LaneTyped, Lane, Serving,
       Dispatched, Keyed, Keys, SameJob, Same, Shape, Shaped
  <2>9. ASSUME CancelledSettles(j) PROVE Keyed(j)'
    BY <2>9, <1>0, <1>f, <1>k DEF CancelledSettles, Move, rows, bounds, LaneTyped, Lane, Serving,
       Dispatched, Keyed, Keys, SameJob, Same, Shape, Shaped
  <2>10. ASSUME RecordOutcome(j) PROVE Keyed(j)'
    BY <2>10, <1>0, <1>f, <1>k DEF RecordOutcome, Move, rows, bounds, LaneTyped, Lane, Serving,
       Dispatched, Keyed, Keys, SameJob, Same, Shape, Shaped
  <2>11. ASSUME OutcomeRefused(j) PROVE Keyed(j)'
    BY <2>11, <1>0, <1>f, <1>k DEF OutcomeRefused, Move, rows, LaneTyped, Lane, Serving, Dispatched,
       Keyed, Keys, SameJob, Same, Shape, Shaped
  <2>12. ASSUME Clear(j) PROVE Keyed(j)'
    BY <2>12, <1>0, <1>f, <1>k DEF Clear, NoJob, clearPending, Move, LaneTyped, Lane, RowsTyped,
       Job, Serving, Dispatched, Keyed, Keys, SameJob, Same, Shape, Shaped
  <2>13. ASSUME ClearRefused(j) PROVE Keyed(j)'
    BY <2>13, <1>0, <1>f, <1>k DEF ClearRefused, clearPending, Move, rows, LaneTyped, Lane, Serving,
       Dispatched, Keyed, Keys, SameJob, Same, Shape, Shaped
  <2>14. ASSUME recordRetry(j) PROVE Keyed(j)'
    <3> DEFINE due == now + DelayOf(j)
    <3>1. /\ At(j, "released") /\ ~lane[j].cancelled /\ now' = now
          /\ header' = [header EXCEPT ![j] = [lane[j].job EXCEPT !.due = due, !.attempts = AttemptsOf(j)]]
          /\ index' = index \cup {Ix(due, j)} /\ lane' = [lane EXCEPT ![j].pc = "unleasing"]
      BY <2>14 DEF recordRetry, Fails, Move, bounds
    <3> HIDE DEF due
    <3>2. Serving(j)
      BY <3>1 DEF Serving, Dispatched
    <3>3. Has(lane[j].job)
      BY <3>1, <1>0 DEF SameJob, Same
    <3>4. /\ lane'[j].pc = "unleasing" /\ lane'[j].lease = lane[j].lease /\ lane'[j].job = lane[j].job
          /\ header'[j].due = due /\ header'[j].n = lane[j].job.n
      BY <3>1, <1>0, <1>f DEF LaneTyped, Lane, RowsTyped, Job
    <3>5. Has(header'[j]) /\ ~Serving(j)'
      BY <3>3, <3>4 DEF Serving, Dispatched
    <3>6. \A e \in index : e[2] = j => e[1] = lane[j].lease
      BY <3>2, <1>k DEF Keyed
    <3> QED BY <3>1, <3>4, <3>5, <3>6, <1>k DEF Keyed
  <2>15. ASSUME parkDead(j) PROVE Keyed(j)'
    BY <2>15, <1>0, <1>f, <1>k DEF parkDead, Move, rows, bounds, LaneTyped, Lane, Fails, Serving,
       Dispatched, Keyed, Keys, SameJob, Same, Shape, Shaped
  <2>16. ASSUME Unlease(j) PROVE Keyed(j)'
    <3>1. /\ ~At(j, "idle") /\ ~At(j, "queued") /\ index' = index \ {Ix(lane[j].lease, j)}
          /\ header' = header /\ lane'[j].pc = "idle"
      BY <2>16, <1>0 DEF Unlease, LeaseKey, Free, IdleLane, LaneTyped
    <3>2. ASSUME NEW e \in index', e[2] = j PROVE Has(header[j]) /\ e[1] = header[j].due
      <4>1. e \in index /\ e = Ix(e[1], j) /\ e[1] # lane[j].lease
        BY <3>1, <3>2, <1>0 DEF RowsTyped
      <4> QED BY <4>1, <3>2, <1>k DEF Keyed
    <3> QED BY <3>1, <3>2 DEF Keyed, Serving, Dispatched
  <2>17. ASSUME LaneFault(j) PROVE Keyed(j)'
    BY <2>17, <1>0, <1>f, <1>k DEF LaneFault, rows, LaneTyped, Lane, NextInLine, Fails, Serving,
       Dispatched, Keyed, Keys, SameJob, Same, Shape, Shaped
  <2>18. ASSUME Catch(j) PROVE Keyed(j)'
    BY <2>18, <1>0, <1>f, <1>k DEF Catch, CatchWrites, Free, LeaseRow, NoJob, IdleLane, LeaseKey,
       LaneTyped, Lane, RowsTyped, Job, Serving, Dispatched, Keyed, Keys, SameJob, Same, Shape,
       Shaped
  <2>19. ASSUME Disconnect(j) PROVE Keyed(j)'
    BY <2>19, <1>0, <1>f, <1>k DEF Disconnect, rows, LaneTyped, Lane, Serving, Dispatched, Keyed,
       Keys, SameJob, Same, Shape, Shaped
  <2>20. Keyed(j)'
    BY <1>11, <2>1, <2>2, <2>3, <2>4, <2>5, <2>6, <2>7, <2>8, <2>9, <2>10, <2>11, <2>12, <2>13, <2>14,
       <2>15, <2>16, <2>17, <2>18, <2>19 DEF Drain, Dispatch
  <2>21. now' = now
    BY <2>0 DEF Framed
  <2>22. ASSUME NEW h \in Id \ {j} PROVE Keyed(h)'
    <3>1. lane'[h] = lane[h] /\ header'[h] = header[h] /\ Keyed(h)
      BY <2>0, <1>k DEF Framed
    <3>2. \A e \in index' : e[2] = h => e \in index
      BY <2>0, TypeStep, <1>0 DEF Framed, TypeOK, RowsTyped
    <3> QED BY <3>1, <3>2, <2>21 DEF Keyed, Serving, Dispatched
  <2> QED BY <2>22, <2>20 DEF Keys
<1>12. ASSUME NEW k \in running, NEW result \in {"ok", "error"}, RunEnds(k, result) PROVE Keys'
  BY SMTT(30), <1>12, <1>0, <1>p DEF RunEnds, rows, bounds, Serving, Dispatched, Keyed, Keys
<1>13. CASE UNCHANGED vars
  BY <1>13, <1>0, <1>p DEF vars, rows, volatile, bounds, Serving, Dispatched, Keyed, Keys
<1> QED
  BY <1>1, <1>2, <1>3, <1>4, <1>5, <1>6, <1>7, <1>8, <1>9, <1>10, <1>11, <1>12, <1>13 DEF Next,
     Request, Alarm, Trouble

(* While no instance is lost and every write lands, no job is sent before the time it was scheduled, *)
(* requeued or backed off to, whatever call fails (alarm, drainRecordGuarded).                       *)
THEOREM NothingEarly == MaxCrashes = 0 /\ MaxFaults = 0 /\ Spec => NotBeforeDue
<1> SUFFICES ASSUME MaxCrashes = 0, MaxFaults = 0 PROVE Spec => NotBeforeDue
  OBVIOUS
<1> DEFINE OnTime == \A j \in Id : SendStep(j) => now >= lane[j].job.due
<1>1. Init => Unbooted /\ Keys
  BY DEF Init, Unbooted, NoJob, Keys, Keyed, IdleLane
<1>2. Calm /\ Unbooted /\ Keys /\ [Next]_vars => Unbooted' /\ Keys'
  BY UnbootedStep, KeysStep DEF Calm, Told, Serve, Inv
<1>3. Calm /\ Keys /\ [Next]_vars => [OnTime]_vars
  BY SendIsClaimed, LaneFields, JobFields DEF Calm, Told, Serve, Inv, Claimed, Keys, Keyed, TypeOK, LaneTyped, ClockTyped
<1> QED BY <1>1, <1>2, <1>3, Calms, PTL DEF Spec, NotBeforeDue
-----------------------------------------------------------------------------
(* Where nothing is lost, a success is known to the lane that waits for it before it can be *)
(* cancelled: a job that succeeded is pending only under that lane, and reads "canceled"    *)
(* only until that lane corrects it; and a marked lane has neither a header nor a dead      *)
(* letter of its job beside it.                                                             *)
Late(j) ==
    /\ done[j].state = "canceled" /\ <<j, done[j].n>> \in ranOk
          => lane[j].cancelled /\ lane[j].job.n = done[j].n /\ Ok(j) /\ Dispatched(j)
    /\ done[j].state = "canceled" /\ lane[j].job.n = done[j].n /\ Dispatched(j) => lane[j].cancelled
    /\ Has(header[j]) /\ <<j, header[j].n>> \in ranOk
          => /\ lane[j].job.n = header[j].n /\ Ok(j) /\ ~lane[j].cancelled
             /\ lane[j].pc \in {"sent", "released", "clearing"}
    /\ <<j, dead[j].n>> \notin ranOk
    /\ lane[j].cancelled => /\ lane[j].pc \in {"sent", "answered", "released", "unleasing"}
                            /\ header[j].n # lane[j].job.n /\ dead[j].n # lane[j].job.n
Lates == \A j \in Id : Late(j)

(* The answer finds the lane that asked, and a cancelled lane corrects the row (drainRecord). *)
LEMMA LatesStep ==
    MaxCrashes = 0 /\ MaxFaults = 0 /\ MaxLosses = 0 /\ Calm /\ Slots /\ Lates /\ [Next]_vars => Lates'
<1> SUFFICES ASSUME MaxCrashes = 0, MaxFaults = 0, MaxLosses = 0, Calm, Slots, Lates, [Next]_vars
             PROVE  Lates'
  OBVIOUS
<1>0. /\ Draining /\ SameJob /\ Shape /\ Slots /\ Lates /\ TypeOK /\ LaneTyped /\ RowsTyped /\ OutcomesTyped /\ ~Trouble
      /\ faults \in Nat /\ MaxFaults = 0 /\ losses \in Nat /\ MaxLosses = 0 /\ Tracked /\ Numbered
  BY NoTrouble DEF Calm, Told, Serve, Inv, TypeOK, BoundsTyped
<1>f. /\ \A h \in Id : /\ header[h].n \in Nat /\ dead[h].n \in Nat /\ done[h].n \in Nat /\ lane[h].job.n \in Nat
                       /\ jobs[h] \in Nat /\ header[h].n <= jobs[h] /\ dead[h].n <= jobs[h] /\ lane[h].job.n <= jobs[h]
                       /\ <<h, 0>> \notin ranOk /\ <<h, jobs[h] + 1>> \notin ranOk
      /\ NoJob.n = 0 /\ NoRow.n = 0 /\ NoRow.state = "none"
  <2>1. ASSUME NEW h \in Id PROVE <<h, 0>> \notin ranOk /\ <<h, jobs[h] + 1>> \notin ranOk
    <3>1. jobs[h] \in Nat
      BY <1>0 DEF TypeOK, BoundsTyped
    <3>2. \A n \in Nat : <<h, n>> \in ranOk => n > 0 /\ n <= jobs[h]
      BY <1>0 DEF Tracked
    <3> QED BY <3>1, <3>2
  <2> QED BY <2>1, <1>0, JobFields, TerminalFields, LaneFields DEF TypeOK, BoundsTyped, RowsTyped, OutcomesTyped, LaneTyped, NoJob, NoRow, Numbered
<1>g. GateOpen => \A h \in Id : /\ lane[h].pc \in {"idle", "queued", "sent"}
                                /\ Has(dead[h]) => ~Has(header[h])
                                /\ Has(done[h]) => ~Has(header[h])
                                /\ Serving(h) => At(h, "sent") /\ Has(header[h]) /\ ~lane[h].cancelled
  BY <1>0, GateLanes DEF Shape, Shaped, SameJob, Same, Serving, Dispatched
<1>k. \A h \in Id : Late(h) /\ Same(h) /\ Shaped(h) /\ Slotted(h)
  BY <1>0 DEF Lates, SameJob, Shape, Slots
<1>c. \A h \in Id : lane[h].cancelled => Has(lane[h].job)
  BY <1>k DEF Late, Same
<1>z. ASSUME NEW h \in Id, ranOk' = ranOk, header'[h].n \in {0, header[h].n}, dead'[h].n \in {0, dead[h].n},
             done'[h].state # "canceled" \/ done'[h] = done[h],
             lane'[h].pc = lane[h].pc, lane'[h].job = lane[h].job, lane'[h].reply = lane[h].reply,
             lane'[h].cancelled = lane[h].cancelled
      PROVE  Late(h)'
  <2>1. <<h, dead'[h].n>> \notin ranOk'
    BY <1>z, <1>f, <1>k DEF Late
  <2>2. Has(header'[h]) => header'[h].n = header[h].n
    BY <1>z
  <2>3. lane'[h].cancelled => header'[h].n # lane'[h].job.n /\ dead'[h].n # lane'[h].job.n
    BY <1>z, <1>c, <1>k DEF Late
  <2> QED BY ZenonT(30), <1>z, <2>1, <2>2, <2>3, <1>k DEF Late, Dispatched, Ok
<1>y. ASSUME NEW h \in Id, ranOk' = ranOk, ~lane[h].cancelled, ~lane'[h].cancelled, lane'[h].job = lane[h].job,
             header'[h].n = 0 \/ (header'[h].n = header[h].n /\ <<h, header[h].n>> \notin ranOk),
             <<h, dead'[h].n>> \notin ranOk,
             done'[h].state # "canceled" \/ (done'[h] = done[h] /\ ~Dispatched(h)')
      PROVE  Late(h)'
  BY <1>y, <1>f, <1>k DEF Late, Dispatched, Ok
<1>1. CASE Boot
  <2>1. UNCHANGED <<header, dead, done, ranOk, lane>>
    BY <1>1, <1>0, RestoredRows DEF Shape, Shaped, Boot, rows, reindexWalk, restoreOutcome, Repairable, RowsTyped, OutcomesTyped, ghosts
  <2> QED BY <2>1, <1>0 DEF Ok, Serving, Dispatched, Late, Lates
<1>2. CASE Schedule
  <2>1. PICK i \in Id, due \in Dues, cap \in Caps : handleSchedule(i, due, cap)
    BY <1>2 DEF Schedule
  <2>2. /\ ~Has(header[i]) /\ ~Has(dead[i]) /\ dead' = dead /\ lane' = lane /\ GateOpen /\ ranOk' = ranOk
        /\ header' = [header EXCEPT ![i] = [n |-> jobs[i] + 1, due |-> due, attempts |-> 0]]
        /\ done' = [done EXCEPT ![i] = NoRow]
    BY <1>2, <2>1 DEF Schedule, handleSchedule, dropOutcome, volatile
  <2>3. \A h \in Id \ {i} : header'[h] = header[h] /\ done'[h] = done[h]
    BY <2>2, <1>0 DEF RowsTyped, OutcomesTyped
  <2>4. header'[i].n = jobs[i] + 1 /\ done'[i].state = "none"
    BY <2>2, <1>0, <1>f DEF RowsTyped, OutcomesTyped
  <2>5. Late(i)'
    <3>0. /\ lane[i].job.n \in Nat /\ jobs[i] \in Nat /\ lane[i].job.n <= jobs[i]
          /\ <<i, jobs[i] + 1>> \notin ranOk
      BY <1>f
    <3>1. jobs[i] + 1 # lane[i].job.n
      BY <3>0
    <3>2. ranOk' = ranOk /\ dead' = dead
      BY <2>2
    <3>3. <<i, header'[i].n>> \notin ranOk'
      BY <2>4, <3>0, <3>2
    <3> QED BY <2>2, <2>4, <3>1, <3>2, <3>3, <1>k DEF Late, Dispatched, Ok
  <2>6. ASSUME NEW h \in Id \ {i} PROVE Late(h)'
    BY <2>2, <2>3, <1>k DEF Late, Dispatched, Ok
  <2> QED BY <2>5, <2>6 DEF Lates
<1>3. CASE handleComplete \/ Resume \/ Pause \/ AlarmPaused \/ CompleteLost \/ Tick
  BY <1>3, <1>0, <1>f, <1>k DEF handleComplete, Resume, Pause, AlarmPaused, CompleteLost, Tick,
     rows, outcomes, volatile, ghosts, Ok, Serving, Dispatched, Late, Lates
<1>4. ASSUME NEW j \in Id, handleCancel(j) PROVE Lates'
  <2>1. /\ header' = [header EXCEPT ![j] = NoJob] /\ dead' = dead /\ ranOk' = ranOk
        /\ MarkCancelled(j) /\ Removes(j) /\ GateOpen /\ Has(header[j])
    BY <1>4, <1>0, CancelRemoves DEF handleCancel, removeRecord, Cancels, ghosts
  <2>2. \A h \in Id : done'[h] \in {done[h], NoRow} \/ (h = j /\ done'[h] = Row(header[j].n, now, "canceled"))
    BY <2>1 DEF Removes
  <2>3. \A h \in Id : /\ lane'[h].pc = lane[h].pc /\ lane'[h].job = lane[h].job /\ lane'[h].reply = lane[h].reply
                     /\ lane'[h].cancelled = IF h = j /\ At(j, "sent") THEN TRUE ELSE lane[h].cancelled
    BY <2>1, <1>0, MarkedLane
  <2>4. ~Has(dead[j]) /\ ~Has(done[j]) /\ lane[j].pc \in {"idle", "queued", "sent"} /\ (At(j, "sent") => Has(lane[j].job))
    BY <2>1, <1>g, <1>k DEF Same
  <2>5. ASSUME NEW h \in Id \ {j} PROVE Late(h)'
    <3>1. header'[h] = header[h] /\ done'[h] \in {done[h], NoRow}
      BY <2>1, <2>2, <1>0 DEF RowsTyped
    <3>2. /\ lane'[h].pc = lane[h].pc /\ lane'[h].job = lane[h].job /\ lane'[h].cancelled = lane[h].cancelled
          /\ lane'[h].reply = lane[h].reply
      BY <2>3
    <3> QED BY <3>1, <3>2, <2>1, <1>f, <1>z
  <2>6. Late(j)'
    <3>1. header'[j].n = 0
      BY <2>1, <1>0, <1>f DEF RowsTyped
    <3>2. /\ lane'[j].pc = lane[j].pc /\ lane'[j].job = lane[j].job /\ lane'[j].reply = lane[j].reply
          /\ lane'[j].cancelled <=> At(j, "sent") \/ lane[j].cancelled
      BY <2>3
    <3>3. \/ done'[j] = done[j] \/ done'[j] = NoRow
          \/ done'[j].state = "canceled" /\ done'[j].n = header[j].n
      BY <2>2 DEF Row
    <3> QED BY ZenonT(30), <3>1, <3>2, <3>3, <2>1, <2>4, <1>k, <1>f DEF Late, Dispatched, Ok
  <2> QED BY <2>5, <2>6 DEF Lates
<1>5. ASSUME NEW j \in Id, CancelFinished(j) PROVE Lates'
  BY <1>5, <1>g DEF CancelFinished
<1>6. ASSUME NEW j \in Id, handleDeadRetry(j) PROVE Lates'
  <2>1. /\ GateOpen /\ Has(dead[j]) /\ lane' = lane /\ ranOk' = ranOk
        /\ header' = [header EXCEPT ![j] = [n |-> dead[j].n, due |-> now, attempts |-> 0]]
        /\ dead' = [dead EXCEPT ![j] = NoRow] /\ done' = [done EXCEPT ![j] = NoRow]
    BY <1>6 DEF handleDeadRetry, revive, volatile
  <2>2. \A h \in Id \ {j} : header'[h] = header[h] /\ done'[h] = done[h] /\ dead'[h] = dead[h]
    BY <2>1, <1>0 DEF RowsTyped, OutcomesTyped
  <2>3. header'[j].n = dead[j].n /\ done'[j].state = "none" /\ dead'[j].n = 0
    BY <2>1, <1>0, <1>f DEF RowsTyped, OutcomesTyped
  <2>4. lane[j].cancelled => Has(lane[j].job)
    BY <1>k DEF Late, Same
  <2>5. Late(j)'
    <3>0. <<j, dead[j].n>> \notin ranOk /\ <<j, 0>> \notin ranOk
      BY <1>f, <1>k DEF Late
    <3>3. ranOk' = ranOk
      BY <2>1
    <3>1. <<j, header'[j].n>> \notin ranOk' /\ <<j, dead'[j].n>> \notin ranOk'
      BY <2>3, <3>0, <3>3
    <3>2. lane[j].cancelled => header'[j].n # lane[j].job.n /\ dead'[j].n # lane[j].job.n
      BY <2>3, <2>4, <1>k DEF Late
    <3> QED BY <2>1, <2>3, <3>1, <3>2, <1>k DEF Late, Dispatched, Ok
  <2>6. ASSUME NEW h \in Id \ {j} PROVE Late(h)'
    BY <2>1, <2>2, <1>k DEF Late, Dispatched, Ok
  <2> QED BY <2>5, <2>6 DEF Lates
<1>7. ASSUME NEW j \in Id, handleDeadCancel(j) PROVE Lates'
  <2>1. /\ GateOpen /\ Has(dead[j]) /\ lane' = lane /\ ranOk' = ranOk /\ header' = header
        /\ dead' = [dead EXCEPT ![j] = NoRow]
        /\ \A h \in Id : done'[h] \in {done[h], NoRow} \/ (h = j /\ done'[h].state = "failed")
    BY <1>7, <1>0 DEF handleDeadCancel, SweptDone, purge, Row, rows, volatile, ghosts, OutcomesTyped
  <2>2. lane[j].cancelled => Has(lane[j].job)
    BY <1>k DEF Late, Same
  <2>3. \A h \in Id : dead'[h] \in {dead[h], NoRow} /\ (h # j => dead'[h] = dead[h])
    BY <2>1, <1>0 DEF OutcomesTyped
  <2>4. ASSUME NEW h \in Id PROVE Late(h)'
    <3>1. done'[h].state # "canceled" \/ done'[h] = done[h]
      BY <2>1, <1>f
    <3> QED BY <2>1, <2>3, <3>1, <1>f, <1>z
  <2> QED BY <2>4 DEF Lates
<1>8. CASE Trouble
  BY <1>8, <1>0
<1>9. CASE AlarmIdle
  <2>1. /\ UNCHANGED <<header, dead, lane, ranOk>>
        /\ \A h \in Id : done'[h] \in {done[h], NoRow}
    BY <1>9 DEF AlarmIdle, SweptDone, rows, volatile, ghosts
  <2> QED BY <2>1, <1>f, <1>z DEF Lates
<1>10. CASE AlarmDrain
  <2>1. /\ UNCHANGED <<header, dead, done, ranOk>> /\ \A h \in Id : At(h, "idle")
        /\ \A h \in Id : lane'[h] = lane[h] \/ (lane'[h].pc = "queued" /\ ~lane'[h].cancelled /\ lane'[h].job = header[h])
    BY <1>10, <1>0 DEF AlarmDrain, AlarmDue, outcomes, ghosts, IdleLane, Draining
  <2>2. ASSUME NEW h \in Id PROVE Late(h)'
    BY <2>1, <1>k DEF Late, Dispatched, Ok
  <2> QED BY <2>2 DEF Lates
<1>11. CASE EndDrain
  <2>1. /\ UNCHANGED <<header, dead, lane, ranOk>>
        /\ \A h \in Id : done'[h] \in {done[h], NoRow}
    BY <1>11 DEF EndDrain, SweptDone, rows, volatile, ghosts
  <2> QED BY <2>1, <1>f, <1>z DEF Lates
<1>12. ASSUME NEW j \in Id, Drain(j) \/ Disconnect(j) PROVE Lates'
  <2>0. Framed(j)
    BY <1>12, <1>0, LaneFrame
  <2>1. ASSUME ClaimGone(j) \/ ClaimSkipped(j) PROVE Late(j)'
    BY SMTT(30), <2>1, <1>0, <1>f, <1>k DEF ClaimGone, Free, IdleLane, NoJob, ClaimSkipped, outcomes, ghosts,
       rows, LaneTyped, Lane, NextInLine, Ok, Serving, Dispatched, Late, Lates, Same, Shaped
  <2>2. ASSUME Claim(j) PROVE Late(j)'
    BY <2>2, <1>0, <1>f, <1>k DEF Claim, outcomes, ghosts, LaneTyped, Lane, NextInLine, Untouched,
       Ok, Serving, Dispatched, Late, Lates, Same, Shaped
  <2>3. ASSUME PutLease(j) \/ Reserve(j) \/ Refuse(j) PROVE Late(j)'
    BY SMTT(30), <2>3, <1>0, <1>f, <1>k DEF PutLease, Move, Reserve, Refuse, outcomes, ghosts, rows,
       LaneTyped, Lane, Ok, Serving, Dispatched, Late, Lates, Same, Shaped
  <2>4. ASSUME requeuePooled(j) PROVE Late(j)'
    <3>1. /\ ranOk' = ranOk /\ dead' = dead /\ done' = done /\ At(j, "refused")
          /\ lane' = [lane EXCEPT ![j].pc = "unleasing"]
          /\ header' = [header EXCEPT ![j] = [lane[j].job EXCEPT !.due = now + Backpressure]]
      BY <2>4 DEF requeuePooled, Move, outcomes, ghosts
    <3>2. lane[j].job \in Job /\ Serving(j) /\ Late(j) /\ Same(j) /\ Shaped(j)
      BY <3>1, <1>0, <1>k, LaneFields DEF LaneTyped, Serving, Dispatched
    <3>3. /\ header'[j].n = lane[j].job.n /\ lane'[j].pc = "unleasing" /\ lane'[j].job = lane[j].job
          /\ lane'[j].cancelled = lane[j].cancelled /\ ~lane[j].cancelled
      BY <3>1, <3>2, <1>0 DEF RowsTyped, LaneTyped, Lane, Job, Late
    <3>4. header[j].n = lane[j].job.n /\ Has(header[j]) /\ <<j, header[j].n>> \notin ranOk /\ <<j, dead[j].n>> \notin ranOk
      BY <3>1, <3>2 DEF Same, Late, Serving
    <3> QED BY <3>1, <3>3, <3>4, <1>y DEF Dispatched
  <2>5. ASSUME Send(j) \/ SendAnswered(j) \/ SendDeclined(j) \/ SendLost(j) PROVE Late(j)'
    <3>1. PICK reply \in {"running", "ok", "declined", "lost"} : Sent(j, reply)
      BY <2>5 DEF Send, SendAnswered, SendDeclined, SendLost
    <3>2. UNCHANGED <<rows, outcomes, ranOk>> /\ lane' = [lane EXCEPT ![j].pc = "sent", ![j].reply = reply]
          /\ (At(j, "reserved") \/ At(j, "leased"))
      BY <3>1 DEF Sent
    <3> QED BY <3>2, <1>0, <1>f, <1>k DEF rows, outcomes, LaneTyped, Lane, Ok, Serving, Dispatched, Late,
               Lates, Same, Shaped
  <2>6. ASSUME Answer(j) \/ ReleaseSlot(j) PROVE Late(j)'
    BY SMTT(30), <2>6, <1>0, <1>f, <1>k DEF Answer, Move, ReleaseSlot, rows, outcomes, ghosts, LaneTyped,
       Lane, Ok, Serving, Dispatched, Late, Lates, Same, Shaped
  <2>7. ASSUME CancelledSettles(j) PROVE Late(j)'
    BY <2>7, <1>0, <1>f, <1>k DEF CancelledSettles, correctCanceledToSucceeded, Move, Row, rows,
       ghosts, LaneTyped, Lane, OutcomesTyped, Terminal, Corrigible, Ok, Serving, Dispatched, Late,
       Lates, Same, Shaped
  <2>8. ASSUME RecordOutcome(j) PROVE Late(j)'
    <3>1. /\ ranOk' = ranOk /\ dead' = dead /\ header' = header /\ At(j, "released") /\ ~lane[j].cancelled /\ Ok(j)
          /\ lane' = [lane EXCEPT ![j].pc = "clearing"] /\ done'[j].state = "succeeded"
      BY <2>8, <1>0 DEF RecordOutcome, Row, Move, rows, ghosts, OutcomesTyped
    <3>2. /\ lane'[j].pc = "clearing" /\ lane'[j].job = lane[j].job /\ ~lane'[j].cancelled /\ lane'[j].reply = lane[j].reply
      BY <3>1, <1>0 DEF LaneTyped, Lane
    <3> QED BY <3>1, <3>2, <1>k DEF Late, Dispatched, Ok
  <2>9. ASSUME OutcomeRefused(j) PROVE Late(j)'
    BY <2>9, <1>0, <1>f, <1>k DEF OutcomeRefused, Row, Move, rows, ghosts, LaneTyped, Lane, Ok,
       Serving, Dispatched, Late, Lates, Same, Shaped
  <2>10. ASSUME Clear(j) PROVE Late(j)'
    <3>1. /\ ranOk' = ranOk /\ dead' = dead /\ done' = done /\ (At(j, "clearing") \/ At(j, "parked"))
          /\ lane' = [lane EXCEPT ![j].pc = "unleasing"] /\ header'[j].n = 0
      BY <2>10, <1>0, <1>f DEF Clear, clearPending, Move, outcomes, RowsTyped
    <3>2. /\ lane'[j].pc = "unleasing" /\ lane'[j].job = lane[j].job /\ lane'[j].cancelled = lane[j].cancelled
      BY <3>1, <1>0 DEF LaneTyped, Lane
    <3>3. ~lane[j].cancelled /\ <<j, dead[j].n>> \notin ranOk
      BY <3>1, <1>k DEF Late
    <3> QED BY <3>1, <3>2, <3>3, <1>y DEF Dispatched
  <2>11. ASSUME ClearRefused(j) PROVE Late(j)'
    BY <2>11, <1>0, <1>f, <1>k DEF ClearRefused, clearPending, Move, rows, outcomes, LaneTyped,
       Lane, Ok, Serving, Dispatched, Late, Lates, Same, Shaped
  <2>12. ASSUME recordRetry(j) PROVE Late(j)'
    <3>1. /\ ranOk' = ranOk /\ dead' = dead /\ done' = done /\ At(j, "released") /\ ~lane[j].cancelled /\ ~Ok(j)
          /\ lane' = [lane EXCEPT ![j].pc = "unleasing"]
          /\ header' = [header EXCEPT ![j] = [lane[j].job EXCEPT !.due = now + DelayOf(j), !.attempts = AttemptsOf(j)]]
      BY <2>12 DEF recordRetry, Fails, Move, outcomes, ghosts
    <3>2. lane[j].job \in Job /\ Serving(j) /\ Late(j) /\ Same(j) /\ Shaped(j)
      BY <3>1, <1>0, <1>k, LaneFields DEF LaneTyped, Serving, Dispatched
    <3>3. /\ header'[j].n = lane[j].job.n /\ lane'[j].pc = "unleasing" /\ lane'[j].job = lane[j].job
          /\ lane'[j].cancelled = lane[j].cancelled /\ ~lane[j].cancelled
      BY <3>1, <3>2, <1>0 DEF RowsTyped, LaneTyped, Lane, Job, Late
    <3>4. header[j].n = lane[j].job.n /\ Has(header[j]) /\ <<j, header[j].n>> \notin ranOk /\ <<j, dead[j].n>> \notin ranOk
      BY <3>1, <3>2 DEF Same, Late, Serving
    <3> QED BY <3>1, <3>3, <3>4, <1>y DEF Dispatched
  <2>13. ASSUME parkDead(j) PROVE Late(j)'
    <3>1. /\ ranOk' = ranOk /\ header' = header /\ done' = done /\ At(j, "released") /\ ~lane[j].cancelled /\ ~Ok(j)
          /\ lane' = [lane EXCEPT ![j].pc = "parked"] /\ dead'[j].n = lane[j].job.n
      BY <2>13, <1>0 DEF parkDead, Fails, Row, Move, rows, ghosts, OutcomesTyped
    <3>2. header[j].n = lane[j].job.n /\ Has(header[j])
      BY <3>1, <1>k DEF Same, Serving, Dispatched
    <3>3. <<j, header[j].n>> \notin ranOk
      BY <3>1, <3>2, <1>k DEF Late
    <3> QED BY <3>1, <3>2, <3>3, <1>0, <1>k, <1>y DEF LaneTyped, Lane, Dispatched
  <2>14. ASSUME Unlease(j) PROVE Late(j)'
    BY <2>14, <1>0, <1>f, <1>k DEF Unlease, Free, IdleLane, NoJob, outcomes, ghosts, LaneTyped,
       Lane, Ok, Serving, Dispatched, Late, Lates, Same, Shaped
  <2>15. ASSUME LaneFault(j) PROVE Late(j)'
    BY <2>15, <1>0, <1>f, <1>k DEF LaneFault, rows, outcomes, ghosts, LaneTyped, Lane, NextInLine,
       Fails, Ok, Serving, Dispatched, Late, Lates, Same, Shaped
  <2>16. ASSUME Catch(j) PROVE Late(j)'
    BY <2>16, <1>0, <1>f, <1>k DEF Catch, CatchWrites, Free, NoJob, IdleLane, outcomes, LaneTyped,
       Lane, RowsTyped, Job, Ok, Serving, Dispatched, Late, Lates, Same, Shaped
  <2>17. ASSUME Disconnect(j) PROVE Late(j)'
    BY <2>17, <1>0, <1>f, <1>k DEF Disconnect, rows, outcomes, ghosts, LaneTyped, Lane, Ok, Serving,
       Dispatched, Late, Lates, Same, Shaped
  <2>18. Late(j)'
    BY <1>12, <2>1, <2>2, <2>3, <2>4, <2>5, <2>6, <2>7, <2>8, <2>9, <2>10, <2>11, <2>12, <2>13, <2>14,
       <2>15, <2>16, <2>17 DEF Drain, Dispatch
  <2>19. ASSUME NEW h \in Id \ {j} PROVE Late(h)'
    BY <2>0, <1>k DEF Framed, Late, Dispatched, Ok
  <2> QED BY <2>19, <2>18 DEF Lates
<1>13. ASSUME NEW k \in running, NEW result \in {"ok", "error"}, RunEnds(k, result) PROVE Lates'
  <2>1. /\ k = <<k[1], k[2]>> /\ k[1] \in Id /\ k[2] \in Nat
        /\ At(k[1], "sent") /\ lane[k[1]].reply = "running" /\ lane[k[1]].job.n = k[2]
    BY <1>0, <1>k DEF TypeOK, WorldTyped, Slotted
  <2>2. /\ UNCHANGED <<header, dead, done>> /\ lane' = [lane EXCEPT ![k[1]].reply = result]
        /\ ranOk' = IF result = "ok" THEN ranOk \cup {k} ELSE ranOk
    BY <1>13, <2>1 DEF RunEnds, Awaited, rows, outcomes
  <2>3. ASSUME NEW h \in Id \ {k[1]} PROVE Late(h)'
    <3>1. lane'[h] = lane[h] /\ \A n \in Nat : <<h, n>> \in ranOk' <=> <<h, n>> \in ranOk
      BY <2>1, <2>2, <1>0 DEF LaneTyped
    <3> QED BY <2>2, <3>1, <1>f, <1>k DEF Late, Dispatched, Ok
  <2>4. Late(k[1])'
    <3> DEFINE h == k[1]
    <3>1. /\ lane'[h].pc = "sent" /\ lane'[h].reply = result /\ lane'[h].job = lane[h].job
          /\ lane'[h].cancelled = lane[h].cancelled
      BY <2>1, <2>2, <1>0 DEF LaneTyped, Lane
    <3>2. \A n \in Nat : <<h, n>> \in ranOk' <=> <<h, n>> \in ranOk \/ (result = "ok" /\ n = k[2])
      BY <2>1, <2>2
    <3>3. Late(h) /\ Same(h) /\ Shaped(h) /\ h \in Id
      BY <2>1, <1>k
    <3>4. ~Ok(h) /\ Dispatched(h) /\ Has(lane[h].job) /\ lane[h].job.n = k[2]
      BY <2>1, <3>3 DEF Ok, Dispatched, Same
    <3>5. (~lane[h].cancelled => header[h].n = k[2]) /\ (Has(header[h]) => ~Has(dead[h]))
      BY <2>1, <3>3, <3>4 DEF Same, Serving, Shaped
    <3> QED BY <2>2, <3>1, <3>2, <3>3, <3>4, <3>5, <1>f DEF Late, Dispatched, Ok
  <2> QED BY <2>3, <2>4 DEF Lates
<1>14. CASE UNCHANGED vars
  BY <1>14, <1>0, <1>f, <1>k DEF vars, rows, outcomes, volatile, ghosts, Ok, Serving, Dispatched,
     Late, Lates
<1> QED
  BY <1>1, <1>2, <1>3, <1>4, <1>5, <1>6, <1>7, <1>8, <1>9, <1>10, <1>11, <1>12, <1>13, <1>14 DEF
     Next, Request, Alarm, Trouble

(* Where no instance is lost, no call fails and every write lands, a job that reads "canceled" once *)
(* its lane ended never ran: the run that beats its cancel is corrected (correctCanceledToSucceeded). *)
THEOREM CanceledStays ==
    MaxCrashes = 0 /\ MaxFaults = 0 /\ MaxLosses = 0 /\ Spec => []CanceledNeverRan
<1> SUFFICES ASSUME MaxCrashes = 0, MaxFaults = 0, MaxLosses = 0 PROVE Spec => []CanceledNeverRan
  OBVIOUS
<1>1. Init => Slots /\ Lates
  BY DEF Init, Slots, Slotted, Lates, Late, IdleLane, NoRow
<1>2. Calm /\ Slots /\ Lates /\ [Next]_vars => Slots' /\ Lates'
  BY SlotsStep, LatesStep DEF Calm, Told, Serve
<1>3. Lates => CanceledNeverRan
  BY DEF Lates, Late, Dispatched, CanceledNeverRan
<1> QED BY <1>1, <1>2, <1>3, Calms, PTL DEF Spec
-----------------------------------------------------------------------------
(* Every attempt the header counts was a failure that is charged; a header is within its budget, *)
(* and a dead letter is beyond it.                                                               *)
Spent(j) ==
    /\ header[j].attempts <= charged[j]
    /\ j \notin Forever => header[j].attempts <= Budget[j]
    /\ Has(dead[j]) => j \notin Forever /\ charged[j] > Budget[j]
Spending == now <= MaxClock /\ \A j \in Id : Spent(j)

(* No backoff leads beyond the largest time that can be indexed, so long as the clock runs. *)
Indexable == \A j \in Id, k \in 0..AttemptCap : /\ MaxClock + Delay[j][k] <= MaxIndexable
                                                /\ MaxClock + RetryBase <= MaxIndexable

(* A failed attempt is written back, one more, or it was the last (recordRetry, recordDeadLetter). *)
LEMMA SpendingStep ==
    MaxCrashes = 0 /\ MaxFaults = 0 /\ Indexable /\ Calm /\ Spending /\ [Next]_vars => Spending'
<1> SUFFICES ASSUME MaxCrashes = 0, MaxFaults = 0, Indexable, Calm, Spending, [Next]_vars PROVE Spending'
  OBVIOUS
<1>0. /\ Draining /\ SameJob /\ Shape /\ Spending /\ TypeOK /\ LaneTyped /\ RowsTyped /\ OutcomesTyped /\ ~Trouble
      /\ faults \in Nat /\ MaxFaults = 0 /\ now \in Nat /\ charged \in [Id -> Nat]
  BY NoTrouble DEF Calm, Told, Serve, Inv, TypeOK, BoundsTyped, ClockTyped, GhostsTyped
<1>f. /\ \A h \in Id : /\ header[h].n \in Nat /\ dead[h].n \in Nat /\ header[h].attempts \in Nat /\ charged[h] \in Nat
                       /\ Budget[h] \in Nat /\ lane[h].job \in Job /\ lane[h].job.attempts \in 0..AttemptCap
      /\ NoJob.n = 0 /\ NoJob.attempts = 0 /\ NoRow.n = 0 /\ AttemptCap \in Nat /\ RetryBase \in Nat
      /\ MaxClock \in Nat /\ MaxIndexable \in Nat
  BY <1>0, JobFields, TerminalFields, LaneFields, TimesTyped, ConstantsAssumption
     DEF RowsTyped, OutcomesTyped, LaneTyped, NoJob, NoRow, ConstantsAssumption
<1>k. \A h \in Id : Spent(h) /\ Shaped(h)
  BY <1>0 DEF Spending, Shape
<1>p. ASSUME now' <= MaxClock, charged' = charged,
             \A h \in Id : /\ header'[h].attempts \in {0, header[h].attempts}
                           /\ dead'[h].n \in {0, dead[h].n}
      PROVE  Spending'
  <2>1. ASSUME NEW h \in Id PROVE Spent(h)'
    BY <1>p, <1>f, <1>k DEF Spent
  <2> QED BY <2>1, <1>p DEF Spending
<1>n. now' = now => now' <= MaxClock
  BY <1>0 DEF Spending
<1>h. ASSUME NEW i \in Id, charged' = [charged EXCEPT ![i] = 0], header'[i].attempts = 0, dead'[i].n = 0,
             \A h \in Id \ {i} : header'[h] = header[h] /\ dead'[h] = dead[h], now' = now
      PROVE  Spending'
  <2>1. charged'[i] = 0 /\ \A h \in Id \ {i} : charged'[h] = charged[h]
    BY <1>h, <1>0
  <2>2. ASSUME NEW h \in Id \ {i} PROVE Spent(h)'
    BY <1>h, <2>1, <1>k DEF Spent
  <2>3. Spent(i)'
    BY <1>h, <2>1, <1>f DEF Spent
  <2> QED BY <2>2, <2>3, <1>h, <1>n DEF Spending
<1>1. CASE Boot
  <2>1. UNCHANGED <<header, dead, charged, now>>
    BY <1>1, <1>0, RestoredRows DEF Shape, Shaped, Boot, rows, reindexWalk, restoreOutcome, Repairable, RowsTyped, ghosts, bounds
  <2> QED BY <2>1, <1>n, <1>p
<1>2. CASE Schedule
  <2>1. PICK i \in Id, due \in Dues, cap \in Caps : handleSchedule(i, due, cap)
    BY <1>2 DEF Schedule
  <2>2. /\ header' = [header EXCEPT ![i] = [n |-> jobs[i] + 1, due |-> due, attempts |-> 0]]
        /\ ~Has(dead[i]) /\ dead' = dead /\ now' = now /\ charged' = [charged EXCEPT ![i] = 0]
    BY <1>2, <2>1 DEF Schedule, handleSchedule, bounds
  <2>3. header'[i].attempts = 0 /\ \A h \in Id \ {i} : header'[h] = header[h]
    BY <2>2, <1>0 DEF RowsTyped
  <2> QED BY <2>2, <2>3, <1>h
<1>3. CASE handleComplete \/ Resume \/ Pause \/ AlarmPaused \/ CompleteLost \/ AlarmIdle \/
   AlarmDrain \/ EndDrain
  BY <1>3, <1>0, <1>f, <1>n, <1>p DEF handleComplete, Resume, Pause, AlarmPaused, CompleteLost,
     AlarmIdle, AlarmDrain, EndDrain, rows, outcomes, bounds, ghosts, Spending
<1>4. ASSUME NEW j \in Id, handleCancel(j) PROVE Spending'
  <2>1. header' = [header EXCEPT ![j] = NoJob] /\ dead' = dead /\ charged' = charged /\ now' = now
    BY <1>4 DEF handleCancel, removeRecord, outcomes, bounds, ghosts
  <2>2. \A h \in Id : header'[h].attempts \in {0, header[h].attempts}
    BY <2>1, <1>0, <1>f DEF RowsTyped
  <2> QED BY <2>1, <2>2, <1>n, <1>p
<1>5. ASSUME NEW j \in Id, CancelFinished(j) PROVE Spending'
  <2>1. header' = [header EXCEPT ![j] = NoJob] /\ dead' = dead /\ charged' = charged /\ now' = now
    BY <1>5 DEF CancelFinished, removeRecord, outcomes, bounds, ghosts
  <2>2. \A h \in Id : header'[h].attempts \in {0, header[h].attempts}
    BY <2>1, <1>0, <1>f DEF RowsTyped
  <2> QED BY <2>1, <2>2, <1>n, <1>p
<1>6. ASSUME NEW j \in Id, handleDeadRetry(j) PROVE Spending'
  <2>1. /\ header' = [header EXCEPT ![j] = [n |-> dead[j].n, due |-> now, attempts |-> 0]]
        /\ dead' = [dead EXCEPT ![j] = NoRow] /\ now' = now /\ charged' = [charged EXCEPT ![j] = 0]
    BY <1>6 DEF handleDeadRetry, revive, bounds
  <2>2. /\ header'[j].attempts = 0 /\ dead'[j].n = 0
        /\ \A h \in Id \ {j} : header'[h] = header[h] /\ dead'[h] = dead[h]
    BY <2>1, <1>0, <1>f DEF RowsTyped, OutcomesTyped
  <2> QED BY <2>1, <2>2, <1>h
<1>7. ASSUME NEW j \in Id, handleDeadCancel(j) PROVE Spending'
  <2>1. header' = header /\ charged' = charged /\ now' = now /\ dead' = [dead EXCEPT ![j] = NoRow]
    BY <1>7 DEF handleDeadCancel, rows, ghosts, bounds
  <2>2. \A h \in Id : dead'[h].n \in {0, dead[h].n}
    BY <2>1, <1>0, <1>f DEF OutcomesTyped
  <2> QED BY <2>1, <2>2, <1>n, <1>p
<1>8. CASE Trouble
  BY <1>8, <1>0
<1>9. CASE Tick
  <2>1. UNCHANGED <<header, dead, charged>> /\ now' <= MaxClock
    BY <1>9 DEF Tick, rows, outcomes, ghosts
  <2> QED BY <2>1, <1>p
<1>10. ASSUME NEW j \in Id, Drain(j) \/ Disconnect(j) PROVE Spending'
  <2>0. Framed(j)
    BY <1>10, <1>0, LaneFrame
  <2>1. ASSUME charged'[j] \in Nat, \A h \in Id \ {j} : charged'[h] = charged[h], Spent(j)' PROVE Spending'
    <3>1. ASSUME NEW h \in Id \ {j} PROVE Spent(h)'
      BY <2>0, <2>1, <1>k DEF Framed, Spent
    <3> QED BY <2>0, <2>1, <3>1, <1>n DEF Framed, Spending
  <2>2. ASSUME charged' = charged, header'[j].attempts \in {0, header[j].attempts}, dead'[j].n \in {0, dead[j].n}
        PROVE  Spending'
    BY <2>0, <2>2, <1>n, <1>p DEF Framed
  <2>3. ASSUME recordRetry(j) \/ parkDead(j) PROVE Spending'
    <3>1. /\ Fails(j) /\ charge(j) /\ header[j] = lane[j].job
      BY <2>3, <1>k DEF recordRetry, parkDead, Fails, Shaped, Serving, Dispatched
    <3>2. /\ charged'[j] = (IF Charged(j) THEN charged[j] + 1 ELSE charged[j])
          /\ \A h \in Id \ {j} : charged'[h] = charged[h]
      BY <3>1, <1>0 DEF charge, Charged
    <3>3. /\ AttemptsOf(j) \in Nat /\ AttemptsOf(j) <= charged'[j]
          /\ AttemptsOf(j) # lane[j].job.attempts => charged'[j] > header[j].attempts /\ AttemptsOf(j) = header[j].attempts + 1
      BY <3>1, <3>2, <1>f, <1>k DEF AttemptsOf, Spent
    <3>4. now + DelayOf(j) <= MaxIndexable
      <4>1. /\ Delay[j][lane[j].job.attempts] \in Nat
            /\ MaxClock + Delay[j][lane[j].job.attempts] <= MaxIndexable /\ MaxClock + RetryBase <= MaxIndexable
        BY <1>f, DelayTyped DEF Indexable
      <4> QED BY <4>1, <1>0, <1>f DEF DelayOf, Spending
    <3>5. CASE recordRetry(j)
      <4>1. /\ header' = [header EXCEPT ![j] = [lane[j].job EXCEPT !.due = now + DelayOf(j), !.attempts = AttemptsOf(j)]]
            /\ dead' = dead /\ ~Exhausted(j)
        BY <3>5 DEF recordRetry, outcomes
      <4>2. header'[j].attempts = AttemptsOf(j)
        BY <4>1, <1>0, <1>f DEF RowsTyped, Job
      <4>3. j \notin Forever => AttemptsOf(j) <= Budget[j]
        BY <4>1, <3>3, <1>f DEF Exhausted
      <4>4. ~Has(dead[j])
        <5>1. Same(j) /\ Has(header[j]) /\ ~At(j, "parked")
          BY <3>1, <1>0 DEF SameJob, Same, Fails
        <5> QED BY <5>1, <1>k DEF Shaped
      <4> QED BY <2>1, <3>2, <3>3, <4>1, <4>2, <4>3, <4>4, <1>f DEF Spent
    <3>6. CASE parkDead(j)
      <4>1. header' = header /\ Exhausted(j)
        BY <3>6 DEF parkDead, rows
      <4>2. j \notin Forever /\ AttemptsOf(j) > Budget[j]
        <5>1. DelayOf(j) \in Nat
          BY RetryTyped, <1>0
        <5> QED BY <4>1, <3>4, <5>1, <1>0, <1>f DEF Exhausted
      <4> QED BY <2>1, <3>1, <3>2, <3>3, <4>1, <4>2, <1>f, <1>k DEF Spent
    <3> QED BY <2>3, <3>5, <3>6
  <2>4. ASSUME requeuePooled(j) PROVE Spending'
    <3>1. /\ header' = [header EXCEPT ![j] = [lane[j].job EXCEPT !.due = now + Backpressure]]
          /\ dead' = dead /\ charged' = charged /\ header[j] = lane[j].job
      BY <2>4, <1>k DEF requeuePooled, outcomes, ghosts, Shaped, Serving
    <3>2. header'[j].attempts = header[j].attempts
      BY <3>1, <1>0, <1>f DEF RowsTyped, Job
    <3> QED BY <2>2, <3>1, <3>2
  <2>5. ASSUME Clear(j) PROVE Spending'
    <3>1. header' = [header EXCEPT ![j] = NoJob] /\ dead' = dead /\ charged' = charged
      BY <2>5 DEF Clear, clearPending, outcomes
    <3> QED BY <2>2, <3>1, <1>0, <1>f DEF RowsTyped
  <2>6. ASSUME ~recordRetry(j), ~parkDead(j), ~requeuePooled(j), ~Clear(j)
        PROVE  UNCHANGED <<header, dead, charged>>
    <3>1. ~LaneFault(j) /\ ~Catch(j) /\ ~ClearRefused(j)
      BY <1>0, <1>k DEF LaneFault, Catch, ClearRefused, Shaped
    <3> QED BY <1>10, <2>6, <3>1 DEF Drain, Dispatch, Disconnect, ClaimGone, ClaimSkipped, Claim, PutLease,
       Reserve, Refuse, Send, SendAnswered, SendDeclined, SendLost, Sent, Answer, ReleaseSlot,
       CancelledSettles, RecordOutcome, OutcomeRefused, Unlease, rows, outcomes, ghosts
  <2> QED BY <2>2, <2>3, <2>4, <2>5, <2>6
<1>11. ASSUME NEW k \in running, NEW result \in {"ok", "error"}, RunEnds(k, result) PROVE Spending'
  BY <1>11, <1>0, <1>f, <1>n, <1>p DEF RunEnds, rows, outcomes, bounds, Spending
<1>12. CASE UNCHANGED vars
  BY <1>12, <1>0, <1>f, <1>n, <1>p DEF vars, rows, outcomes, bounds, ghosts, Spending
<1> QED
  BY <1>1, <1>2, <1>3, <1>4, <1>5, <1>6, <1>7, <1>8, <1>9, <1>10, <1>11, <1>12 DEF Next, Request,
     Alarm, Trouble

(* Where no instance is lost, every write lands and every backoff can be indexed, a dead letter has *)
(* spent its whole budget on failed attempts, declined deliveries not counted (recordRetry).        *)
THEOREM DeadHaveSpent ==
    MaxCrashes = 0 /\ MaxFaults = 0 /\ Indexable /\ Spec => []DeadOnlyWhenSpent
<1> SUFFICES ASSUME MaxCrashes = 0, MaxFaults = 0, Indexable PROVE Spec => []DeadOnlyWhenSpent
  OBVIOUS
<1>1. Init => Spending
  BY ConstantsAssumption DEF Init, Spending, Spent, NoJob, NoRow, ConstantsAssumption
<1>2. Calm /\ Spending /\ [Next]_vars => Spending'
  BY SpendingStep
<1>3. Spending => DeadOnlyWhenSpent
  BY DEF Spending, Spent, DeadOnlyWhenSpent
<1> QED BY <1>1, <1>2, <1>3, Calms, PTL DEF Spec
=============================================================================
