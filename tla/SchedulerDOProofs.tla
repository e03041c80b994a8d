-------------------------- MODULE SchedulerDOProofs --------------------------
(***************************************************************************)
(* Proofs about SchedulerDO for every value of its constants: the type     *)
(* invariant, then that a cancelled job is neither sent nor written back,  *)
(* and that nothing is sent while the deployment is paused.                *)
(***************************************************************************)
EXTENDS SchedulerDO, LeastElement

USE DEF Ix, Key, At, Has

(* The least of some alarm times is one of them. *)
LEMMA EarliestTyped ==
    ASSUME NEW times, times \subseteq Nat \cup {NoAlarm}
    PROVE  Earliest(times) \subseteq Nat \cup {NoAlarm}
BY DEF Earliest

(* Absent rows and idle lanes are of their types. *)
LEMMA RowTyped == NoRow \in Terminal /\ NoJob \in Job /\ IdleLane \in Lane
BY ConstantsAssumption DEF NoRow, NoJob, IdleLane, Terminal, Job, Lane, LanePc, Reply, ConstantsAssumption

(* The sweep of the history keeps its types (sweepTerminalBatch). *)
LEMMA SweptTyped ==
    ASSUME NEW d \in [Id -> Terminal], NEW h, h \subseteq Nat \X Id
    PROVE  SweptDone(d, h) \in [Id -> Terminal] /\ SweptHistory(h) \subseteq Nat \X Id
BY RowTyped DEF SweptDone, SweptHistory

(* A selected record is claimed under one of its due rows. *)
LEMMA ClaimTyped ==
    ASSUME TypeOK, NEW j \in Selected
    PROVE  ClaimTime(j) \in DueTimes(j) /\ ClaimTime(j) \in Nat
<1>1. DueTimes(j) \subseteq Nat /\ DueTimes(j) # {}
  BY DEF Selected, DueTimes, Due, TypeOK, RowsTyped
<1>2. \E t \in DueTimes(j) : \A u \in DueTimes(j) : t <= u
  BY <1>1, LeastExists
<1> QED BY <1>1, <1>2 DEF ClaimTime

(* An outcome row written with a number and a time is a terminal record. *)
LEMMA TerminalTyped ==
    ASSUME NEW n \in Nat, NEW at \in Nat, NEW state \in {"succeeded", "canceled", "failed"}
    PROVE  Row(n, at, state) \in Terminal
BY DEF Row, Terminal

(* What the fields of a header are. *)
LEMMA JobFields == \A r \in Job : r.n \in Nat /\ r.due \in Nat /\ r.attempts \in 0..AttemptCap
BY DEF Job

(* What the fields of an outcome row are. *)
LEMMA TerminalFields == \A r \in Terminal : r.n \in Nat /\ r.at \in Nat
BY DEF Terminal

(* What the fields of a lane are. *)
LEMMA LaneFields == \A l \in Lane : /\ l.job \in Job /\ l.claim \in Nat /\ l.lease \in Nat
                                  /\ l.reply \in Reply /\ l.cancelled \in BOOLEAN
BY DEF Lane, LaneTyped

(* Moving a lane along, or noting a reply or a cancellation in it, keeps its type. *)
LEMMA MoveTyped ==
    ASSUME LaneTyped, NEW j \in Id, NEW pc \in LanePc, NEW reply \in Reply
    PROVE  /\ [lane EXCEPT ![j].pc = pc] \in [Id -> Lane]
           /\ [lane EXCEPT ![j].reply = reply] \in [Id -> Lane]
           /\ [lane EXCEPT ![j].pc = pc, ![j].reply = reply] \in [Id -> Lane]
           /\ [lane EXCEPT ![j] = IdleLane] \in [Id -> Lane]
BY RowTyped DEF Lane, LaneTyped

(* A lane that moves on with a new lease keeps its type. *)
LEMMA LeaseTyped ==
    ASSUME LaneTyped, NEW j \in Id, NEW pc \in LanePc, NEW lease \in Nat
    PROVE  [lane EXCEPT ![j].pc = pc, ![j].lease = lease] \in [Id -> Lane]
BY DEF Lane, LaneTyped

(* What the assumption says of the timing constants. *)
LEMMA TimesTyped ==
    /\ Lease \in Nat /\ TickStep \in Nat /\ Backpressure \in Nat /\ RetryBase \in Nat
    /\ AttemptCap \in Nat /\ 0 \in 0..AttemptCap
BY ConstantsAssumption DEF ConstantsAssumption
(* What a caller may choose. *)
LEMMA InputsTyped == (\A due \in Dues : due \in Nat) /\ (\A cap \in Caps : cap \in Nat \ {0})
BY ConstantsAssumption DEF ConstantsAssumption
(* What a backoff is. *)
LEMMA DelayTyped == \A j \in Id, k \in 0..AttemptCap : Delay[j][k] \in Nat
BY ConstantsAssumption DEF ConstantsAssumption

(* Marking a lane as cancelled keeps its type (handleCancel). *)
LEMMA CancelTyped ==
    ASSUME LaneTyped, NEW j \in Id, MarkCancelled(j) PROVE LaneTyped'
BY DEF MarkCancelled, LaneTyped, Lane

(* The worker's calls outlive the instance that waits for them. *)
LEMMA DetachedTyped ==
    ASSUME NEW cs, cs \subseteq Id \X {"awaited", "stray"}
    PROVE  Detached(cs) \subseteq Id \X {"awaited", "stray"}
BY DEF Detached

(* A row written for an id, with or without the sweep that follows it. *)
LEMMA RecordedTyped ==
    ASSUME OutcomesTyped, NEW j \in Id, NEW row \in Terminal, NEW at \in Nat
    PROVE  LET d == [done EXCEPT ![j] = row]
               h == history \cup {Ix(at, j)}
           IN  /\ d \in [Id -> Terminal] /\ SweptDone(d, h) \in [Id -> Terminal]
               /\ h \subseteq Nat \X Id /\ SweptHistory(h) \subseteq Nat \X Id
<1> DEFINE d == [done EXCEPT ![j] = row]
           h == history \cup {Ix(at, j)}
<1>1. d \in [Id -> Terminal] /\ h \subseteq Nat \X Id
  BY DEF OutcomesTyped
<1> HIDE DEF d, h
<1>2. SweptDone(d, h) \in [Id -> Terminal] /\ SweptHistory(h) \subseteq Nat \X Id
  BY <1>1, SweptTyped
<1> QED BY <1>1, <1>2 DEF d, h

(* The outcome row of a cancel, written or refused, and the sweep that follows it. *)
LEMMA CanceledTyped ==
    ASSUME RowsTyped, OutcomesTyped, ClockTyped, NEW j \in Id, NEW refusals, writeCanceled(j, refusals)
    PROVE  done' \in [Id -> Terminal] /\ history' \subseteq Nat \X Id
<1>1. now \in Nat /\ Row(header[j].n, now, "canceled") \in Terminal
  BY JobFields, TerminalTyped DEF RowsTyped, ClockTyped
<1>2. /\ SweptDone(done, history) \in [Id -> Terminal]
      /\ SweptHistory(history) \subseteq Nat \X Id
  BY SweptTyped DEF OutcomesTyped
<1> QED BY <1>1, <1>2, RecordedTyped DEF writeCanceled, CanceledRow, CanceledList

(* A handler that is stopped leaves memory, world and counters typed, and the clock as it was. *)
LEMMA StoppedTyped ==
    ASSUME WorldTyped, ClockTyped, BoundsTyped, LaneTyped, Stopped
    PROVE  /\ WorldTyped' /\ LaneTyped'
           /\ up' \in BOOLEAN /\ dirty' \in BOOLEAN /\ pass' \in [on: BOOLEAN, since: Nat]
           /\ now' = now /\ crashes' \in Nat /\ faults' \in Nat /\ losses' \in Nat
<1>1. CASE Die
  <2>1. WorldTyped' /\ LaneTyped'
    BY <1>1, DetachedTyped, RowTyped DEF Die, WorldTyped, LaneTyped
  <2>2. up' \in BOOLEAN /\ dirty' \in BOOLEAN /\ pass' \in [on: BOOLEAN, since: Nat]
    BY <1>1 DEF Die
  <2>3. now' = now /\ crashes' \in Nat /\ faults' \in Nat /\ losses' \in Nat
    BY <1>1 DEF Die, BoundsTyped
  <2> QED BY <2>1, <2>2, <2>3
<1>2. CASE Refused
  <2>1. UNCHANGED <<up, dirty, pass, lane, running, calls, now, crashes, losses>>
    BY <1>2 DEF Refused, volatile, world
  <2>2. faults' \in Nat
    BY <1>2 DEF Refused, BoundsTyped
  <2> QED BY <2>1, <2>2 DEF WorldTyped, ClockTyped, BoundsTyped, LaneTyped
<1> QED BY <1>1, <1>2 DEF Stopped

(* It leaves every lane as it was, or none. *)
LEMMA StoppedLanes == Stopped => lane' = lane \/ lane' = [h \in Id |-> IdleLane]
BY DEF Stopped, Die, Refused, volatile

(* Rows that are in the store without an alarm: the handler was stopped. *)
LEMMA NotArmedStops ==
    ASSUME GhostsTyped, NotArmed PROVE Stopped /\ alarm' = alarm /\ unarmed' \in BOOLEAN
BY DEF NotArmed, Stopped, GhostsTyped

(* The recomputed alarm is a time or none (rescheduleAlarm). *)
LEMMA RescheduleTyped ==
    ASSUME RowsTyped', rescheduleAlarm PROVE alarm' \in Nat \cup {NoAlarm}
<1>1. Times(index') \subseteq Nat
  BY DEF RowsTyped, Times
<1> QED BY <1>1, EarliestTyped DEF rescheduleAlarm

(* The alarm that recovery arms is a time or none (recoverStore). *)
LEMMA BootTyped ==
    ASSUME RowsTyped, ClockTyped, RowsTyped', Boot PROVE alarm' \in Nat \cup {NoAlarm}
<1> DEFINE armed == {header[j].due : j \in IF clean THEN {} ELSE Orphans} \cup {alarm}
<1>1. armed \subseteq Nat \cup {NoAlarm}
  BY JobFields DEF RowsTyped, ClockTyped, Orphans
<1>2. Times(index') \subseteq Nat
  BY DEF RowsTyped, Times
<1>3. alarm' \in Earliest(IF armed = {NoAlarm} THEN Times(index') ELSE armed)
  BY DEF Boot, recoverClock
<1> HIDE DEF armed
<1> QED BY <1>1, <1>2, <1>3, EarliestTyped

(* An answer that arrives keeps the type of its lane. *)
LEMMA ReplyTyped ==
    ASSUME LaneTyped, NEW i \in Id, NEW result \in {"ok", "error"}
    PROVE  [lane EXCEPT ![i].reply = result] \in [Id -> Lane]
BY DEF LaneTyped, Lane, Reply

(* The alarm that a resume arms is a time or none (handleSetPause). *)
LEMMA ResumeTyped ==
    ASSUME RowsTyped, ClockTyped, resumedAlarm PROVE alarm' \in Nat \cup {NoAlarm}
<1>1. Times(index) \subseteq Nat
  BY DEF RowsTyped, Times
<1> QED BY <1>1, EarliestTyped DEF resumedAlarm, ClockTyped

(* A retry stays within the attempt range and has a delay (recordRetry). *)
LEMMA RetryTyped ==
    ASSUME LaneTyped, NEW j \in Id PROVE AttemptsOf(j) \in 0..AttemptCap /\ DelayOf(j) \in Nat
<1>1. lane[j].job.attempts \in 0..AttemptCap
  BY LaneFields, JobFields DEF LaneTyped
<1>2. AttemptsOf(j) \in 0..AttemptCap
  BY <1>1, TimesTyped DEF AttemptsOf
<1>3. DelayOf(j) \in Nat
  BY <1>1, DelayTyped, TimesTyped DEF DelayOf
<1> QED BY <1>2, <1>3

(* Every step keeps the types. *)
LEMMA TypeStep == TypeOK /\ [Next]_vars => TypeOK'
<1> SUFFICES ASSUME TypeOK, [Next]_vars PROVE TypeOK'
  OBVIOUS
<1> USE DEF TypeOK
<1>1. CASE Boot
  <2>1. RowsTyped'
    BY <1>1, RowTyped, JobFields
    DEF Boot, reindexWalk, restoreOutcome, Superseded, Orphans, Repairable, RowsTyped, rows
  <2>2. OutcomesTyped'
    BY <1>1, RowTyped, TerminalFields
    DEF Boot, reindexWalk, restoreOutcome, Superseded, Orphans, Repairable, OutcomesTyped, outcomes
  <2>3. ClockTyped'
    BY <1>1, BootTyped, <2>1
    DEF Boot, ClockTyped, flags, volatile, bounds
  <2>4. PoolTyped' /\ WorldTyped' /\ BoundsTyped' /\ LaneTyped' /\ GhostsTyped'
    BY <1>1
    DEF Boot, PoolTyped, WorldTyped, BoundsTyped, LaneTyped, GhostsTyped, world, bounds, volatile, ghosts
  <2> QED BY <2>1, <2>2, <2>3, <2>4
<1>2. CASE BootCut
  <2>1. RowsTyped'
    BY <1>2, RowTyped, JobFields
    DEF BootCut, reindexWalk, restoreOutcome, Superseded, Orphans, Repairable, RowsTyped, rows
  <2>2. OutcomesTyped'
    BY <1>2, RowTyped, TerminalFields
    DEF BootCut, reindexWalk, restoreOutcome, Superseded, Orphans, Repairable, OutcomesTyped, outcomes
  <2>3. ClockTyped'
    <3>1. clean' \in BOOLEAN
      BY <1>2 DEF BootCut
    <3>2. alarm' \in Nat \cup {NoAlarm}
      BY <1>2, EarliestTyped, JobFields DEF BootCut, Orphans, RowsTyped, ClockTyped
    <3>3. UNCHANGED <<paused, volatile, now>>
      BY <1>2 DEF BootCut
    <3> QED BY <3>1, <3>2, <3>3 DEF ClockTyped, volatile
  <2>4. BoundsTyped'
    BY <1>2
    DEF BootCut, BoundsTyped, bounds
  <2>5. PoolTyped' /\ WorldTyped' /\ LaneTyped' /\ GhostsTyped'
    BY <1>2
    DEF BootCut, PoolTyped, WorldTyped, LaneTyped, GhostsTyped, world, volatile, ghosts
  <2> QED BY <2>1, <2>2, <2>3, <2>4, <2>5
<1>3. CASE Schedule
  <2>1. RowsTyped'
    BY <1>3, TimesTyped, InputsTyped
    DEF Schedule, handleSchedule, dropOutcome, Job, BoundsTyped, RowsTyped, rows
  <2>2. OutcomesTyped'
    BY <1>3, RowTyped
    DEF Schedule, handleSchedule, dropOutcome, OutcomesTyped, outcomes
  <2>3. PoolTyped'
    BY <1>3, InputsTyped
    DEF Schedule, handleSchedule, PoolTyped
  <2>4. ClockTyped'
    BY <1>3, EarliestTyped, InputsTyped
    DEF Schedule, armAlarmIfEarlier, handleSchedule, ClockTyped, flags, volatile, bounds
  <2>5. BoundsTyped'
    BY <1>3
    DEF Schedule, handleSchedule, BoundsTyped, bounds
  <2>6. GhostsTyped'
    BY <1>3
    DEF Schedule, handleSchedule, GhostsTyped, ghosts
  <2>7. WorldTyped' /\ LaneTyped'
    BY <1>3
    DEF Schedule, handleSchedule, WorldTyped, LaneTyped, world, volatile
  <2> QED BY <2>1, <2>2, <2>3, <2>4, <2>5, <2>6, <2>7
<1>4. CASE ScheduleCut
  <2>0. Stopped /\ alarm' = alarm /\ unarmed' \in BOOLEAN
    BY <1>4, NotArmedStops DEF ScheduleCut
  <2>1. RowsTyped'
    BY <1>4, TimesTyped, InputsTyped
    DEF ScheduleCut, handleSchedule, dropOutcome, Job, BoundsTyped, RowsTyped
  <2>2. OutcomesTyped'
    BY <1>4, RowTyped DEF ScheduleCut, handleSchedule, dropOutcome, OutcomesTyped
  <2>3. PoolTyped'
    BY <1>4, InputsTyped DEF ScheduleCut, handleSchedule, PoolTyped
  <2>4. ClockTyped'
    BY <1>4, <2>0, StoppedTyped DEF ScheduleCut, handleSchedule, ClockTyped, flags
  <2>5. BoundsTyped'
    BY <1>4, <2>0, StoppedTyped DEF ScheduleCut, handleSchedule, BoundsTyped
  <2>6. GhostsTyped'
    BY <1>4, <2>0 DEF ScheduleCut, handleSchedule, GhostsTyped
  <2> QED BY <2>0, <2>1, <2>2, <2>3, <2>4, <2>5, <2>6, StoppedTyped
<1>5. ASSUME NEW j \in Id, handleCancel(j) PROVE TypeOK'
  <2>1. RowsTyped'
    BY <1>5, RowTyped
    DEF handleCancel, removeRecord, RowsTyped, rows
  <2>2. OutcomesTyped'
    <3>1. done' \in [Id -> Terminal] /\ history' \subseteq Nat \X Id
      BY <1>5, CanceledTyped DEF handleCancel
    <3>2. UNCHANGED <<dead, repair>>
      BY <1>5 DEF handleCancel
    <3> QED BY <3>1, <3>2 DEF OutcomesTyped
  <2>3. ClockTyped'
    BY <1>5, RescheduleTyped, <2>1
    DEF handleCancel, ClockTyped, flags, volatile, bounds
  <2>4. BoundsTyped'
    BY <1>5
    DEF handleCancel, writeCanceled, BoundsTyped, bounds
  <2>5. LaneTyped'
    BY <1>5, CancelTyped
    DEF handleCancel, LaneTyped, volatile
  <2>6. GhostsTyped'
    <3>1. unarmed' = FALSE
      BY <1>5 DEF handleCancel, rescheduleAlarm
    <3>2. told' = told \cup {<<j, header[j].n>>} /\ <<j, header[j].n>> \in Id \X Nat
      BY <1>5, JobFields DEF handleCancel, RowsTyped
    <3>3. UNCHANGED <<ranOk, settled, charged, open, unremoved>>
      BY <1>5 DEF handleCancel
    <3> QED BY <3>1, <3>2, <3>3 DEF GhostsTyped
  <2>7. PoolTyped' /\ WorldTyped'
    BY <1>5
    DEF handleCancel, PoolTyped, WorldTyped, world
  <2> QED BY <2>1, <2>2, <2>3, <2>4, <2>5, <2>6, <2>7
<1>6. ASSUME NEW j \in Id, CancelFinished(j) PROVE TypeOK'
  <2>1. RowsTyped'
    BY <1>6, RowTyped
    DEF CancelFinished, removeRecord, RowsTyped, rows
  <2>2. ClockTyped'
    BY <1>6, RescheduleTyped, <2>1
    DEF CancelFinished, ClockTyped, flags, volatile, bounds
  <2>3. LaneTyped'
    BY <1>6, CancelTyped
    DEF CancelFinished, LaneTyped, volatile
  <2>4. OutcomesTyped' /\ PoolTyped' /\ WorldTyped' /\ BoundsTyped' /\ GhostsTyped'
    BY <1>6
    DEF rescheduleAlarm, CancelFinished, OutcomesTyped, PoolTyped, WorldTyped, BoundsTyped, GhostsTyped, outcomes, world, bounds, ghosts
  <2> QED BY <2>1, <2>2, <2>3, <2>4
<1>7. CASE CancelCut
  <2>1. RowsTyped'
    BY <1>7, RowTyped
    DEF CancelCut, removeRecord, RowsTyped, rows
  <2>2. WorldTyped'
    BY <1>7, DetachedTyped
    DEF CancelCut, Die, WorldTyped, world
  <2>3. ClockTyped'
    BY <1>7
    DEF CancelCut, Die, ClockTyped, flags, volatile, bounds
  <2>4. BoundsTyped'
    BY <1>7
    DEF CancelCut, Die, BoundsTyped, bounds
  <2>5. LaneTyped'
    BY <1>7, RowTyped
    DEF CancelCut, Die, LaneTyped, volatile
  <2>6. GhostsTyped'
    BY <1>7, JobFields
    DEF CancelCut, RowsTyped, GhostsTyped, ghosts
  <2>7. OutcomesTyped'
    <3>1. PICK j \in Id :
            \/ UNCHANGED <<done, history>>
            \/ done' = CanceledRow(j) /\ history' = CanceledList(j)
            \/ /\ done' = SweptDone(CanceledRow(j), CanceledList(j))
               /\ history' = SweptHistory(CanceledList(j))
      BY <1>7 DEF CancelCut
    <3>2. now \in Nat /\ Row(header[j].n, now, "canceled") \in Terminal
      BY JobFields, TerminalTyped DEF RowsTyped, ClockTyped
    <3>3. done' \in [Id -> Terminal] /\ history' \subseteq Nat \X Id
      <4> DEFINE row == Row(header[j].n, now, "canceled")
                 d == [done EXCEPT ![j] = row]
                 h == history \cup {Ix(now, j)}
      <4>1. /\ d \in [Id -> Terminal] /\ SweptDone(d, h) \in [Id -> Terminal]
            /\ h \subseteq Nat \X Id /\ SweptHistory(h) \subseteq Nat \X Id
        BY <3>2, RecordedTyped
      <4> QED BY <3>1, <4>1 DEF CanceledRow, CanceledList, OutcomesTyped
    <3> QED BY <1>7, <3>3 DEF CancelCut, OutcomesTyped, outcomes
  <2>8. PoolTyped'
    BY <1>7 DEF CancelCut, PoolTyped
  <2> QED BY <2>1, <2>2, <2>3, <2>4, <2>5, <2>6, <2>7, <2>8
<1>8. ASSUME NEW j \in Id, handleDeadRetry(j) PROVE TypeOK'
  <2>1. RowsTyped'
    BY <1>8, TimesTyped, TerminalFields
    DEF handleDeadRetry, revive, Job, OutcomesTyped, ClockTyped, RowsTyped, rows
  <2>2. OutcomesTyped'
    BY <1>8, RowTyped
    DEF handleDeadRetry, revive, OutcomesTyped, outcomes
  <2>3. ClockTyped'
    BY <1>8, EarliestTyped
    DEF handleDeadRetry, armAlarmIfEarlier, revive, ClockTyped, flags, volatile, bounds
  <2>4. BoundsTyped'
    BY <1>8
    DEF handleDeadRetry, revive, BoundsTyped, bounds
  <2>5. GhostsTyped'
    BY <1>8
    DEF Closed, handleDeadRetry, revive, GhostsTyped, ghosts
  <2>6. PoolTyped' /\ WorldTyped' /\ LaneTyped'
    BY <1>8
    DEF handleDeadRetry, revive, PoolTyped, WorldTyped, LaneTyped, world, volatile
  <2> QED BY <2>1, <2>2, <2>3, <2>4, <2>5, <2>6
<1>9. CASE DeadRetryCut
  <2>0. Stopped /\ alarm' = alarm /\ unarmed' \in BOOLEAN
    BY <1>9, NotArmedStops DEF DeadRetryCut
  <2>1. RowsTyped'
    BY <1>9, TimesTyped, TerminalFields
    DEF DeadRetryCut, revive, Job, OutcomesTyped, ClockTyped, RowsTyped
  <2>2. OutcomesTyped'
    BY <1>9, RowTyped DEF DeadRetryCut, revive, OutcomesTyped
  <2>3. PoolTyped'
    BY <1>9 DEF DeadRetryCut, revive, PoolTyped
  <2>4. ClockTyped'
    BY <1>9, <2>0, StoppedTyped DEF DeadRetryCut, revive, ClockTyped, flags
  <2>5. BoundsTyped'
    BY <1>9, <2>0, StoppedTyped DEF DeadRetryCut, revive, BoundsTyped
  <2>6. GhostsTyped'
    BY <1>9, <2>0 DEF DeadRetryCut, revive, Closed, GhostsTyped
  <2> QED BY <2>0, <2>1, <2>2, <2>3, <2>4, <2>5, <2>6, StoppedTyped
<1>10. ASSUME NEW j \in Id, handleDeadCancel(j) PROVE TypeOK'
  <2>1. OutcomesTyped'
    <3>1. dead[j].at \in Nat /\ Row(dead[j].n, dead[j].at, "failed") \in Terminal
      BY TerminalFields, TerminalTyped DEF OutcomesTyped
    <3>2. dead' \in [Id -> Terminal]
      BY <1>10, RowTyped DEF handleDeadCancel, OutcomesTyped
    <3> QED BY <1>10, RecordedTyped, <3>1, <3>2
      DEF handleDeadCancel, purge, OutcomesTyped, outcomes
  <2>2. RowsTyped' /\ PoolTyped' /\ WorldTyped' /\ ClockTyped' /\ BoundsTyped' /\ LaneTyped' /\ GhostsTyped'
    BY <1>10
    DEF handleDeadCancel, RowsTyped, PoolTyped, WorldTyped, ClockTyped, BoundsTyped, LaneTyped, GhostsTyped, rows, world, flags, volatile, bounds, ghosts
  <2> QED BY <2>1, <2>2
<1>11. CASE DeadCancelCut
  <2>1. OutcomesTyped'
    BY <1>11, RecordedTyped, TerminalTyped, TerminalFields
    DEF DeadCancelCut, purge, OutcomesTyped
  <2>2. Stopped /\ UNCHANGED <<rows, pool, flags, alarm, jobs, ghosts>>
    BY <1>11 DEF DeadCancelCut
  <2>3. ClockTyped' /\ BoundsTyped'
    BY <2>2, StoppedTyped DEF ClockTyped, BoundsTyped, flags
  <2>4. RowsTyped' /\ PoolTyped' /\ GhostsTyped'
    BY <2>2 DEF RowsTyped, PoolTyped, GhostsTyped, rows, ghosts
  <2> QED BY <2>1, <2>2, <2>3, <2>4, StoppedTyped
<1>12. CASE handleComplete
  <2>1. PoolTyped'
    BY <1>12
    DEF handleComplete, PoolTyped
  <2>2. WorldTyped'
    BY <1>12
    DEF handleComplete, WorldTyped, world
  <2>3. ClockTyped'
    BY <1>12, EarliestTyped
    DEF handleComplete, armAlarmIfEarlier, ClockTyped, flags, volatile, bounds
  <2>4. RowsTyped' /\ OutcomesTyped' /\ BoundsTyped' /\ LaneTyped' /\ GhostsTyped'
    BY <1>12
    DEF handleComplete, RowsTyped, OutcomesTyped, BoundsTyped, LaneTyped, GhostsTyped, rows, outcomes, bounds, volatile, ghosts
  <2> QED BY <2>1, <2>2, <2>3, <2>4
<1>13. CASE CompleteLost
  <2>1. WorldTyped'
    BY <1>13
    DEF CompleteLost, WorldTyped, world
  <2>2. BoundsTyped'
    BY <1>13
    DEF CompleteLost, BoundsTyped, bounds
  <2>3. RowsTyped' /\ OutcomesTyped' /\ PoolTyped' /\ ClockTyped' /\ LaneTyped' /\ GhostsTyped'
    BY <1>13
    DEF CompleteLost, RowsTyped, OutcomesTyped, PoolTyped, ClockTyped, LaneTyped, GhostsTyped, rows, outcomes, flags, volatile, bounds, ghosts
  <2> QED BY <2>1, <2>2, <2>3
<1>14. CASE Pause
  <2>1. ClockTyped'
    BY <1>14
    DEF Pause, ClockTyped, flags, volatile, bounds
  <2>2. RowsTyped' /\ OutcomesTyped' /\ PoolTyped' /\ WorldTyped' /\ BoundsTyped' /\ LaneTyped' /\ GhostsTyped'
    BY <1>14
    DEF Pause, RowsTyped, OutcomesTyped, PoolTyped, WorldTyped, BoundsTyped, LaneTyped, GhostsTyped, rows, outcomes, world, bounds, volatile, ghosts
  <2> QED BY <2>1, <2>2
<1>15. CASE PauseCut
  <2>1. Stopped /\ UNCHANGED <<rows, outcomes, clean, pool, alarm, jobs, ghosts>> /\ paused' = TRUE
    BY <1>15 DEF PauseCut
  <2>2. ClockTyped' /\ BoundsTyped'
    BY <2>1, StoppedTyped DEF ClockTyped, BoundsTyped
  <2>3. RowsTyped' /\ OutcomesTyped' /\ PoolTyped' /\ GhostsTyped'
    BY <2>1 DEF RowsTyped, OutcomesTyped, PoolTyped, GhostsTyped, rows, outcomes, ghosts
  <2> QED BY <2>1, <2>2, <2>3, StoppedTyped
<1>16. CASE Resume
  <2>1. ClockTyped'
    BY <1>16, ResumeTyped
    DEF Resume, ClockTyped, flags, volatile, bounds
  <2>2. RowsTyped' /\ OutcomesTyped' /\ PoolTyped' /\ WorldTyped' /\ BoundsTyped' /\ LaneTyped' /\ GhostsTyped'
    BY <1>16
    DEF resumedAlarm, Resume, RowsTyped, OutcomesTyped, PoolTyped, WorldTyped, BoundsTyped, LaneTyped, GhostsTyped, rows, outcomes, world, bounds, volatile, ghosts
  <2> QED BY <2>1, <2>2
<1>17. CASE ResumeCut
  <2>1. /\ Stopped /\ unarmed' = FALSE
        /\ UNCHANGED <<rows, outcomes, flags, pool, jobs, told, ranOk, settled, charged, open,
                       unremoved>>
    BY <1>17 DEF ResumeCut, resumedAlarm
  <2>2. alarm' \in Nat \cup {NoAlarm}
    BY <1>17, ResumeTyped DEF ResumeCut
  <2>3. ClockTyped' /\ BoundsTyped'
    BY <2>1, <2>2, StoppedTyped DEF ClockTyped, BoundsTyped, flags
  <2>4. RowsTyped' /\ OutcomesTyped' /\ PoolTyped' /\ GhostsTyped'
    BY <2>1 DEF RowsTyped, OutcomesTyped, PoolTyped, GhostsTyped, rows, outcomes
  <2> QED BY <2>1, <2>3, <2>4, StoppedTyped
<1>18. CASE Crash
  <2>1. WorldTyped'
    BY <1>18, DetachedTyped
    DEF Crash, Die, WorldTyped, world
  <2>2. ClockTyped'
    BY <1>18
    DEF Crash, Die, ClockTyped, flags, volatile, bounds
  <2>3. BoundsTyped'
    BY <1>18
    DEF Crash, Die, BoundsTyped, bounds
  <2>4. LaneTyped'
    BY <1>18, RowTyped
    DEF Crash, Die, LaneTyped, volatile
  <2>5. RowsTyped' /\ OutcomesTyped' /\ PoolTyped' /\ GhostsTyped'
    BY <1>18
    DEF Crash, Die, RowsTyped, OutcomesTyped, PoolTyped, GhostsTyped, rows, outcomes, ghosts
  <2> QED BY <2>1, <2>2, <2>3, <2>4, <2>5
<1>19. CASE AlarmPaused
  <2>1. ClockTyped'
    BY <1>19
    DEF AlarmPaused, ClockTyped, flags, volatile, bounds
  <2>2. RowsTyped' /\ OutcomesTyped' /\ PoolTyped' /\ WorldTyped' /\ BoundsTyped' /\ LaneTyped' /\ GhostsTyped'
    BY <1>19
    DEF AlarmPaused, RowsTyped, OutcomesTyped, PoolTyped, WorldTyped, BoundsTyped, LaneTyped, GhostsTyped, rows, outcomes, world, bounds, volatile, ghosts
  <2> QED BY <2>1, <2>2
<1>20. CASE AlarmIdle
  <2>1. RowsTyped'
    BY <1>20
    DEF AlarmIdle, RowsTyped, rows
  <2>2. OutcomesTyped'
    BY <1>20, SweptTyped
    DEF AlarmIdle, OutcomesTyped, outcomes
  <2>3. ClockTyped'
    BY <1>20, RescheduleTyped, <2>1
    DEF AlarmIdle, ClockTyped, flags, volatile, bounds
  <2>4. BoundsTyped'
    BY <1>20
    DEF AlarmIdle, BoundsTyped, bounds
  <2>5. PoolTyped' /\ WorldTyped' /\ LaneTyped' /\ GhostsTyped'
    BY <1>20
    DEF rescheduleAlarm, AlarmIdle, PoolTyped, WorldTyped, LaneTyped, GhostsTyped, world, volatile, ghosts
  <2> QED BY <2>1, <2>2, <2>3, <2>4, <2>5
<1>21. CASE AlarmDrain
  <2>1. RowsTyped'
    BY <1>21
    DEF AlarmDrain, RowsTyped, rows
  <2>2. ClockTyped'
    BY <1>21
    DEF AlarmDrain, ClockTyped, flags, volatile, bounds
  <2>3. LaneTyped'
    BY <1>21, ClaimTyped, RowTyped
    DEF AlarmDrain, RowsTyped, Lane, LanePc, IdleLane, LaneTyped, volatile
  <2>4. OutcomesTyped' /\ PoolTyped' /\ WorldTyped' /\ BoundsTyped' /\ GhostsTyped'
    BY <1>21
    DEF AlarmDrain, OutcomesTyped, PoolTyped, WorldTyped, BoundsTyped, GhostsTyped, outcomes, world, bounds, ghosts
  <2> QED BY <2>1, <2>2, <2>3, <2>4
<1>22. CASE EndDrain
  <2>1. RowsTyped'
    BY <1>22
    DEF EndDrain, RowsTyped, rows
  <2>2. OutcomesTyped'
    BY <1>22, SweptTyped
    DEF EndDrain, OutcomesTyped, outcomes
  <2>3. ClockTyped'
    BY <1>22, RescheduleTyped, <2>1
    DEF EndDrain, Vouched, ClockTyped, flags, volatile, bounds
  <2>4. PoolTyped' /\ WorldTyped' /\ BoundsTyped' /\ LaneTyped' /\ GhostsTyped'
    BY <1>22
    DEF rescheduleAlarm, EndDrain, PoolTyped, WorldTyped, BoundsTyped, LaneTyped, GhostsTyped, world, bounds, volatile, ghosts
  <2> QED BY <2>1, <2>2, <2>3, <2>4
<1>23. CASE Tick
  <2>1. ClockTyped'
    BY <1>23, TimesTyped
    DEF Tick, ClockTyped, flags, volatile, bounds
  <2>2. RowsTyped' /\ OutcomesTyped' /\ PoolTyped' /\ WorldTyped' /\ BoundsTyped' /\ LaneTyped' /\ GhostsTyped'
    BY <1>23
    DEF Tick, RowsTyped, OutcomesTyped, PoolTyped, WorldTyped, BoundsTyped, LaneTyped, GhostsTyped, rows, outcomes, world, bounds, volatile, ghosts
  <2> QED BY <2>1, <2>2
<1>24. ASSUME NEW j \in Id, ClaimGone(j) PROVE TypeOK'
  <2>1. RowsTyped'
    BY <1>24
    DEF ClaimGone, RowsTyped, rows
  <2>2. LaneTyped'
    BY ZenonT(30), <1>24, MoveTyped
    DEF ClaimGone, Free, LanePc, Reply, LaneTyped, volatile
  <2>3. OutcomesTyped' /\ PoolTyped' /\ WorldTyped' /\ ClockTyped' /\ BoundsTyped' /\ GhostsTyped'
    BY <1>24
    DEF ClaimGone, OutcomesTyped, PoolTyped, WorldTyped, ClockTyped, BoundsTyped, GhostsTyped, outcomes, world, flags, volatile, bounds, ghosts
  <2> QED BY <2>1, <2>2, <2>3
<1>25. ASSUME NEW j \in Id, ClaimSkipped(j) PROVE TypeOK'
  <2>1. LaneTyped'
    BY ZenonT(30), <1>25, MoveTyped
    DEF ClaimSkipped, Free, LanePc, Reply, LaneTyped, volatile
  <2>2. RowsTyped' /\ OutcomesTyped' /\ PoolTyped' /\ WorldTyped' /\ ClockTyped' /\ BoundsTyped' /\ GhostsTyped'
    BY <1>25
    DEF ClaimSkipped, RowsTyped, OutcomesTyped, PoolTyped, WorldTyped, ClockTyped, BoundsTyped, GhostsTyped, rows, outcomes, world, flags, volatile, bounds, ghosts
  <2> QED BY <2>1, <2>2
<1>26. ASSUME NEW j \in Id, Claim(j) PROVE TypeOK'
  <2>1. RowsTyped'
    BY <1>26
    DEF Claim, RowsTyped, rows
  <2>2. LaneTyped'
    <3>1. now + Lease \in Nat
      BY TimesTyped DEF ClockTyped
    <3>2. "unindexed" \in LanePc
      BY DEF LanePc
    <3> QED BY ZenonT(30), <1>26, LeaseTyped, TimesTyped, <3>1, <3>2
      DEF Claim, ClockTyped, LanePc, LaneTyped, volatile
  <2>3. OutcomesTyped' /\ PoolTyped' /\ WorldTyped' /\ ClockTyped' /\ BoundsTyped' /\ GhostsTyped'
    BY <1>26
    DEF Claim, OutcomesTyped, PoolTyped, WorldTyped, ClockTyped, BoundsTyped, GhostsTyped, outcomes, world, flags, volatile, bounds, ghosts
  <2> QED BY <2>1, <2>2, <2>3
<1>27. ASSUME NEW j \in Id, PutLease(j) PROVE TypeOK'
  <2>1. RowsTyped'
    BY <1>27, LaneFields
    DEF PutLease, LaneTyped, RowsTyped, rows
  <2>2. LaneTyped'
    BY ZenonT(30), <1>27, MoveTyped
    DEF PutLease, Move, LanePc, Reply, LaneTyped, volatile
  <2>3. OutcomesTyped' /\ PoolTyped' /\ WorldTyped' /\ ClockTyped' /\ BoundsTyped' /\ GhostsTyped'
    BY <1>27
    DEF PutLease, OutcomesTyped, PoolTyped, WorldTyped, ClockTyped, BoundsTyped, GhostsTyped, outcomes, world, flags, volatile, bounds, ghosts
  <2> QED BY <2>1, <2>2, <2>3
<1>28. ASSUME NEW j \in Id, Reserve(j) PROVE TypeOK'
  <2>1. PoolTyped'
    BY <1>28
    DEF Reserve, PoolTyped
  <2>2. LaneTyped'
    BY ZenonT(30), <1>28, MoveTyped
    DEF Reserve, Move, LanePc, Reply, LaneTyped, volatile
  <2>3. RowsTyped' /\ OutcomesTyped' /\ WorldTyped' /\ ClockTyped' /\ BoundsTyped' /\ GhostsTyped'
    BY <1>28
    DEF Reserve, RowsTyped, OutcomesTyped, WorldTyped, ClockTyped, BoundsTyped, GhostsTyped, rows, outcomes, world, flags, volatile, bounds, ghosts
  <2> QED BY <2>1, <2>2, <2>3
<1>29. ASSUME NEW j \in Id, Refuse(j) PROVE TypeOK'
  <2>1. LaneTyped'
    BY ZenonT(30), <1>29, MoveTyped
    DEF Refuse, Move, LanePc, Reply, LaneTyped, volatile
  <2>2. RowsTyped' /\ OutcomesTyped' /\ PoolTyped' /\ WorldTyped' /\ ClockTyped' /\ BoundsTyped' /\ GhostsTyped'
    BY <1>29
    DEF Refuse, RowsTyped, OutcomesTyped, PoolTyped, WorldTyped, ClockTyped, BoundsTyped, GhostsTyped, rows, outcomes, world, flags, volatile, bounds, ghosts
  <2> QED BY <2>1, <2>2
<1>30. ASSUME NEW j \in Id, requeuePooled(j) PROVE TypeOK'
  <2>1. RowsTyped'
    BY <1>30, TimesTyped, LaneFields
    DEF requeuePooled, Job, LaneTyped, ClockTyped, RowsTyped, rows
  <2>2. LaneTyped'
    BY ZenonT(30), <1>30, MoveTyped
    DEF requeuePooled, Move, LanePc, Reply, LaneTyped, volatile
  <2>3. OutcomesTyped' /\ PoolTyped' /\ WorldTyped' /\ ClockTyped' /\ BoundsTyped' /\ GhostsTyped'
    BY <1>30
    DEF requeuePooled, OutcomesTyped, PoolTyped, WorldTyped, ClockTyped, BoundsTyped, GhostsTyped, outcomes, world, flags, volatile, bounds, ghosts
  <2> QED BY <2>1, <2>2, <2>3
<1>31. ASSUME NEW j \in Id, Send(j) PROVE TypeOK'
  <2>1. WorldTyped'
    BY <1>31, LaneFields, JobFields
    DEF Send, Sent, LaneTyped, WorldTyped, world
  <2>2. ClockTyped'
    BY <1>31
    DEF Send, Sent, ClockTyped, flags, volatile, bounds
  <2>3. BoundsTyped'
    BY <1>31
    DEF Send, Sent, BoundsTyped, bounds
  <2>4. LaneTyped'
    BY ZenonT(30), <1>31, MoveTyped
    DEF Send, Sent, LanePc, Reply, LaneTyped, volatile
  <2>5. GhostsTyped'
    BY <1>31, LaneFields, JobFields
    DEF Send, Sent, LaneTyped, ClockTyped, GhostsTyped, ghosts
  <2>6. RowsTyped' /\ OutcomesTyped' /\ PoolTyped'
    BY <1>31
    DEF Send, Sent, RowsTyped, OutcomesTyped, PoolTyped, rows, outcomes
  <2> QED BY <2>1, <2>2, <2>3, <2>4, <2>5, <2>6
<1>32. ASSUME NEW j \in Id, SendAnswered(j) PROVE TypeOK'
  <2>1. WorldTyped'
    BY <1>32
    DEF SendAnswered, Sent, Attached, WorldTyped, world
  <2>2. ClockTyped'
    BY <1>32
    DEF SendAnswered, Sent, ClockTyped, flags, volatile, bounds
  <2>3. BoundsTyped'
    BY <1>32
    DEF SendAnswered, Sent, BoundsTyped, bounds
  <2>4. LaneTyped'
    BY ZenonT(30), <1>32, MoveTyped
    DEF SendAnswered, Sent, LanePc, Reply, LaneTyped, volatile
  <2>5. GhostsTyped'
    BY <1>32, LaneFields, JobFields
    DEF SendAnswered, Sent, LaneTyped, ClockTyped, GhostsTyped, ghosts
  <2>6. RowsTyped' /\ OutcomesTyped' /\ PoolTyped'
    BY <1>32
    DEF SendAnswered, Sent, RowsTyped, OutcomesTyped, PoolTyped, rows, outcomes
  <2> QED BY <2>1, <2>2, <2>3, <2>4, <2>5, <2>6
<1>33. ASSUME NEW j \in Id, SendDeclined(j) PROVE TypeOK'
  <2>1. WorldTyped'
    BY <1>33
    DEF SendDeclined, Sent, Attached, WorldTyped, world
  <2>2. ClockTyped'
    BY <1>33
    DEF SendDeclined, Sent, ClockTyped, flags, volatile, bounds
  <2>3. BoundsTyped'
    BY <1>33
    DEF SendDeclined, Sent, BoundsTyped, bounds
  <2>4. LaneTyped'
    BY ZenonT(30), <1>33, MoveTyped
    DEF SendDeclined, Sent, LanePc, Reply, LaneTyped, volatile
  <2>5. GhostsTyped'
    BY <1>33, LaneFields, JobFields
    DEF SendDeclined, Sent, LaneTyped, ClockTyped, GhostsTyped, ghosts
  <2>6. RowsTyped' /\ OutcomesTyped' /\ PoolTyped'
    BY <1>33
    DEF SendDeclined, Sent, RowsTyped, OutcomesTyped, PoolTyped, rows, outcomes
  <2> QED BY <2>1, <2>2, <2>3, <2>4, <2>5, <2>6
<1>34. ASSUME NEW j \in Id, SendLost(j) PROVE TypeOK'
  <2>1. WorldTyped'
    BY <1>34
    DEF SendLost, Sent, WorldTyped, world
  <2>2. ClockTyped'
    BY <1>34
    DEF SendLost, Sent, ClockTyped, flags, volatile, bounds
  <2>3. BoundsTyped'
    BY <1>34
    DEF SendLost, Sent, BoundsTyped, bounds
  <2>4. LaneTyped'
    BY ZenonT(30), <1>34, MoveTyped
    DEF SendLost, Sent, LanePc, Reply, LaneTyped, volatile
  <2>5. GhostsTyped'
    BY <1>34, LaneFields, JobFields
    DEF SendLost, Sent, LaneTyped, ClockTyped, GhostsTyped, ghosts
  <2>6. RowsTyped' /\ OutcomesTyped' /\ PoolTyped'
    BY <1>34
    DEF SendLost, Sent, RowsTyped, OutcomesTyped, PoolTyped, rows, outcomes
  <2> QED BY <2>1, <2>2, <2>3, <2>4, <2>5, <2>6
<1>35. ASSUME NEW j \in Id, Answer(j) PROVE TypeOK'
  <2>1. LaneTyped'
    BY ZenonT(30), <1>35, MoveTyped
    DEF Answer, Move, LanePc, Reply, LaneTyped, volatile
  <2>2. GhostsTyped'
    BY <1>35, LaneFields, JobFields
    DEF Key, LaneTyped, Answer, GhostsTyped, ghosts
  <2>3. RowsTyped' /\ OutcomesTyped' /\ PoolTyped' /\ WorldTyped' /\ ClockTyped' /\ BoundsTyped'
    BY <1>35
    DEF Answer, RowsTyped, OutcomesTyped, PoolTyped, WorldTyped, ClockTyped, BoundsTyped, rows, outcomes, world, flags, volatile, bounds
  <2> QED BY <2>1, <2>2, <2>3
<1>36. ASSUME NEW j \in Id, ReleaseSlot(j) PROVE TypeOK'
  <2>1. PoolTyped'
    BY <1>36
    DEF ReleaseSlot, PoolTyped
  <2>2. LaneTyped'
    BY ZenonT(30), <1>36, MoveTyped
    DEF ReleaseSlot, Move, LanePc, Reply, LaneTyped, volatile
  <2>3. RowsTyped' /\ OutcomesTyped' /\ WorldTyped' /\ ClockTyped' /\ BoundsTyped' /\ GhostsTyped'
    BY <1>36
    DEF ReleaseSlot, RowsTyped, OutcomesTyped, WorldTyped, ClockTyped, BoundsTyped, GhostsTyped, rows, outcomes, world, flags, volatile, bounds, ghosts
  <2> QED BY <2>1, <2>2, <2>3
<1>37. ASSUME NEW j \in Id, CancelledSettles(j) PROVE TypeOK'
  <2>1. OutcomesTyped'
    <3>1. now \in Nat /\ done[j].n \in Nat
      BY TerminalFields DEF OutcomesTyped, ClockTyped
    <3>2. Row(done[j].n, now, "succeeded") \in Terminal
      BY <3>1, TerminalTyped
    <3>3. /\ done' \in {done, [done EXCEPT ![j] = Row(done[j].n, now, "succeeded")]}
          /\ history' \subseteq history \cup {Ix(now, j)}
      BY <1>37 DEF CancelledSettles, correctCanceledToSucceeded, OutcomesTyped
    <3>4. UNCHANGED <<dead, repair>>
      BY <1>37 DEF CancelledSettles
    <3>5. done' \in [Id -> Terminal]
      BY <3>2, <3>3 DEF OutcomesTyped
    <3> QED BY <3>1, <3>3, <3>4, <3>5 DEF OutcomesTyped
  <2>2. LaneTyped'
    BY ZenonT(30), <1>37, MoveTyped
    DEF CancelledSettles, Move, LanePc, Reply, LaneTyped, volatile
  <2>3. RowsTyped' /\ PoolTyped' /\ WorldTyped' /\ ClockTyped' /\ BoundsTyped' /\ GhostsTyped'
    BY <1>37
    DEF Closed, CancelledSettles, RowsTyped, PoolTyped, WorldTyped, ClockTyped, BoundsTyped, GhostsTyped, rows, world, flags, volatile, bounds, ghosts
  <2> QED BY <2>1, <2>2, <2>3
<1>38. ASSUME NEW j \in Id, RecordOutcome(j) PROVE TypeOK'
  <2>1. OutcomesTyped'
    BY <1>38, LaneFields, JobFields, TerminalTyped
    DEF RecordOutcome, LaneTyped, ClockTyped, OutcomesTyped, outcomes
  <2>2. LaneTyped'
    BY ZenonT(30), <1>38, MoveTyped
    DEF RecordOutcome, Move, LanePc, Reply, LaneTyped, volatile
  <2>3. RowsTyped' /\ PoolTyped' /\ WorldTyped' /\ ClockTyped' /\ BoundsTyped' /\ GhostsTyped'
    BY <1>38
    DEF RecordOutcome, RowsTyped, PoolTyped, WorldTyped, ClockTyped, BoundsTyped, GhostsTyped, rows, world, flags, volatile, bounds, ghosts
  <2> QED BY <2>1, <2>2, <2>3
<1>39. ASSUME NEW j \in Id, OutcomeRefused(j) PROVE TypeOK'
  <2>1. OutcomesTyped'
    BY <1>39, LaneFields, JobFields, TerminalTyped
    DEF OutcomeRefused, LaneTyped, ClockTyped, OutcomesTyped, outcomes
  <2>2. ClockTyped'
    BY <1>39
    DEF OutcomeRefused, ClockTyped, flags, volatile, bounds
  <2>3. BoundsTyped'
    BY <1>39
    DEF OutcomeRefused, BoundsTyped, bounds
  <2>4. LaneTyped'
    BY ZenonT(30), <1>39, MoveTyped
    DEF OutcomeRefused, Move, LanePc, Reply, LaneTyped, volatile
  <2>5. RowsTyped' /\ PoolTyped' /\ WorldTyped' /\ GhostsTyped'
    BY <1>39
    DEF OutcomeRefused, RowsTyped, PoolTyped, WorldTyped, GhostsTyped, rows, world, ghosts
  <2> QED BY <2>1, <2>2, <2>3, <2>4, <2>5
<1>40. ASSUME NEW j \in Id, Clear(j) PROVE TypeOK'
  <2>1. RowsTyped'
    BY <1>40, RowTyped
    DEF Clear, clearPending, RowsTyped, rows
  <2>2. ClockTyped'
    BY <1>40
    DEF Clear, clearPending, ClockTyped, flags, volatile, bounds
  <2>3. BoundsTyped'
    BY <1>40
    DEF Clear, clearPending, BoundsTyped, bounds
  <2>4. LaneTyped'
    BY ZenonT(30), <1>40, MoveTyped
    DEF Clear, clearPending, Move, LanePc, Reply, LaneTyped, volatile
  <2>5. GhostsTyped'
    BY <1>40, LaneFields, JobFields
    DEF Closed, Clear, clearPending, LaneTyped, GhostsTyped, ghosts
  <2>6. OutcomesTyped' /\ PoolTyped' /\ WorldTyped'
    BY <1>40
    DEF Clear, clearPending, OutcomesTyped, PoolTyped, WorldTyped, outcomes, world
  <2> QED BY <2>1, <2>2, <2>3, <2>4, <2>5, <2>6
<1>41. ASSUME NEW j \in Id, ClearRefused(j) PROVE TypeOK'
  <2>1. ClockTyped'
    BY <1>41
    DEF ClearRefused, clearPending, ClockTyped, flags, volatile, bounds
  <2>2. BoundsTyped'
    BY <1>41
    DEF ClearRefused, clearPending, BoundsTyped, bounds
  <2>3. LaneTyped'
    BY ZenonT(30), <1>41, MoveTyped
    DEF ClearRefused, clearPending, Move, LanePc, Reply, LaneTyped, volatile
  <2>4. GhostsTyped'
    BY <1>41, LaneFields, JobFields
    DEF Closed, ClearRefused, clearPending, LaneTyped, GhostsTyped, ghosts
  <2>5. RowsTyped' /\ OutcomesTyped' /\ PoolTyped' /\ WorldTyped'
    BY <1>41
    DEF ClearRefused, clearPending, RowsTyped, OutcomesTyped, PoolTyped, WorldTyped, rows, outcomes, world
  <2> QED BY <2>1, <2>2, <2>3, <2>4, <2>5
<1>42. ASSUME NEW j \in Id, recordRetry(j) PROVE TypeOK'
  <2>1. RowsTyped'
    <3> DEFINE due == now + DelayOf(j)
               retried == [lane[j].job EXCEPT !.due = due, !.attempts = AttemptsOf(j)]
    <3>1. due \in Nat /\ AttemptsOf(j) \in 0..AttemptCap /\ lane[j].job \in Job
      BY RetryTyped, LaneFields DEF LaneTyped, ClockTyped
    <3>2. header' = [header EXCEPT ![j] = retried] /\ index' = index \cup {Ix(due, j)}
      BY <1>42 DEF recordRetry
    <3> HIDE DEF due
    <3>3. retried \in Job
      BY <3>1 DEF Job
    <3> HIDE DEF retried
    <3> QED BY <3>1, <3>2, <3>3 DEF RowsTyped
  <2>2. LaneTyped'
    BY ZenonT(30), <1>42, MoveTyped
    DEF recordRetry, Move, LanePc, Reply, LaneTyped, volatile
  <2>3. GhostsTyped'
    BY <1>42
    DEF Closed, recordRetry, charge, GhostsTyped, ghosts
  <2>4. OutcomesTyped' /\ PoolTyped' /\ WorldTyped' /\ ClockTyped' /\ BoundsTyped'
    BY <1>42
    DEF recordRetry, OutcomesTyped, PoolTyped, WorldTyped, ClockTyped, BoundsTyped, outcomes, world, flags, volatile, bounds
  <2> QED BY <2>1, <2>2, <2>3, <2>4
<1>43. ASSUME NEW j \in Id, parkDead(j) PROVE TypeOK'
  <2>1. OutcomesTyped'
    BY <1>43, LaneFields, JobFields, TerminalTyped
    DEF parkDead, LaneTyped, ClockTyped, OutcomesTyped, outcomes
  <2>2. LaneTyped'
    BY ZenonT(30), <1>43, MoveTyped
    DEF parkDead, Move, LanePc, Reply, LaneTyped, volatile
  <2>3. GhostsTyped'
    BY <1>43, LaneFields, JobFields
    DEF Key, LaneTyped, parkDead, charge, GhostsTyped, ghosts
  <2>4. RowsTyped' /\ PoolTyped' /\ WorldTyped' /\ ClockTyped' /\ BoundsTyped'
    BY <1>43
    DEF parkDead, RowsTyped, PoolTyped, WorldTyped, ClockTyped, BoundsTyped, rows, world, flags, volatile, bounds
  <2> QED BY <2>1, <2>2, <2>3, <2>4
<1>44. ASSUME NEW j \in Id, Unlease(j) PROVE TypeOK'
  <2>1. RowsTyped'
    BY <1>44
    DEF Unlease, LeaseKey, RowsTyped, rows
  <2>2. BoundsTyped'
    BY <1>44
    DEF Unlease, BoundsTyped, bounds
  <2>3. LaneTyped'
    BY ZenonT(30), <1>44, MoveTyped
    DEF Unlease, Free, LanePc, Reply, LaneTyped, volatile
  <2>4. OutcomesTyped' /\ PoolTyped' /\ WorldTyped' /\ ClockTyped' /\ GhostsTyped'
    BY <1>44
    DEF Unlease, OutcomesTyped, PoolTyped, WorldTyped, ClockTyped, GhostsTyped, outcomes, world, flags, volatile, bounds, ghosts
  <2> QED BY <2>1, <2>2, <2>3, <2>4
<1>45. ASSUME NEW j \in Id, LaneFault(j) PROVE TypeOK'
  <2>1. BoundsTyped'
    BY <1>45
    DEF LaneFault, BoundsTyped, bounds
  <2>2. LaneTyped'
    <3>1. now + Lease \in Nat /\ lane[j].lease \in Nat
      BY TimesTyped, LaneFields DEF ClockTyped, LaneTyped
    <3>2. "failing" \in LanePc
      BY DEF LanePc
    <3> QED BY ZenonT(30), <1>45, LeaseTyped, LaneFields, TimesTyped, <3>1, <3>2
      DEF LaneFault, ClockTyped, LanePc, LaneTyped, volatile
  <2>3. RowsTyped' /\ OutcomesTyped' /\ PoolTyped' /\ WorldTyped' /\ ClockTyped' /\ GhostsTyped'
    BY <1>45
    DEF LaneFault, RowsTyped, OutcomesTyped, PoolTyped, WorldTyped, ClockTyped, GhostsTyped, rows, outcomes, world, flags, volatile, bounds, ghosts
  <2> QED BY <2>1, <2>2, <2>3
<1>46. ASSUME NEW j \in Id, Catch(j) PROVE TypeOK'
  <2>1. RowsTyped'
    BY <1>46, LaneFields, RowTyped
    DEF Catch, CatchWrites, LeaseRow, LeaseKey, LaneTyped, RowsTyped, rows
  <2>2. ClockTyped'
    BY <1>46
    DEF Catch, ClockTyped, flags, volatile, bounds
  <2>3. BoundsTyped'
    BY <1>46
    DEF Catch, BoundsTyped, bounds
  <2>4. LaneTyped'
    BY ZenonT(30), <1>46, MoveTyped
    DEF Catch, Free, LanePc, Reply, LaneTyped, volatile
  <2>5. GhostsTyped'
    BY <1>46, TerminalFields
    DEF Closed, Catch, CatchWrites, OutcomesTyped, GhostsTyped, ghosts
  <2>6. OutcomesTyped' /\ PoolTyped' /\ WorldTyped'
    BY <1>46
    DEF Catch, OutcomesTyped, PoolTyped, WorldTyped, outcomes, world
  <2> QED BY <2>1, <2>2, <2>3, <2>4, <2>5, <2>6
<1>47. ASSUME NEW j \in Id, Disconnect(j) PROVE TypeOK'
  <2>1. BoundsTyped'
    BY <1>47
    DEF Disconnect, BoundsTyped, bounds
  <2>2. LaneTyped'
    BY ZenonT(30), <1>47, MoveTyped
    DEF Disconnect, LanePc, Reply, LaneTyped, volatile
  <2>3. RowsTyped' /\ OutcomesTyped' /\ PoolTyped' /\ WorldTyped' /\ ClockTyped' /\ GhostsTyped'
    BY <1>47
    DEF Disconnect, RowsTyped, OutcomesTyped, PoolTyped, WorldTyped, ClockTyped, GhostsTyped, rows, outcomes, world, flags, volatile, bounds, ghosts
  <2> QED BY <2>1, <2>2, <2>3
<1>48. ASSUME NEW k \in running, NEW result \in {"ok", "error"}, RunEnds(k, result) PROVE TypeOK'
  <2>1. WorldTyped'
    BY <1>48
    DEF RunEnds, WorldTyped, world
  <2>2. LaneTyped'
    BY <1>48, ReplyTyped
    DEF RunEnds, WorldTyped, LaneTyped, volatile
  <2>3. GhostsTyped'
    BY <1>48
    DEF RunEnds, WorldTyped, GhostsTyped, ghosts
  <2>4. RowsTyped' /\ OutcomesTyped' /\ PoolTyped' /\ ClockTyped' /\ BoundsTyped'
    BY <1>48
    DEF RunEnds, RowsTyped, OutcomesTyped, PoolTyped, ClockTyped, BoundsTyped, rows, outcomes, flags, volatile, bounds
  <2> QED BY <2>1, <2>2, <2>3, <2>4
<1>49. CASE UNCHANGED vars
  BY <1>49 DEF vars, rows, outcomes, flags, volatile, world, bounds, ghosts, RowsTyped, OutcomesTyped, PoolTyped, WorldTyped, ClockTyped, BoundsTyped, LaneTyped, GhostsTyped
<1>50. CASE PoolCapCut
  <2>1. Stopped /\ UNCHANGED <<rows, outcomes, flags, alarm, jobs, ghosts>>
    BY <1>50 DEF PoolCapCut
  <2>2. PoolTyped'
    BY <1>50, InputsTyped DEF PoolCapCut, PoolTyped
  <2>3. ClockTyped' /\ BoundsTyped'
    BY <2>1, StoppedTyped DEF ClockTyped, BoundsTyped, flags
  <2>4. RowsTyped' /\ OutcomesTyped' /\ GhostsTyped'
    BY <2>1 DEF RowsTyped, OutcomesTyped, GhostsTyped, rows, outcomes, ghosts
  <2> QED BY <2>1, <2>2, <2>3, <2>4, StoppedTyped
<1>51. CASE DeadRetryLate
  <2>1. Stopped /\ UNCHANGED <<rows, dead, history, repair, flags, pool, alarm, jobs, ghosts>>
    BY <1>51 DEF DeadRetryLate
  <2>2. OutcomesTyped'
    BY <1>51, RowTyped DEF DeadRetryLate, OutcomesTyped
  <2>3. ClockTyped' /\ BoundsTyped'
    BY <2>1, StoppedTyped DEF ClockTyped, BoundsTyped, flags
  <2>4. RowsTyped' /\ PoolTyped' /\ GhostsTyped'
    BY <2>1 DEF RowsTyped, PoolTyped, GhostsTyped, rows, ghosts
  <2> QED BY <2>1, <2>2, <2>3, <2>4, StoppedTyped
<1>52. ASSUME NEW j \in Id, CancelRefused(j) PROVE TypeOK'
  <2>1. LaneTyped'
    BY <1>52, CancelTyped DEF CancelRefused
  <2>2. Key(j) \in Id \X Nat
    BY LaneFields, JobFields DEF Key, LaneTyped
  <2>3. GhostsTyped'
    BY <1>52, <2>2 DEF CancelRefused, GhostsTyped
  <2>4. ClockTyped' /\ BoundsTyped' /\ WorldTyped'
    BY <1>52 DEF CancelRefused, ClockTyped, BoundsTyped, WorldTyped, flags, world
  <2>5. RowsTyped' /\ OutcomesTyped' /\ PoolTyped'
    BY <1>52 DEF CancelRefused, RowsTyped, OutcomesTyped, PoolTyped, rows, outcomes
  <2> QED BY <2>1, <2>3, <2>4, <2>5
<1>53. ASSUME NEW j \in Id, CancelUnclocked(j) PROVE TypeOK'
  <2>1. RowsTyped'
    BY <1>53, RowTyped DEF CancelUnclocked, removeRecord, RowsTyped, rows
  <2>2. OutcomesTyped'
    BY <1>53, CanceledTyped DEF CancelUnclocked, OutcomesTyped
  <2>3. LaneTyped'
    BY <1>53, CancelTyped DEF CancelUnclocked
  <2>4. BoundsTyped'
    BY <1>53 DEF CancelUnclocked, writeCanceled, BoundsTyped
  <2>5. GhostsTyped'
    BY <1>53, JobFields DEF CancelUnclocked, RowsTyped, GhostsTyped
  <2>6. PoolTyped' /\ WorldTyped' /\ ClockTyped'
    BY <1>53 DEF CancelUnclocked, PoolTyped, WorldTyped, ClockTyped, world, flags
  <2> QED BY <2>1, <2>2, <2>3, <2>4, <2>5, <2>6
<1>54. CASE CompleteUnarmed
  <2>1. PoolTyped' /\ WorldTyped' /\ BoundsTyped'
    BY <1>54 DEF CompleteUnarmed, PoolTyped, WorldTyped, BoundsTyped
  <2>2. RowsTyped' /\ OutcomesTyped' /\ ClockTyped' /\ LaneTyped' /\ GhostsTyped'
    BY <1>54 DEF CompleteUnarmed, RowsTyped, OutcomesTyped, ClockTyped, LaneTyped, GhostsTyped,
       rows, outcomes, flags, volatile, ghosts
  <2> QED BY <2>1, <2>2
<1>55. CASE AlarmRefused
  <2>1. RowsTyped'
    BY <1>55 DEF AlarmRefused, RowsTyped
  <2>2. ClockTyped' /\ BoundsTyped' /\ GhostsTyped'
    BY <1>55 DEF AlarmRefused, ClockTyped, BoundsTyped, GhostsTyped, flags, volatile
  <2>3. OutcomesTyped' /\ PoolTyped' /\ WorldTyped' /\ LaneTyped'
    BY <1>55 DEF AlarmRefused, OutcomesTyped, PoolTyped, WorldTyped, LaneTyped, outcomes, world,
       volatile
  <2> QED BY <2>1, <2>2, <2>3
<1>56. CASE EndRefused
  <2>1. RowsTyped'
    BY <1>56 DEF EndRefused, RowsTyped, rows
  <2>2. alarm' \in Nat \cup {NoAlarm} /\ unarmed' \in BOOLEAN
    BY <1>56, <2>1, RescheduleTyped DEF EndRefused, rescheduleAlarm, ClockTyped, GhostsTyped
  <2>3. ClockTyped' /\ BoundsTyped' /\ GhostsTyped'
    BY <1>56, <2>2 DEF EndRefused, ClockTyped, BoundsTyped, GhostsTyped, flags
  <2>4. OutcomesTyped' /\ PoolTyped' /\ WorldTyped' /\ LaneTyped'
    BY <1>56 DEF EndRefused, OutcomesTyped, PoolTyped, WorldTyped, LaneTyped, outcomes, world
  <2> QED BY <2>1, <2>3, <2>4
<1>57. CASE EndCut
  <2>1. RowsTyped'
    BY <1>57 DEF EndCut, RowsTyped, rows
  <2>2. alarm' \in Nat \cup {NoAlarm} /\ unarmed' \in BOOLEAN
    BY <1>57, <2>1, RescheduleTyped DEF EndCut, rescheduleAlarm
  <2>3. Stopped /\ UNCHANGED <<outcomes, flags, pool, jobs>>
    BY <1>57 DEF EndCut, Stopped
  <2>4. ClockTyped' /\ BoundsTyped'
    BY <2>2, <2>3, StoppedTyped DEF ClockTyped, BoundsTyped, flags
  <2>5. GhostsTyped'
    BY <1>57, <2>2 DEF EndCut, GhostsTyped
  <2>6. OutcomesTyped' /\ PoolTyped'
    BY <2>3 DEF OutcomesTyped, PoolTyped, outcomes
  <2> QED BY <2>1, <2>3, <2>4, <2>5, <2>6, StoppedTyped
<1> QED
  BY <1>1, <1>2, <1>3, <1>4, <1>5, <1>6, <1>7, <1>8, <1>9, <1>10, <1>11, <1>12, <1>13, <1>14, <1>15,
     <1>16, <1>17, <1>18, <1>19, <1>20, <1>21, <1>22, <1>23, <1>24, <1>25, <1>26, <1>27, <1>28,
     <1>29, <1>30, <1>31, <1>32, <1>33, <1>34, <1>35, <1>36, <1>37, <1>38, <1>39, <1>40, <1>41,
     <1>42, <1>43, <1>44, <1>45, <1>46, <1>47, <1>48, <1>49, <1>50, <1>51, <1>52, <1>53,
     <1>54, <1>55, <1>56, <1>57 DEF Next, Request, Cut, Alarm, Drain,
     Dispatch

(* The initial state is well-typed. *)
LEMMA InitTyped == Init => TypeOK
<1> SUFFICES ASSUME Init PROVE TypeOK
  OBVIOUS
<1>1. RowsTyped /\ OutcomesTyped /\ LaneTyped
  BY RowTyped DEF Init, RowsTyped, OutcomesTyped, LaneTyped
<1>2. PoolTyped
  BY DEF Init, PoolTyped
<1>3. WorldTyped /\ BoundsTyped
  BY DEF Init, WorldTyped, BoundsTyped
<1>4. ClockTyped
  BY DEF Init, ClockTyped
<1>5. GhostsTyped
  BY DEF Init, GhostsTyped
<1> QED BY <1>1, <1>2, <1>3, <1>4, <1>5 DEF TypeOK

(* Every reachable state is well-typed. *)
THEOREM TypeCorrect == Spec => []TypeOK
BY InitTyped, TypeStep, PTL DEF Spec
-----------------------------------------------------------------------------
(* A lane that has claimed its record and not sent it, and one that has sent it. *)
Claimed(j)    == lane[j].pc \in {"unindexed", "leased", "refused", "reserved"}
Dispatched(j) == lane[j].pc \in {"sent", "answered", "released"}

(* The jobs of an id are numbered as they are scheduled. *)
Numbered ==
    /\ \A j \in Id : header[j].n <= jobs[j] /\ dead[j].n <= jobs[j] /\ lane[j].job.n <= jobs[j]
    /\ \A k \in told : k[2] > 0 /\ k[2] <= jobs[k[1]]

(* Neither a pending row, nor a claim, nor a dispatch not marked is that of a cancelled job. *)
Untold ==
    \A j \in Id : /\ <<j, header[j].n>> \notin told
                  /\ Claimed(j) => <<j, lane[j].job.n>> \notin told
                  /\ Dispatched(j) /\ ~lane[j].cancelled => <<j, lane[j].job.n>> \notin told

(* A claim was made while the deployment ran, and no pause comes between it and the dispatch. *)
Unpaused == \A j \in Id : Claimed(j) => ~paused

Inv == TypeOK /\ Numbered /\ Untold /\ Unpaused
-----------------------------------------------------------------------------
(* A job that is scheduled gets the next number of its id. *)
LEMMA NextNumber ==
    ASSUME Inv, NEW i \in Id, NEW due \in Dues, NEW cap \in Caps, handleSchedule(i, due, cap)
    PROVE  /\ told' = told /\ dead' = dead
           /\ \A h \in Id : /\ jobs'[h] \in Nat /\ jobs[h] <= jobs'[h] /\ header'[h].n <= jobs'[h]
                            /\ \/ header'[h].n = header[h].n
                               \/ header'[h].n = jobs[h] + 1
<1>1. told' = told /\ dead' = dead
  BY DEF handleSchedule
<1>2. /\ header' = [header EXCEPT ![i] = [n |-> jobs[i] + 1, due |-> due, attempts |-> 0]]
      /\ jobs' = [jobs EXCEPT ![i] = @ + 1]
  BY DEF handleSchedule
<1>3. /\ jobs \in [Id -> Nat] /\ header \in [Id -> Job]
      /\ \A h \in Id : header[h].n \in Nat /\ header[h].n <= jobs[h]
  BY JobFields DEF Inv, TypeOK, RowsTyped, BoundsTyped, Numbered
<1> QED BY <1>1, <1>2, <1>3

(* Neither an absent row nor a job not scheduled yet was cancelled. *)
LEMMA NotYetTold ==
    ASSUME Inv, NEW h \in Id PROVE <<h, 0>> \notin told /\ <<h, jobs[h] + 1>> \notin told
<1>1. jobs[h] \in Nat
  BY DEF Inv, TypeOK, BoundsTyped
<1>2. \A k \in told : k[2] > 0 /\ k[2] <= jobs[k[1]]
  BY DEF Inv, Numbered
<1>3. <<h, 0>> \notin told
  BY <1>2
<1>4. ASSUME <<h, jobs[h] + 1>> \in told PROVE FALSE
  BY <1>1, <1>2, <1>4
<1> QED BY <1>3, <1>4

(* The numbers of an id only grow. *)
LEMMA NumberedStep == Inv /\ [Next]_vars => Numbered'
<1> SUFFICES ASSUME Inv, [Next]_vars PROVE Numbered'
  OBVIOUS
<1>0. Numbered /\ RowsTyped /\ OutcomesTyped /\ BoundsTyped /\ LaneTyped /\ ClockTyped /\ GhostsTyped
  BY DEF Inv, TypeOK
<1>n. \A h \in Id : header[h].n \in Nat /\ dead[h].n \in Nat /\ lane[h].job.n \in Nat /\ jobs[h] \in Nat
  BY <1>0, JobFields, TerminalFields, LaneFields DEF RowsTyped, OutcomesTyped, LaneTyped, BoundsTyped
<1>1. CASE Boot
  BY <1>1, <1>0, <1>n DEF Boot, reindexWalk, restoreOutcome, Superseded, Repairable, rows, bounds,
     ghosts, Numbered, NoJob, NoRow, RowsTyped, Job
<1>2. CASE Schedule
  <2>1. PICK i \in Id, due \in Dues, cap \in Caps : handleSchedule(i, due, cap)
    BY <1>2 DEF Schedule
  <2>2. lane' = lane
    BY <1>2 DEF Schedule, volatile
  <2>3. \A h \in Id : lane'[h].job.n \in {0, lane[h].job.n}
    BY <2>2 DEF IdleLane, NoJob
  <2>4. /\ told' = told /\ dead' = dead
        /\ \A h \in Id : jobs[h] <= jobs'[h] /\ header'[h].n <= jobs'[h] /\ jobs'[h] \in Nat
    BY <2>1, NextNumber
  <2>5. \A h \in Id : dead'[h].n <= jobs'[h] /\ lane'[h].job.n <= jobs'[h]
    BY <1>0, <1>n, <2>3, <2>4 DEF Numbered
  <2>6. ASSUME NEW k \in told PROVE k[2] > 0 /\ k[2] <= jobs'[k[1]]
    <3>1. k[1] \in Id /\ k[2] \in Nat
      BY <1>0 DEF GhostsTyped
    <3> QED BY <1>0, <1>n, <2>4, <3>1 DEF Numbered
  <2> QED BY <2>4, <2>5, <2>6 DEF Numbered
<1>3. CASE handleComplete
  BY <1>3, <1>0, <1>n DEF handleComplete, rows, outcomes, volatile, bounds, ghosts, Numbered
<1>4. CASE Pause
  BY <1>4, <1>0, <1>n DEF Pause, GateOpen, Working, rows, outcomes, volatile, bounds, ghosts,
     Numbered
<1>5. CASE Resume
  BY <1>5, <1>0, <1>n DEF Resume, rows, outcomes, volatile, bounds, ghosts, Numbered
<1>6. ASSUME NEW j \in Id, handleCancel(j) PROVE Numbered'
  BY <1>6, <1>0, <1>n DEF handleCancel, removeRecord, MarkCancelled, HeldRows, writeCanceled,
     Numbered, NoJob, NoRow, Row, RowsTyped, LaneTyped, Lane, Job
<1>7. ASSUME NEW j \in Id, CancelFinished(j) PROVE Numbered'
  BY <1>7, <1>0, <1>n DEF CancelFinished, removeRecord, MarkCancelled, outcomes, bounds, ghosts,
     Numbered, NoJob, RowsTyped, LaneTyped, Lane, Job
<1>8. ASSUME NEW j \in Id, handleDeadRetry(j) PROVE Numbered'
  BY <1>8, <1>0, <1>n DEF handleDeadRetry, revive, volatile, Numbered, NoRow, RowsTyped,
     OutcomesTyped, Job, Terminal
<1>9. ASSUME NEW j \in Id, handleDeadCancel(j) PROVE Numbered'
  BY <1>9, <1>0, <1>n DEF handleDeadCancel, rows, volatile, bounds, ghosts, Numbered, NoRow, Row,
     OutcomesTyped, Terminal
<1>10. CASE BootCut
  BY <1>10, <1>0, <1>n DEF BootCut, reindexWalk, restoreOutcome, Superseded, Repairable, volatile,
     ghosts, Numbered, NoJob, NoRow, RowsTyped, Job
<1>11. CASE ScheduleCut
  <2>1. PICK i \in Id, due \in Dues, cap \in Caps : handleSchedule(i, due, cap)
    BY <1>11 DEF ScheduleCut
  <2>2. lane' = lane \/ lane' = [h \in Id |-> IdleLane]
    BY <1>11, <1>0, NotArmedStops, StoppedLanes DEF ScheduleCut
  <2>3. \A h \in Id : lane'[h].job.n \in {0, lane[h].job.n}
    BY <2>2 DEF IdleLane, NoJob
  <2>4. /\ told' = told /\ dead' = dead
        /\ \A h \in Id : jobs[h] <= jobs'[h] /\ header'[h].n <= jobs'[h] /\ jobs'[h] \in Nat
    BY <2>1, NextNumber
  <2>5. \A h \in Id : dead'[h].n <= jobs'[h] /\ lane'[h].job.n <= jobs'[h]
    BY <1>0, <1>n, <2>3, <2>4 DEF Numbered
  <2>6. ASSUME NEW k \in told PROVE k[2] > 0 /\ k[2] <= jobs'[k[1]]
    <3>1. k[1] \in Id /\ k[2] \in Nat
      BY <1>0 DEF GhostsTyped
    <3> QED BY <1>0, <1>n, <2>4, <3>1 DEF Numbered
  <2> QED BY <2>4, <2>5, <2>6 DEF Numbered
<1>12. CASE CancelCut
  BY <1>12, <1>0, <1>n DEF CancelCut, removeRecord, Die, outcomes, Numbered, NoJob, IdleLane,
     RowsTyped, LaneTyped, Lane, Job
<1>13. CASE DeadRetryCut
  BY <1>13, <1>0, <1>n, StoppedLanes, NotArmedStops DEF DeadRetryCut, revive, Numbered, NoJob,
     NoRow, IdleLane, RowsTyped, OutcomesTyped, LaneTyped, Lane, Job, Terminal
<1>14. CASE DeadCancelCut
  BY <1>14, <1>0, <1>n, StoppedLanes DEF DeadCancelCut, rows, ghosts, Numbered, NoJob, Row,
     IdleLane, LaneTyped, Lane
<1>15. CASE PauseCut
  BY <1>15, <1>0, <1>n, StoppedLanes DEF PauseCut, rows, outcomes, ghosts, Numbered, NoJob,
     IdleLane, LaneTyped, Lane
<1>16. CASE ResumeCut
  BY <1>16, <1>0, <1>n, StoppedLanes DEF ResumeCut, rows, outcomes, ghosts, Numbered, NoJob,
     IdleLane, LaneTyped, Lane
<1>17. CASE Crash
  BY <1>17, <1>0, <1>n DEF Crash, Die, rows, outcomes, ghosts, Numbered, NoJob, IdleLane,
     LaneTyped, Lane
<1>18. CASE AlarmPaused
  BY <1>18, <1>0, <1>n DEF AlarmPaused, rows, outcomes, volatile, bounds, ghosts, Numbered
<1>19. CASE AlarmIdle
  BY <1>19, <1>0, <1>n DEF AlarmIdle, volatile, ghosts, Numbered, NoRow
<1>20. CASE AlarmDrain
  BY <1>20, <1>0, <1>n DEF AlarmDrain, Selected, outcomes, bounds, ghosts, Numbered, NoJob,
     IdleLane, LaneTyped, Lane
<1>21. CASE EndDrain
  BY <1>21, <1>0, <1>n DEF EndDrain, rows, bounds, ghosts, Numbered, NoRow
<1>22. CASE CompleteLost
  BY <1>22, <1>0, <1>n DEF CompleteLost, rows, outcomes, volatile, ghosts, Numbered
<1>23. CASE Tick
  BY <1>23, <1>0, <1>n DEF Tick, rows, outcomes, volatile, ghosts, Numbered
<1>24. ASSUME NEW j \in Id, ClaimGone(j) PROVE Numbered'
  BY <1>24, <1>0, <1>n DEF ClaimGone, Free, outcomes, bounds, ghosts, Numbered, NoJob, IdleLane,
     LaneTyped, Lane
<1>25. ASSUME NEW j \in Id, ClaimSkipped(j) PROVE Numbered'
  BY <1>25, <1>0, <1>n DEF ClaimSkipped, Free, rows, outcomes, bounds, ghosts, Numbered, NoJob,
     IdleLane, LaneTyped, Lane
<1>26. ASSUME NEW j \in Id, Claim(j) PROVE Numbered'
  BY <1>26, <1>0, <1>n DEF Claim, NextInLine, Untouched, outcomes, bounds, ghosts, Numbered,
     LaneTyped, Lane
<1>27. ASSUME NEW j \in Id, PutLease(j) PROVE Numbered'
  BY <1>27, <1>0, <1>n DEF PutLease, Move, outcomes, bounds, ghosts, Numbered, LaneTyped, Lane
<1>28. ASSUME NEW j \in Id, Reserve(j) PROVE Numbered'
  BY <1>28, <1>0, <1>n DEF Reserve, Move, rows, outcomes, bounds, ghosts, Numbered, LaneTyped,
     Lane
<1>29. ASSUME NEW j \in Id, Refuse(j) PROVE Numbered'
  BY <1>29, <1>0, <1>n DEF Refuse, Move, rows, outcomes, bounds, ghosts, Numbered, LaneTyped, Lane
<1>30. ASSUME NEW j \in Id, requeuePooled(j) PROVE Numbered'
  BY <1>30, <1>0, <1>n DEF requeuePooled, Move, outcomes, bounds, ghosts, Numbered, RowsTyped,
     LaneTyped, Lane, Job
<1>31. ASSUME NEW j \in Id, Send(j) PROVE Numbered'
  BY <1>31, <1>0, <1>n DEF Send, Sent, rows, outcomes, Numbered, LaneTyped, Lane
<1>32. ASSUME NEW j \in Id, SendAnswered(j) PROVE Numbered'
  BY <1>32, <1>0, <1>n DEF SendAnswered, Sent, rows, outcomes, Numbered, LaneTyped, Lane
<1>33. ASSUME NEW j \in Id, SendDeclined(j) PROVE Numbered'
  BY <1>33, <1>0, <1>n DEF SendDeclined, Sent, rows, outcomes, Numbered, LaneTyped, Lane
<1>34. ASSUME NEW j \in Id, SendLost(j) PROVE Numbered'
  BY <1>34, <1>0, <1>n DEF SendLost, Sent, rows, outcomes, Numbered, LaneTyped, Lane
<1>35. ASSUME NEW j \in Id, Answer(j) PROVE Numbered'
  BY <1>35, <1>0, <1>n DEF Answer, Move, rows, outcomes, bounds, Numbered, LaneTyped, Lane
<1>36. ASSUME NEW j \in Id, ReleaseSlot(j) PROVE Numbered'
  BY <1>36, <1>0, <1>n DEF ReleaseSlot, Move, rows, outcomes, bounds, ghosts, Numbered, LaneTyped,
     Lane
<1>37. ASSUME NEW j \in Id, CancelledSettles(j) PROVE Numbered'
  BY <1>37, <1>0, <1>n DEF CancelledSettles, Move, correctCanceledToSucceeded, rows, bounds,
     ghosts, Numbered, Row, LaneTyped, Lane
<1>38. ASSUME NEW j \in Id, RecordOutcome(j) PROVE Numbered'
  BY <1>38, <1>0, <1>n DEF RecordOutcome, Move, rows, bounds, ghosts, Numbered, Row, LaneTyped,
     Lane
<1>39. ASSUME NEW j \in Id, OutcomeRefused(j) PROVE Numbered'
  BY <1>39, <1>0, <1>n DEF OutcomeRefused, Move, rows, ghosts, Numbered, Row, LaneTyped, Lane
<1>40. ASSUME NEW j \in Id, Clear(j) PROVE Numbered'
  BY <1>40, <1>0, <1>n DEF Clear, clearPending, Move, outcomes, Numbered, NoJob, RowsTyped,
     LaneTyped, Lane, Job
<1>41. ASSUME NEW j \in Id, ClearRefused(j) PROVE Numbered'
  BY <1>41, <1>0, <1>n DEF ClearRefused, clearPending, Move, rows, outcomes, Numbered, LaneTyped,
     Lane
<1>42. ASSUME NEW j \in Id, recordRetry(j) PROVE Numbered'
  BY <1>42, <1>0, <1>n DEF recordRetry, Fails, charge, Move, outcomes, bounds, Numbered,
     RowsTyped, LaneTyped, Lane, Job
<1>43. ASSUME NEW j \in Id, parkDead(j) PROVE Numbered'
  BY <1>43, <1>0, <1>n DEF parkDead, Fails, charge, Move, rows, bounds, Numbered, Row,
     OutcomesTyped, LaneTyped, Lane, Terminal
<1>44. ASSUME NEW j \in Id, Unlease(j) PROVE Numbered'
  BY <1>44, <1>0, <1>n DEF Unlease, Free, outcomes, ghosts, Numbered, NoJob, IdleLane, LaneTyped,
     Lane
<1>45. ASSUME NEW j \in Id, LaneFault(j) PROVE Numbered'
  BY <1>45, <1>0, <1>n DEF LaneFault, rows, outcomes, ghosts, Numbered, LaneTyped, Lane
<1>46. ASSUME NEW j \in Id, Catch(j) PROVE Numbered'
  BY <1>46, <1>0, <1>n DEF Catch, CatchWrites, Free, outcomes, Numbered, NoJob, IdleLane,
     RowsTyped, LaneTyped, Lane, Job
<1>47. ASSUME NEW j \in Id, Disconnect(j) PROVE Numbered'
  BY <1>47, <1>0, <1>n DEF Disconnect, rows, outcomes, ghosts, Numbered, LaneTyped, Lane
<1>48. ASSUME NEW k \in running, NEW result \in {"ok", "error"}, RunEnds(k, result) PROVE Numbered'
  BY <1>48, <1>0, <1>n DEF RunEnds, Awaited, rows, outcomes, bounds, Numbered, LaneTyped, Lane
<1>49. CASE UNCHANGED vars
  BY <1>49, <1>0, <1>n DEF vars, rows, outcomes, volatile, bounds, ghosts, Numbered
<1>50. CASE PoolCapCut
  BY <1>50, <1>0, <1>n, StoppedLanes DEF PoolCapCut, rows, outcomes, ghosts, IdleLane, NoJob,
     Numbered, RowsTyped, LaneTyped, Lane, Job
<1>51. CASE DeadRetryLate
  BY <1>51, <1>0, <1>n, StoppedLanes DEF DeadRetryLate, rows, ghosts, IdleLane, NoJob, Numbered,
     RowsTyped, LaneTyped, Lane, Job
<1>52. ASSUME NEW j \in Id, CancelRefused(j) PROVE Numbered'
  BY <1>52, <1>0, <1>n DEF CancelRefused, MarkCancelled, rows, outcomes, Numbered, RowsTyped,
     LaneTyped, Lane, Job
<1>53. ASSUME NEW j \in Id, CancelUnclocked(j) PROVE Numbered'
  BY <1>53, <1>0, <1>n DEF CancelUnclocked, removeRecord, MarkCancelled, HeldRows, writeCanceled,
     NoJob, Numbered, RowsTyped, LaneTyped, Lane, Job
<1>54. CASE CompleteUnarmed
  BY <1>54, <1>0, <1>n DEF CompleteUnarmed, rows, outcomes, volatile, ghosts, Numbered, RowsTyped,
     LaneTyped, Lane, Job
<1>55. CASE AlarmRefused
  BY <1>55, <1>0, <1>n DEF AlarmRefused, outcomes, volatile, Numbered, RowsTyped, LaneTyped, Lane,
     Job
<1>56. CASE EndRefused
  BY <1>56, <1>0, <1>n DEF EndRefused, rows, outcomes, Numbered, RowsTyped, LaneTyped, Lane, Job
<1>57. CASE EndCut
  BY <1>57, <1>0, <1>n DEF EndCut, Die, rows, outcomes, IdleLane, NoJob, Numbered, RowsTyped,
     LaneTyped, Lane, Job
<1> QED
  BY <1>1, <1>2, <1>3, <1>4, <1>5, <1>6, <1>7, <1>8, <1>9, <1>10, <1>11, <1>12, <1>13, <1>14,
     <1>15, <1>16, <1>17, <1>18, <1>19, <1>20, <1>21, <1>22, <1>23, <1>24, <1>25, <1>26, <1>27,
     <1>28, <1>29, <1>30, <1>31, <1>32, <1>33, <1>34, <1>35, <1>36, <1>37, <1>38, <1>39, <1>40,
     <1>41, <1>42, <1>43, <1>44, <1>45, <1>46, <1>47, <1>48, <1>49, <1>50, <1>51, <1>52, <1>53,
     <1>54, <1>55, <1>56, <1>57 DEF Next, Request, Cut, Alarm,
     Dispatch, Drain

(* A pause finds no lane between its claim and its dispatch. *)
LEMMA UnpausedStep == Inv /\ [Next]_vars => Unpaused'
<1> SUFFICES ASSUME Inv, [Next]_vars PROVE Unpaused'
  OBVIOUS
<1>0. Unpaused /\ LaneTyped /\ GhostsTyped
  BY DEF Inv, TypeOK
<1>1. CASE Boot
  BY <1>1, <1>0 DEF Boot, reindexWalk, restoreOutcome, Superseded, Repairable, Unpaused, Claimed
<1>2. CASE Schedule
  BY <1>2, <1>0 DEF Schedule, handleSchedule, dropOutcome, flags, volatile, Unpaused, Claimed
<1>3. CASE handleComplete
  BY <1>3, <1>0 DEF handleComplete, flags, volatile, Unpaused, Claimed
<1>4. CASE Pause
  BY <1>4, <1>0 DEF Pause, GateOpen, Working, volatile, Unpaused, Claimed
<1>5. CASE Resume
  BY <1>5, <1>0 DEF Resume, volatile, Unpaused, Claimed
<1>6. ASSUME NEW j \in Id, handleCancel(j) PROVE Unpaused'
  BY <1>6, <1>0 DEF handleCancel, removeRecord, MarkCancelled, HeldRows, writeCanceled, flags,
     Unpaused, Claimed, LaneTyped, Lane
<1>7. ASSUME NEW j \in Id, CancelFinished(j) PROVE Unpaused'
  BY <1>7, <1>0 DEF CancelFinished, removeRecord, MarkCancelled, flags, Unpaused, Claimed,
     LaneTyped, Lane
<1>8. ASSUME NEW j \in Id, handleDeadRetry(j) PROVE Unpaused'
  BY <1>8, <1>0 DEF handleDeadRetry, revive, flags, volatile, Unpaused, Claimed
<1>9. ASSUME NEW j \in Id, handleDeadCancel(j) PROVE Unpaused'
  BY <1>9, <1>0 DEF handleDeadCancel, flags, volatile, Unpaused, Claimed
<1>10. CASE BootCut
  BY <1>10, <1>0 DEF BootCut, reindexWalk, restoreOutcome, Superseded, Repairable, flags,
     volatile, Unpaused, Claimed
<1>11. CASE ScheduleCut
  BY <1>11, <1>0, StoppedLanes, NotArmedStops DEF ScheduleCut, handleSchedule, dropOutcome, flags,
     Unpaused, Claimed, IdleLane, LaneTyped, Lane
<1>12. CASE CancelCut
  BY <1>12, <1>0 DEF CancelCut, removeRecord, Die, flags, Unpaused, Claimed, IdleLane, LaneTyped,
     Lane
<1>13. CASE DeadRetryCut
  BY <1>13, <1>0, StoppedLanes, NotArmedStops DEF DeadRetryCut, revive, flags, Unpaused, Claimed,
     IdleLane, LaneTyped, Lane
<1>14. CASE DeadCancelCut
  BY <1>14, <1>0, StoppedLanes DEF DeadCancelCut, flags, Unpaused, Claimed, IdleLane, LaneTyped,
     Lane
<1>15. CASE PauseCut
  BY <1>15, <1>0, StoppedLanes DEF PauseCut, GateOpen, Working, Unpaused, Claimed, IdleLane
<1>16. CASE ResumeCut
  BY <1>16, <1>0, StoppedLanes DEF ResumeCut, flags, Unpaused, Claimed, IdleLane, LaneTyped, Lane
<1>17. CASE Crash
  BY <1>17, <1>0 DEF Crash, Die, flags, Unpaused, Claimed, IdleLane, LaneTyped, Lane
<1>18. CASE AlarmPaused
  BY <1>18, <1>0 DEF AlarmPaused, flags, volatile, Unpaused, Claimed
<1>19. CASE AlarmIdle
  BY <1>19, <1>0 DEF AlarmIdle, flags, volatile, Unpaused, Claimed
<1>20. CASE AlarmDrain
  BY <1>20, <1>0 DEF AlarmDrain, Selected, Unpaused, Claimed, IdleLane, LaneTyped, Lane
<1>21. CASE EndDrain
  BY <1>21, <1>0 DEF EndDrain, Unpaused, Claimed
<1>22. CASE CompleteLost
  BY <1>22, <1>0 DEF CompleteLost, flags, volatile, Unpaused, Claimed
<1>23. CASE Tick
  BY <1>23, <1>0 DEF Tick, flags, volatile, Unpaused, Claimed
<1>24. ASSUME NEW j \in Id, ClaimGone(j) PROVE Unpaused'
  BY <1>24, <1>0 DEF ClaimGone, Free, flags, Unpaused, Claimed, IdleLane, LaneTyped, Lane
<1>25. ASSUME NEW j \in Id, ClaimSkipped(j) PROVE Unpaused'
  BY <1>25, <1>0 DEF ClaimSkipped, Free, flags, Unpaused, Claimed, IdleLane, LaneTyped, Lane
<1>26. ASSUME NEW j \in Id, Claim(j) PROVE Unpaused'
  BY <1>26, <1>0 DEF Claim, NextInLine, Untouched, flags, Unpaused, Claimed, LaneTyped, Lane
<1>27. ASSUME NEW j \in Id, PutLease(j) PROVE Unpaused'
  BY <1>27, <1>0 DEF PutLease, Move, flags, Unpaused, Claimed, LaneTyped, Lane
<1>28. ASSUME NEW j \in Id, Reserve(j) PROVE Unpaused'
  BY <1>28, <1>0 DEF Reserve, Move, flags, Unpaused, Claimed, LaneTyped, Lane
<1>29. ASSUME NEW j \in Id, Refuse(j) PROVE Unpaused'
  BY <1>29, <1>0 DEF Refuse, Move, flags, Unpaused, Claimed, LaneTyped, Lane
<1>30. ASSUME NEW j \in Id, requeuePooled(j) PROVE Unpaused'
  BY <1>30, <1>0 DEF requeuePooled, Move, flags, Unpaused, Claimed, LaneTyped, Lane
<1>31. ASSUME NEW j \in Id, Send(j) PROVE Unpaused'
  BY <1>31, <1>0 DEF Send, Sent, flags, Unpaused, Claimed, LaneTyped, Lane
<1>32. ASSUME NEW j \in Id, SendAnswered(j) PROVE Unpaused'
  BY <1>32, <1>0 DEF SendAnswered, Sent, flags, Unpaused, Claimed, LaneTyped, Lane
<1>33. ASSUME NEW j \in Id, SendDeclined(j) PROVE Unpaused'
  BY <1>33, <1>0 DEF SendDeclined, Sent, flags, Unpaused, Claimed, LaneTyped, Lane
<1>34. ASSUME NEW j \in Id, SendLost(j) PROVE Unpaused'
  BY <1>34, <1>0 DEF SendLost, Sent, flags, Unpaused, Claimed, LaneTyped, Lane
<1>35. ASSUME NEW j \in Id, Answer(j) PROVE Unpaused'
  BY <1>35, <1>0 DEF Answer, Move, flags, Unpaused, Claimed, LaneTyped, Lane
<1>36. ASSUME NEW j \in Id, ReleaseSlot(j) PROVE Unpaused'
  BY <1>36, <1>0 DEF ReleaseSlot, Move, flags, Unpaused, Claimed, LaneTyped, Lane
<1>37. ASSUME NEW j \in Id, CancelledSettles(j) PROVE Unpaused'
  BY <1>37, <1>0 DEF CancelledSettles, Move, correctCanceledToSucceeded, flags, Unpaused, Claimed,
     LaneTyped, Lane
<1>38. ASSUME NEW j \in Id, RecordOutcome(j) PROVE Unpaused'
  BY <1>38, <1>0 DEF RecordOutcome, Move, flags, Unpaused, Claimed, LaneTyped, Lane
<1>39. ASSUME NEW j \in Id, OutcomeRefused(j) PROVE Unpaused'
  BY <1>39, <1>0 DEF OutcomeRefused, Move, flags, Unpaused, Claimed, LaneTyped, Lane
<1>40. ASSUME NEW j \in Id, Clear(j) PROVE Unpaused'
  BY <1>40, <1>0 DEF Clear, clearPending, Move, flags, Unpaused, Claimed, LaneTyped, Lane
<1>41. ASSUME NEW j \in Id, ClearRefused(j) PROVE Unpaused'
  BY <1>41, <1>0 DEF ClearRefused, clearPending, Move, flags, Unpaused, Claimed, LaneTyped, Lane
<1>42. ASSUME NEW j \in Id, recordRetry(j) PROVE Unpaused'
  BY <1>42, <1>0 DEF recordRetry, Fails, charge, Move, flags, Unpaused, Claimed, LaneTyped, Lane
<1>43. ASSUME NEW j \in Id, parkDead(j) PROVE Unpaused'
  BY <1>43, <1>0 DEF parkDead, Fails, charge, Move, flags, Unpaused, Claimed, LaneTyped, Lane
<1>44. ASSUME NEW j \in Id, Unlease(j) PROVE Unpaused'
  BY <1>44, <1>0 DEF Unlease, Free, flags, Unpaused, Claimed, IdleLane, LaneTyped, Lane
<1>45. ASSUME NEW j \in Id, LaneFault(j) PROVE Unpaused'
  BY <1>45, <1>0 DEF LaneFault, flags, Unpaused, Claimed, LaneTyped, Lane
<1>46. ASSUME NEW j \in Id, Catch(j) PROVE Unpaused'
  BY <1>46, <1>0 DEF Catch, CatchWrites, Free, flags, Unpaused, Claimed, IdleLane, LaneTyped, Lane
<1>47. ASSUME NEW j \in Id, Disconnect(j) PROVE Unpaused'
  BY <1>47, <1>0 DEF Disconnect, flags, Unpaused, Claimed, LaneTyped, Lane
<1>48. ASSUME NEW k \in running, NEW result \in {"ok", "error"}, RunEnds(k, result) PROVE Unpaused'
  BY <1>48, <1>0 DEF RunEnds, Awaited, flags, Unpaused, Claimed, LaneTyped, Lane
<1>49. CASE UNCHANGED vars
  BY <1>49, <1>0 DEF vars, flags, volatile, Unpaused, Claimed
<1>50. CASE PoolCapCut
  BY <1>50, <1>0, StoppedLanes DEF PoolCapCut, flags, IdleLane, Unpaused, Claimed, LaneTyped, Lane
<1>51. CASE DeadRetryLate
  BY <1>51, <1>0, StoppedLanes DEF DeadRetryLate, flags, IdleLane, Unpaused, Claimed, LaneTyped,
     Lane
<1>52. ASSUME NEW j \in Id, CancelRefused(j) PROVE Unpaused'
  BY <1>52, <1>0 DEF CancelRefused, MarkCancelled, flags, Unpaused, Claimed, LaneTyped, Lane
<1>53. ASSUME NEW j \in Id, CancelUnclocked(j) PROVE Unpaused'
  BY <1>53, <1>0 DEF CancelUnclocked, removeRecord, MarkCancelled, HeldRows, writeCanceled, flags,
     Unpaused, Claimed, LaneTyped, Lane
<1>54. CASE CompleteUnarmed
  BY <1>54, <1>0 DEF CompleteUnarmed, volatile, flags, Unpaused, Claimed, LaneTyped, Lane
<1>55. CASE AlarmRefused
  BY <1>55, <1>0 DEF AlarmRefused, volatile, flags, Unpaused, Claimed, LaneTyped, Lane
<1>56. CASE EndRefused
  BY <1>56, <1>0 DEF EndRefused, flags, Unpaused, Claimed, LaneTyped, Lane
<1>57. CASE EndCut
  BY <1>57, <1>0 DEF EndCut, Die, flags, IdleLane, Unpaused, Claimed, LaneTyped, Lane
<1> QED
  BY <1>1, <1>2, <1>3, <1>4, <1>5, <1>6, <1>7, <1>8, <1>9, <1>10, <1>11, <1>12, <1>13, <1>14,
     <1>15, <1>16, <1>17, <1>18, <1>19, <1>20, <1>21, <1>22, <1>23, <1>24, <1>25, <1>26, <1>27,
     <1>28, <1>29, <1>30, <1>31, <1>32, <1>33, <1>34, <1>35, <1>36, <1>37, <1>38, <1>39, <1>40,
     <1>41, <1>42, <1>43, <1>44, <1>45, <1>46, <1>47, <1>48, <1>49, <1>50, <1>51, <1>52, <1>53,
     <1>54, <1>55, <1>56, <1>57 DEF Next, Request, Cut, Alarm,
     Dispatch, Drain

(* A stopped handler revives no cancelled job, when the rows it wrote are of none. *)
LEMMA StoppedUntold ==
    ASSUME Untold, Stopped, told' \subseteq told, \A h \in Id : <<h, header'[h].n>> \notin told'
    PROVE  Untold'
<1>1. CASE lane' = lane
  BY <1>1 DEF Untold, Claimed, Dispatched
<1>2. CASE lane' = [h \in Id |-> IdleLane]
  BY <1>2 DEF Untold, Claimed, Dispatched, IdleLane
<1> QED BY <1>1, <1>2, StoppedLanes

(* A cancel removes the header and leaves no lane that writes the job back. *)
LEMMA CancelUntold ==
    ASSUME Inv, NEW j \in Id, GateOpen, Has(header[j]), removeRecord(j), MarkCancelled(j),
           told' \in {told, told \cup {<<j, header[j].n>>}}
    PROVE  Untold'
<1>0. Untold /\ RowsTyped /\ LaneTyped
  BY DEF Inv, TypeOK
<1>1. \A h \in Id : ~Claimed(h) /\ lane[h].pc \notin {"answered", "released"}
  BY DEF GateOpen, Working, Claimed
<1>2. /\ \A h \in Id : h # j => header'[h] = header[h] /\ lane'[h] = lane[h]
      /\ header'[j].n = 0
  BY <1>0 DEF removeRecord, MarkCancelled, NoJob, RowsTyped, LaneTyped
<1>3. lane'[j] = IF At(j, "sent") THEN [lane[j] EXCEPT !.cancelled = TRUE] ELSE lane[j]
  BY <1>0 DEF MarkCancelled, LaneTyped
<1>4. lane'[j].pc = lane[j].pc /\ lane'[j].job = lane[j].job /\ (At(j, "sent") => lane'[j].cancelled)
  BY <1>0, <1>3 DEF LaneTyped, Lane
<1>5. \A h \in Id, n \in Nat : h # j => (<<h, n>> \in told' <=> <<h, n>> \in told)
  OBVIOUS
<1>6. <<j, 0>> \notin told'
  <2>1. <<j, 0>> \notin told /\ header[j].n # 0
    BY NotYetTold DEF Has
  <2> QED BY <2>1
<1>7. \A h \in Id : header[h].n \in Nat /\ lane[h].job.n \in Nat
  BY <1>0, JobFields, LaneFields DEF RowsTyped, LaneTyped
<1>8. SUFFICES ASSUME NEW h \in Id
               PROVE  /\ <<h, header'[h].n>> \notin told'
                      /\ Claimed(h)' => <<h, lane'[h].job.n>> \notin told'
                      /\ Dispatched(h)' /\ ~lane'[h].cancelled => <<h, lane'[h].job.n>> \notin told'
  BY DEF Untold
<1>9. CASE h # j
  BY <1>0, <1>2, <1>5, <1>7, <1>9 DEF Untold, Claimed, Dispatched
<1>10. CASE h = j
  BY <1>1, <1>2, <1>4, <1>6, <1>10 DEF Claimed, Dispatched
<1> QED BY <1>9, <1>10

(* No later step revives a job that /cancel removed. *)
LEMMA UntoldStep == Inv /\ [Next]_vars => Untold'
<1> SUFFICES ASSUME Inv, [Next]_vars PROVE Untold'
  OBVIOUS
<1>0. Untold /\ RowsTyped /\ LaneTyped /\ GhostsTyped
  BY DEF Inv, TypeOK
<1>z. \A h \in Id : <<h, 0>> \notin told /\ <<h, jobs[h] + 1>> \notin told
  BY NotYetTold
<1>1. CASE Boot
  <2>1. \A h \in Id : header'[h].n \in {0, header[h].n}
    BY <1>1 DEF Boot, reindexWalk, restoreOutcome, NoJob, rows
  <2>2. lane' = lane /\ told' = told
    BY <1>1 DEF Boot, volatile, ghosts
  <2> QED BY <1>0, <1>z, <2>1, <2>2 DEF Untold, Claimed, Dispatched
<1>2. CASE Schedule
  <2>1. PICK i \in Id, due \in Dues, cap \in Caps : handleSchedule(i, due, cap)
    BY <1>2 DEF Schedule
  <2>2. lane' = lane
    BY <1>2 DEF Schedule, volatile
  <2> QED BY <1>0, <1>z, <2>1, <2>2, NextNumber, NotYetTold DEF Untold, Claimed, Dispatched, IdleLane, NoJob
<1>3. CASE handleComplete
  BY <1>3, <1>0, <1>z DEF handleComplete, rows, volatile, ghosts, Untold, Claimed, Dispatched
<1>4. CASE Pause
  BY <1>4, <1>0, <1>z DEF Pause, GateOpen, Working, rows, volatile, ghosts, Untold, Claimed,
     Dispatched
<1>5. CASE Resume
  BY <1>5, <1>0, <1>z DEF Resume, rows, volatile, ghosts, Untold, Claimed, Dispatched
<1>6. ASSUME NEW j \in Id, handleCancel(j) PROVE Untold'
  BY <1>6, CancelUntold DEF handleCancel
<1>7. ASSUME NEW j \in Id, CancelFinished(j) PROVE Untold'
  BY <1>7, CancelUntold DEF CancelFinished
<1>8. ASSUME NEW j \in Id, handleDeadRetry(j) PROVE Untold'
  BY <1>8, <1>0, <1>z DEF handleDeadRetry, revive, volatile, Untold, Claimed, Dispatched,
     RowsTyped
<1>9. ASSUME NEW j \in Id, handleDeadCancel(j) PROVE Untold'
  BY <1>9, <1>0, <1>z DEF handleDeadCancel, rows, volatile, ghosts, Untold, Claimed, Dispatched
<1>10. CASE BootCut
  <2>1. \A h \in Id : header'[h].n \in {0, header[h].n}
    BY <1>10 DEF BootCut, reindexWalk, restoreOutcome, NoJob, rows
  <2>2. lane' = lane /\ told' = told
    BY <1>10 DEF BootCut, volatile, ghosts
  <2> QED BY <1>0, <1>z, <2>1, <2>2 DEF Untold, Claimed, Dispatched
<1>11. CASE ScheduleCut
  <2>1. PICK i \in Id, due \in Dues, cap \in Caps : handleSchedule(i, due, cap)
    BY <1>11 DEF ScheduleCut
  <2>2. \A h \in Id : <<h, header'[h].n>> \notin told'
    BY <1>0, <1>z, <2>1, NextNumber DEF Untold
  <2> QED BY <1>11, <1>0, <2>1, <2>2, NextNumber, NotArmedStops, StoppedUntold DEF ScheduleCut
<1>12. CASE CancelCut
  <2>1. PICK j \in Id : /\ header' = [header EXCEPT ![j] = NoJob]
                       /\ told' \in {told, told \cup {<<j, header[j].n>>}} /\ Has(header[j])
    BY <1>12 DEF CancelCut, removeRecord
  <2>2. ASSUME NEW h \in Id PROVE <<h, header'[h].n>> \notin told'
    <3>1. CASE h = j
      BY <1>0, <1>z, <2>1, <3>1 DEF RowsTyped, NoJob
    <3>2. CASE h # j
      BY <1>0, <2>1, <3>2 DEF RowsTyped, Untold
    <3> QED BY <3>1, <3>2
  <2>3. \A h \in Id : lane'[h].pc = "idle"
    BY <1>12 DEF CancelCut, Die, IdleLane
  <2> QED BY <2>2, <2>3 DEF Untold, Claimed, Dispatched
<1>13. CASE DeadRetryCut
  <2>1. PICK j \in Id : revive(j)
    BY <1>13 DEF DeadRetryCut
  <2>2. \A h \in Id : <<h, header'[h].n>> \notin told'
    BY <2>1, <1>0 DEF revive, Untold, RowsTyped
  <2>3. told' \subseteq told
    BY <2>1 DEF revive
  <2> QED BY <1>13, <1>0, <2>2, <2>3, NotArmedStops, StoppedUntold DEF DeadRetryCut
<1>14. CASE DeadCancelCut
  BY <1>14, <1>0, StoppedUntold DEF DeadCancelCut, rows, ghosts, Untold
<1>15. CASE PauseCut
  BY <1>15, <1>0, StoppedUntold DEF PauseCut, rows, ghosts, Untold
<1>16. CASE ResumeCut
  BY <1>16, <1>0, StoppedUntold DEF ResumeCut, rows, ghosts, Untold
<1>17. CASE Crash
  BY <1>17, <1>0, <1>z DEF Crash, Die, rows, ghosts, Untold, Claimed, Dispatched, NoJob, IdleLane,
     LaneTyped, Lane
<1>18. CASE AlarmPaused
  BY <1>18, <1>0, <1>z DEF AlarmPaused, rows, volatile, ghosts, Untold, Claimed, Dispatched
<1>19. CASE AlarmIdle
  BY <1>19, <1>0, <1>z DEF AlarmIdle, volatile, ghosts, Untold, Claimed, Dispatched
<1>20. CASE AlarmDrain
  BY <1>20, <1>0, <1>z DEF AlarmDrain, Selected, ghosts, Untold, Claimed, Dispatched, NoJob,
     IdleLane, LaneTyped, Lane
<1>21. CASE EndDrain
  BY <1>21, <1>0, <1>z DEF EndDrain, rows, ghosts, Untold, Claimed, Dispatched
<1>22. CASE CompleteLost
  BY <1>22, <1>0, <1>z DEF CompleteLost, rows, volatile, ghosts, Untold, Claimed, Dispatched
<1>23. CASE Tick
  BY <1>23, <1>0, <1>z DEF Tick, rows, volatile, ghosts, Untold, Claimed, Dispatched
<1>24. ASSUME NEW j \in Id, ClaimGone(j) PROVE Untold'
  BY <1>24, <1>0, <1>z DEF ClaimGone, Free, ghosts, Untold, Claimed, Dispatched, NoJob, IdleLane,
     LaneTyped, Lane
<1>25. ASSUME NEW j \in Id, ClaimSkipped(j) PROVE Untold'
  BY <1>25, <1>0, <1>z DEF ClaimSkipped, Free, rows, ghosts, Untold, Claimed, Dispatched, NoJob,
     IdleLane, LaneTyped, Lane
<1>26. ASSUME NEW j \in Id, Claim(j) PROVE Untold'
  BY <1>26, <1>0, <1>z DEF Claim, NextInLine, Untouched, ghosts, Untold, Claimed, Dispatched,
     LaneTyped, Lane
<1>27. ASSUME NEW j \in Id, PutLease(j) PROVE Untold'
  BY <1>27, <1>0, <1>z DEF PutLease, Move, ghosts, Untold, Claimed, Dispatched, LaneTyped, Lane
<1>28. ASSUME NEW j \in Id, Reserve(j) PROVE Untold'
  BY <1>28, <1>0, <1>z DEF Reserve, Move, rows, ghosts, Untold, Claimed, Dispatched, LaneTyped,
     Lane
<1>29. ASSUME NEW j \in Id, Refuse(j) PROVE Untold'
  BY <1>29, <1>0, <1>z DEF Refuse, Move, rows, ghosts, Untold, Claimed, Dispatched, LaneTyped,
     Lane
<1>30. ASSUME NEW j \in Id, requeuePooled(j) PROVE Untold'
  <2>1. \A h \in Id : header'[h].n = IF h = j THEN lane[j].job.n ELSE header[h].n
    BY <1>30, <1>0, LaneFields DEF requeuePooled, RowsTyped, LaneTyped, Job
  <2>2. told' = told /\ <<j, lane[j].job.n>> \notin told
    BY <1>30, <1>0 DEF requeuePooled, Untold, Claimed, Dispatched, ghosts
  <2>3. \A h \in Id : lane'[h].pc \in {lane[h].pc, "unleasing"} /\ lane'[h].job = lane[h].job /\ lane'[h].cancelled = lane[h].cancelled
    BY <1>30, <1>0 DEF requeuePooled, Move, LaneTyped, Lane
  <2> QED BY <1>0, <2>1, <2>2, <2>3 DEF Untold, Claimed, Dispatched
<1>31. ASSUME NEW j \in Id, Send(j) PROVE Untold'
  BY <1>31, <1>0, <1>z DEF Send, Sent, rows, Untold, Claimed, Dispatched, LaneTyped, Lane
<1>32. ASSUME NEW j \in Id, SendAnswered(j) PROVE Untold'
  BY <1>32, <1>0, <1>z DEF SendAnswered, Sent, rows, Untold, Claimed, Dispatched, LaneTyped, Lane
<1>33. ASSUME NEW j \in Id, SendDeclined(j) PROVE Untold'
  BY <1>33, <1>0, <1>z DEF SendDeclined, Sent, rows, Untold, Claimed, Dispatched, LaneTyped, Lane
<1>34. ASSUME NEW j \in Id, SendLost(j) PROVE Untold'
  BY <1>34, <1>0, <1>z DEF SendLost, Sent, rows, Untold, Claimed, Dispatched, LaneTyped, Lane
<1>35. ASSUME NEW j \in Id, Answer(j) PROVE Untold'
  BY <1>35, <1>0, <1>z DEF Answer, Move, rows, Untold, Claimed, Dispatched, LaneTyped, Lane
<1>36. ASSUME NEW j \in Id, ReleaseSlot(j) PROVE Untold'
  BY <1>36, <1>0, <1>z DEF ReleaseSlot, Move, rows, ghosts, Untold, Claimed, Dispatched,
     LaneTyped, Lane
<1>37. ASSUME NEW j \in Id, CancelledSettles(j) PROVE Untold'
  BY <1>37, <1>0, <1>z DEF CancelledSettles, Move, correctCanceledToSucceeded, rows, ghosts,
     Untold, Claimed, Dispatched, LaneTyped, Lane
<1>38. ASSUME NEW j \in Id, RecordOutcome(j) PROVE Untold'
  BY <1>38, <1>0, <1>z DEF RecordOutcome, Move, rows, ghosts, Untold, Claimed, Dispatched,
     LaneTyped, Lane
<1>39. ASSUME NEW j \in Id, OutcomeRefused(j) PROVE Untold'
  BY <1>39, <1>0, <1>z DEF OutcomeRefused, Move, rows, ghosts, Untold, Claimed, Dispatched,
     LaneTyped, Lane
<1>40. ASSUME NEW j \in Id, Clear(j) PROVE Untold'
  BY <1>40, <1>0, <1>z DEF Clear, clearPending, Move, Untold, Claimed, Dispatched, NoJob,
     RowsTyped, LaneTyped, Lane
<1>41. ASSUME NEW j \in Id, ClearRefused(j) PROVE Untold'
  BY <1>41, <1>0, <1>z DEF ClearRefused, clearPending, Move, rows, Untold, Claimed, Dispatched,
     LaneTyped, Lane
<1>42. ASSUME NEW j \in Id, recordRetry(j) PROVE Untold'
  <2>1. \A h \in Id : header'[h].n = IF h = j THEN lane[j].job.n ELSE header[h].n
    BY <1>42, <1>0, LaneFields DEF recordRetry, RowsTyped, LaneTyped, Job
  <2>2. told' = told /\ <<j, lane[j].job.n>> \notin told
    BY <1>42, <1>0 DEF recordRetry, Fails, Untold, Claimed, Dispatched, ghosts
  <2>3. \A h \in Id : lane'[h].pc \in {lane[h].pc, "unleasing"} /\ lane'[h].job = lane[h].job /\ lane'[h].cancelled = lane[h].cancelled
    BY <1>42, <1>0 DEF recordRetry, Move, LaneTyped, Lane
  <2> QED BY <1>0, <2>1, <2>2, <2>3 DEF Untold, Claimed, Dispatched
<1>43. ASSUME NEW j \in Id, parkDead(j) PROVE Untold'
  BY <1>43, <1>0, <1>z DEF parkDead, Fails, charge, Move, rows, Untold, Claimed, Dispatched,
     LaneTyped, Lane
<1>44. ASSUME NEW j \in Id, Unlease(j) PROVE Untold'
  BY <1>44, <1>0, <1>z DEF Unlease, Free, ghosts, Untold, Claimed, Dispatched, NoJob, IdleLane,
     LaneTyped, Lane
<1>45. ASSUME NEW j \in Id, LaneFault(j) PROVE Untold'
  BY <1>45, <1>0, <1>z DEF LaneFault, rows, ghosts, Untold, Claimed, Dispatched, LaneTyped, Lane
<1>46. ASSUME NEW j \in Id, Catch(j) PROVE Untold'
  <2>1. \A h \in Id : header'[h].n \in {0, header[h].n}
    BY <1>46, <1>0 DEF Catch, CatchWrites, NoJob, RowsTyped
  <2>2. told' = told
    BY <1>46 DEF Catch
  <2>3. \A h \in Id : lane'[h] = lane[h] \/ lane'[h].pc = "idle"
    BY <1>46, <1>0 DEF Catch, Free, LaneTyped, IdleLane
  <2> QED BY <1>0, <1>z, <2>1, <2>2, <2>3 DEF Untold, Claimed, Dispatched
<1>47. ASSUME NEW j \in Id, Disconnect(j) PROVE Untold'
  BY <1>47, <1>0, <1>z DEF Disconnect, rows, ghosts, Untold, Claimed, Dispatched, LaneTyped, Lane
<1>48. ASSUME NEW k \in running, NEW result \in {"ok", "error"}, RunEnds(k, result) PROVE Untold'
  BY <1>48, <1>0, <1>z DEF RunEnds, Awaited, rows, Untold, Claimed, Dispatched, LaneTyped, Lane
<1>49. CASE UNCHANGED vars
  BY <1>49, <1>0, <1>z DEF vars, rows, volatile, ghosts, Untold, Claimed, Dispatched
<1>50. CASE PoolCapCut
  BY <1>50, <1>0, StoppedUntold DEF PoolCapCut, rows, ghosts, Untold
<1>51. CASE DeadRetryLate
  BY <1>51, <1>0, StoppedUntold DEF DeadRetryLate, rows, ghosts, Untold
<1>52. ASSUME NEW j \in Id, CancelRefused(j) PROVE Untold'
  BY <1>52, <1>0, <1>z DEF CancelRefused, MarkCancelled, rows, outcomes, Untold, Claimed,
     Dispatched, LaneTyped, Lane
<1>53. ASSUME NEW j \in Id, CancelUnclocked(j) PROVE Untold'
  <2>1. told' \in {told, told \cup {<<j, header[j].n>>}}
    BY <1>53 DEF CancelUnclocked
  <2> QED BY <1>53, <2>1, CancelUntold DEF CancelUnclocked
<1>54. CASE CompleteUnarmed
  BY <1>54, <1>0, <1>z DEF CompleteUnarmed, rows, outcomes, volatile, ghosts, Untold, Claimed,
     Dispatched, LaneTyped, Lane
<1>55. CASE AlarmRefused
  BY <1>55, <1>0, <1>z DEF AlarmRefused, outcomes, volatile, Untold, Claimed, Dispatched,
     LaneTyped, Lane
<1>56. CASE EndRefused
  BY <1>56, <1>0, <1>z DEF EndRefused, rows, outcomes, Untold, Claimed, Dispatched, LaneTyped, Lane
<1>57. CASE EndCut
  BY <1>57, <1>0, <1>z DEF EndCut, Die, rows, outcomes, IdleLane, NoJob, Untold, Claimed,
     Dispatched, LaneTyped, Lane
<1> QED
  BY <1>1, <1>2, <1>3, <1>4, <1>5, <1>6, <1>7, <1>8, <1>9, <1>10, <1>11, <1>12, <1>13, <1>14,
     <1>15, <1>16, <1>17, <1>18, <1>19, <1>20, <1>21, <1>22, <1>23, <1>24, <1>25, <1>26, <1>27,
     <1>28, <1>29, <1>30, <1>31, <1>32, <1>33, <1>34, <1>35, <1>36, <1>37, <1>38, <1>39, <1>40,
     <1>41, <1>42, <1>43, <1>44, <1>45, <1>46, <1>47, <1>48, <1>49, <1>50, <1>51, <1>52, <1>53,
     <1>54, <1>55, <1>56, <1>57 DEF Next, Request, Cut, Alarm,
     Dispatch, Drain

(* A record is only sent by a lane that has claimed it. *)
LEMMA SendIsClaimed == Inv /\ [Next]_vars => \A h \in Id : SendStep(h) => Claimed(h)
<1> SUFFICES ASSUME Inv, [Next]_vars PROVE \A h \in Id : SendStep(h) => Claimed(h)
  OBVIOUS
<1>0. LaneTyped /\ GhostsTyped
  BY DEF Inv, TypeOK
<1>1. CASE Boot
  BY <1>1, <1>0 DEF Boot, reindexWalk, restoreOutcome, Superseded, Repairable, SendStep, Claimed
<1>2. CASE Schedule
  BY <1>2, <1>0 DEF Schedule, handleSchedule, dropOutcome, volatile, SendStep, Claimed
<1>3. CASE handleComplete
  BY <1>3, <1>0 DEF handleComplete, volatile, SendStep, Claimed
<1>4. CASE Pause
  BY <1>4, <1>0 DEF Pause, GateOpen, Working, volatile, SendStep, Claimed
<1>5. CASE Resume
  BY <1>5, <1>0 DEF Resume, volatile, SendStep, Claimed
<1>6. ASSUME NEW j \in Id, handleCancel(j) PROVE \A h \in Id : SendStep(h) => Claimed(h)
  BY <1>6, <1>0 DEF handleCancel, removeRecord, MarkCancelled, HeldRows, writeCanceled, SendStep,
     Claimed, LaneTyped, Lane
<1>7. ASSUME NEW j \in Id, CancelFinished(j) PROVE \A h \in Id : SendStep(h) => Claimed(h)
  BY <1>7, <1>0 DEF CancelFinished, removeRecord, MarkCancelled, SendStep, Claimed, LaneTyped,
     Lane
<1>8. ASSUME NEW j \in Id, handleDeadRetry(j) PROVE \A h \in Id : SendStep(h) => Claimed(h)
  BY <1>8, <1>0 DEF handleDeadRetry, revive, volatile, SendStep, Claimed
<1>9. ASSUME NEW j \in Id, handleDeadCancel(j) PROVE \A h \in Id : SendStep(h) => Claimed(h)
  BY <1>9, <1>0 DEF handleDeadCancel, volatile, SendStep, Claimed
<1>10. CASE BootCut
  BY <1>10, <1>0 DEF BootCut, reindexWalk, restoreOutcome, Superseded, Repairable, volatile,
     SendStep, Claimed
<1>11. CASE ScheduleCut
  BY <1>11, <1>0, StoppedLanes, NotArmedStops DEF ScheduleCut, handleSchedule, dropOutcome,
     SendStep, Claimed, IdleLane, LaneTyped, Lane
<1>12. CASE CancelCut
  BY <1>12, <1>0 DEF CancelCut, removeRecord, Die, SendStep, Claimed, IdleLane, LaneTyped, Lane
<1>13. CASE DeadRetryCut
  BY <1>13, <1>0, StoppedLanes, NotArmedStops DEF DeadRetryCut, revive, SendStep, Claimed,
     IdleLane, LaneTyped, Lane
<1>14. CASE DeadCancelCut
  BY <1>14, <1>0, StoppedLanes DEF DeadCancelCut, SendStep, Claimed, IdleLane, LaneTyped, Lane
<1>15. CASE PauseCut
  BY <1>15, <1>0, StoppedLanes DEF PauseCut, SendStep, Claimed, IdleLane, LaneTyped, Lane
<1>16. CASE ResumeCut
  BY <1>16, <1>0, StoppedLanes DEF ResumeCut, SendStep, Claimed, IdleLane, LaneTyped, Lane
<1>17. CASE Crash
  BY <1>17, <1>0 DEF Crash, Die, SendStep, Claimed, IdleLane, LaneTyped, Lane
<1>18. CASE AlarmPaused
  BY <1>18, <1>0 DEF AlarmPaused, volatile, SendStep, Claimed
<1>19. CASE AlarmIdle
  BY <1>19, <1>0 DEF AlarmIdle, volatile, SendStep, Claimed
<1>20. CASE AlarmDrain
  BY <1>20, <1>0 DEF AlarmDrain, Selected, SendStep, Claimed, IdleLane, LaneTyped, Lane
<1>21. CASE EndDrain
  BY <1>21, <1>0 DEF EndDrain, SendStep, Claimed
<1>22. CASE CompleteLost
  BY <1>22, <1>0 DEF CompleteLost, volatile, SendStep, Claimed
<1>23. CASE Tick
  BY <1>23, <1>0 DEF Tick, volatile, SendStep, Claimed
<1>24. ASSUME NEW j \in Id, ClaimGone(j) PROVE \A h \in Id : SendStep(h) => Claimed(h)
  BY <1>24, <1>0 DEF ClaimGone, Free, SendStep, Claimed, IdleLane, LaneTyped, Lane
<1>25. ASSUME NEW j \in Id, ClaimSkipped(j) PROVE \A h \in Id : SendStep(h) => Claimed(h)
  BY <1>25, <1>0 DEF ClaimSkipped, Free, SendStep, Claimed, IdleLane, LaneTyped, Lane
<1>26. ASSUME NEW j \in Id, Claim(j) PROVE \A h \in Id : SendStep(h) => Claimed(h)
  BY <1>26, <1>0 DEF Claim, NextInLine, Untouched, SendStep, Claimed, LaneTyped, Lane
<1>27. ASSUME NEW j \in Id, PutLease(j) PROVE \A h \in Id : SendStep(h) => Claimed(h)
  BY <1>27, <1>0 DEF PutLease, Move, SendStep, Claimed, LaneTyped, Lane
<1>28. ASSUME NEW j \in Id, Reserve(j) PROVE \A h \in Id : SendStep(h) => Claimed(h)
  BY <1>28, <1>0 DEF Reserve, Move, SendStep, Claimed, LaneTyped, Lane
<1>29. ASSUME NEW j \in Id, Refuse(j) PROVE \A h \in Id : SendStep(h) => Claimed(h)
  BY <1>29, <1>0 DEF Refuse, Move, SendStep, Claimed, LaneTyped, Lane
<1>30. ASSUME NEW j \in Id, requeuePooled(j) PROVE \A h \in Id : SendStep(h) => Claimed(h)
  BY <1>30, <1>0 DEF requeuePooled, Move, SendStep, Claimed, LaneTyped, Lane
<1>31. ASSUME NEW j \in Id, Send(j) PROVE \A h \in Id : SendStep(h) => Claimed(h)
  BY <1>31, <1>0 DEF Send, Sent, SendStep, Claimed, LaneTyped, Lane
<1>32. ASSUME NEW j \in Id, SendAnswered(j) PROVE \A h \in Id : SendStep(h) => Claimed(h)
  BY <1>32, <1>0 DEF SendAnswered, Sent, SendStep, Claimed, LaneTyped, Lane
<1>33. ASSUME NEW j \in Id, SendDeclined(j) PROVE \A h \in Id : SendStep(h) => Claimed(h)
  BY <1>33, <1>0 DEF SendDeclined, Sent, SendStep, Claimed, LaneTyped, Lane
<1>34. ASSUME NEW j \in Id, SendLost(j) PROVE \A h \in Id : SendStep(h) => Claimed(h)
  BY <1>34, <1>0 DEF SendLost, Sent, SendStep, Claimed, LaneTyped, Lane
<1>35. ASSUME NEW j \in Id, Answer(j) PROVE \A h \in Id : SendStep(h) => Claimed(h)
  BY <1>35, <1>0 DEF Answer, Move, SendStep, Claimed, LaneTyped, Lane
<1>36. ASSUME NEW j \in Id, ReleaseSlot(j) PROVE \A h \in Id : SendStep(h) => Claimed(h)
  BY <1>36, <1>0 DEF ReleaseSlot, Move, SendStep, Claimed, LaneTyped, Lane
<1>37. ASSUME NEW j \in Id, CancelledSettles(j) PROVE \A h \in Id : SendStep(h) => Claimed(h)
  BY <1>37, <1>0 DEF CancelledSettles, Move, correctCanceledToSucceeded, SendStep, Claimed,
     LaneTyped, Lane
<1>38. ASSUME NEW j \in Id, RecordOutcome(j) PROVE \A h \in Id : SendStep(h) => Claimed(h)
  BY <1>38, <1>0 DEF RecordOutcome, Move, SendStep, Claimed, LaneTyped, Lane
<1>39. ASSUME NEW j \in Id, OutcomeRefused(j) PROVE \A h \in Id : SendStep(h) => Claimed(h)
  BY <1>39, <1>0 DEF OutcomeRefused, Move, SendStep, Claimed, LaneTyped, Lane
<1>40. ASSUME NEW j \in Id, Clear(j) PROVE \A h \in Id : SendStep(h) => Claimed(h)
  BY <1>40, <1>0 DEF Clear, clearPending, Move, SendStep, Claimed, LaneTyped, Lane
<1>41. ASSUME NEW j \in Id, ClearRefused(j) PROVE \A h \in Id : SendStep(h) => Claimed(h)
  BY <1>41, <1>0 DEF ClearRefused, clearPending, Move, SendStep, Claimed, LaneTyped, Lane
<1>42. ASSUME NEW j \in Id, recordRetry(j) PROVE \A h \in Id : SendStep(h) => Claimed(h)
  BY <1>42, <1>0 DEF recordRetry, Fails, charge, Move, SendStep, Claimed, LaneTyped, Lane
<1>43. ASSUME NEW j \in Id, parkDead(j) PROVE \A h \in Id : SendStep(h) => Claimed(h)
  BY <1>43, <1>0 DEF parkDead, Fails, charge, Move, SendStep, Claimed, LaneTyped, Lane
<1>44. ASSUME NEW j \in Id, Unlease(j) PROVE \A h \in Id : SendStep(h) => Claimed(h)
  BY <1>44, <1>0 DEF Unlease, Free, SendStep, Claimed, IdleLane, LaneTyped, Lane
<1>45. ASSUME NEW j \in Id, LaneFault(j) PROVE \A h \in Id : SendStep(h) => Claimed(h)
  BY <1>45, <1>0 DEF LaneFault, SendStep, Claimed, LaneTyped, Lane
<1>46. ASSUME NEW j \in Id, Catch(j) PROVE \A h \in Id : SendStep(h) => Claimed(h)
  BY <1>46, <1>0 DEF Catch, CatchWrites, Free, SendStep, Claimed, IdleLane, LaneTyped, Lane
<1>47. ASSUME NEW j \in Id, Disconnect(j) PROVE \A h \in Id : SendStep(h) => Claimed(h)
  BY <1>47, <1>0 DEF Disconnect, SendStep, Claimed, LaneTyped, Lane
<1>48. ASSUME NEW k \in running, NEW result \in {"ok", "error"}, RunEnds(k, result) PROVE \A h \in Id : SendStep(h) => Claimed(h)
  BY <1>48, <1>0 DEF RunEnds, Awaited, SendStep, Claimed, LaneTyped, Lane
<1>49. CASE UNCHANGED vars
  BY <1>49, <1>0 DEF vars, volatile, SendStep, Claimed
<1>50. CASE PoolCapCut
  BY <1>50, <1>0, StoppedLanes DEF PoolCapCut, IdleLane, SendStep, Claimed, LaneTyped, Lane
<1>51. CASE DeadRetryLate
  BY <1>51, <1>0, StoppedLanes DEF DeadRetryLate, IdleLane, SendStep, Claimed, LaneTyped, Lane
<1>52. ASSUME NEW j \in Id, CancelRefused(j) PROVE \A h \in Id : SendStep(h) => Claimed(h)
  BY <1>52, <1>0 DEF CancelRefused, MarkCancelled, SendStep, Claimed, LaneTyped, Lane
<1>53. ASSUME NEW j \in Id, CancelUnclocked(j) PROVE \A h \in Id : SendStep(h) => Claimed(h)
  BY <1>53, <1>0 DEF CancelUnclocked, removeRecord, MarkCancelled, HeldRows, writeCanceled,
     SendStep, Claimed, LaneTyped, Lane
<1>54. CASE CompleteUnarmed
  BY <1>54, <1>0 DEF CompleteUnarmed, volatile, SendStep, Claimed, LaneTyped, Lane
<1>55. CASE AlarmRefused
  BY <1>55, <1>0 DEF AlarmRefused, volatile, SendStep, Claimed, LaneTyped, Lane
<1>56. CASE EndRefused
  BY <1>56, <1>0 DEF EndRefused, SendStep, Claimed, LaneTyped, Lane
<1>57. CASE EndCut
  BY <1>57, <1>0 DEF EndCut, Die, IdleLane, SendStep, Claimed, LaneTyped, Lane
<1> QED
  BY <1>1, <1>2, <1>3, <1>4, <1>5, <1>6, <1>7, <1>8, <1>9, <1>10, <1>11, <1>12, <1>13, <1>14,
     <1>15, <1>16, <1>17, <1>18, <1>19, <1>20, <1>21, <1>22, <1>23, <1>24, <1>25, <1>26, <1>27,
     <1>28, <1>29, <1>30, <1>31, <1>32, <1>33, <1>34, <1>35, <1>36, <1>37, <1>38, <1>39, <1>40,
     <1>41, <1>42, <1>43, <1>44, <1>45, <1>46, <1>47, <1>48, <1>49, <1>50, <1>51, <1>52, <1>53,
     <1>54, <1>55, <1>56, <1>57 DEF Next, Request, Cut, Alarm,
     Dispatch, Drain

(* The invariant holds initially and is kept by every step. *)
LEMMA InitInv == Init => Inv
<1> SUFFICES ASSUME Init PROVE Inv
  OBVIOUS
<1>1. TypeOK
  BY InitTyped
<1>2. Numbered /\ Untold /\ Unpaused
  BY DEF Init, Numbered, Untold, Unpaused, Claimed, Dispatched, IdleLane, NoJob, NoRow
<1> QED BY <1>1, <1>2 DEF Inv

(* Every reachable state satisfies it. *)
LEMMA Invariance == Spec => []Inv
<1>1. Inv /\ [Next]_vars => Inv'
  BY TypeStep, NumberedStep, UnpausedStep, UntoldStep DEF Inv
<1> QED BY <1>1, InitInv, PTL DEF Spec

(* /cancel holds (handleCancel): a job it told the caller it removed is never sent or re-armed. *)
THEOREM CancelIsFinal == Spec => CancelHolds
<1> DEFINE Held == \A j \in Id : /\ SendStep(j) => Key(j) \notin told
                                 /\ Has(header'[j]) => <<j, header'[j].n>> \notin told'
<1>1. Inv /\ [Next]_vars => [Held]_vars
  <2> SUFFICES ASSUME Inv, [Next]_vars PROVE Held
    OBVIOUS
  <2>1. \A j \in Id : SendStep(j) => Key(j) \notin told
    BY SendIsClaimed DEF Inv, Untold
  <2>2. Untold'
    BY UntoldStep
  <2> QED BY <2>1, <2>2 DEF Untold
<1> QED BY <1>1, Invariance, PTL DEF Spec, CancelHolds

(* A paused deployment sends nothing, however a pause and a drain interleave. *)
THEOREM PauseHolds == Spec => NoSendWhilePaused
<1> DEFINE Held == \A j \in Id : SendStep(j) => ~paused
<1>1. Inv /\ [Next]_vars => [Held]_vars
  BY SendIsClaimed DEF Inv, Unpaused
<1> QED BY <1>1, Invariance, PTL DEF Spec, NoSendWhilePaused
=============================================================================
