---------------------------- MODULE CronRunsProofs ----------------------------
(***************************************************************************)
(* Proofs about CronRuns, for every value of its constants: types, that no *)
(* run vanishes, that only its holder gives a live lease up, and that      *)
(* guarded runs do not overlap unless one failed to renew twice in a row.  *)
(***************************************************************************)
EXTENDS CronRuns, TLAPS, SequenceTheorems

(* Every run that a row of the history names was reported or recorded as lost. *)
Accounted == {0} \cup reported \cup lost
RowsOver(R) == [run: R, status: Status]
KnownRows == history \in Seq(RowsOver(Accounted))

(* Ids are handed out in order, to one isolate each. *)
Numbered ==
    /\ lease.run <= runs
    /\ \A w \in Worker : worker[w].run <= runs
    /\ \A w \in Worker : Guarded(w) \/ Ending(w) => worker[w].run # 0
    /\ \A v, w \in Worker : worker[v].run = worker[w].run /\ worker[v].run # 0 => v = w

(* An isolate that missed at most one renewal holds a lease that is still young. *)
Young(w) ==
    /\ ~Is(w, "lapsed")
    /\ lease.run = worker[w].run
    /\ Is(w, "granted") => missed[w] = 0 /\ lease.idle + worker[w].timer <= Latency
    /\ Is(w, "running") /\ missed[w] = 0 => lease.idle + worker[w].timer <= Latency + Renew
    /\ Is(w, "running") => lease.idle + worker[w].timer <= Latency + 2 * Renew
Fresh ==
    /\ \A w \in Worker : Guarded(w) /\ missed[w] <= 1 => Young(w)
    /\ \A w \in Worker : Is(w, "running") \/ Is(w, "lapsed") \/ missed[w] = 0

Inv == TypeOK /\ KnownRows /\ Numbered /\ Fresh /\ RunAccounted

(* The facts TypeOK states of each group of variables. *)
LeaseTyped   == lease \in LeaseRow /\ runs \in Nat /\ reported \subseteq Nat /\ lost \subseteq Nat
WorkerTyped  == worker \in [Worker -> WorkerRow] /\ missed \in [Worker -> Nat]
BoundsTyped  == paused \in BOOLEAN /\ pauses \in Nat /\ faults \in Nat /\ losses \in Nat
HistoryShort == Len(history) <= HistoryLimit + faults
-----------------------------------------------------------------------------
(* Rows stay rows, whatever is written in front of them or dropped behind. *)
LEMMA RowsWritten ==
    ASSUME NEW S, history \in Seq(S), NEW row \in S
    PROVE  /\ Put(row) \in Seq(S) /\ Len(Put(row)) = Len(history) + 1
           /\ Trimmed(Put(row)) \in Seq(S) /\ Len(Trimmed(Put(row))) <= HistoryLimit
<1> USE ConstantsAssumption
<1>1. <<row>> \in Seq(S) /\ Len(<<row>>) = 1
  OBVIOUS
<1>2. Put(row) \in Seq(S) /\ Len(Put(row)) = Len(history) + 1
  BY <1>1, ConcatProperties DEF Put
<1> DEFINE n == IF Len(Put(row)) < HistoryLimit THEN Len(Put(row)) ELSE HistoryLimit
<1>3. n \in 0..Len(Put(row)) /\ n <= HistoryLimit
  BY <1>2, LenProperties
<1>4. SubSeq(Put(row), 1, n) \in Seq(S) /\ Len(SubSeq(Put(row), 1, n)) = n
  BY SMTT(30), <1>2, <1>3
<1>5. QED
  BY <1>2, <1>3, <1>4 DEF Trimmed

(* A sequence over a set is one over a larger set. *)
LEMMA RowsWiden ==
    ASSUME NEW S, NEW U, S \subseteq U, NEW h \in Seq(S)
    PROVE  h \in Seq(U)
OBVIOUS

(* A run named by a row of the history is accounted for. *)
LEMMA KnownAccounted ==
    ASSUME KnownRows, NEW r, Known(r)
    PROVE  r \in Accounted
<1>1. PICK i \in 1..Len(history) : history[i].run = r
  BY DEF Known
<1>2. history[i] \in RowsOver(Accounted)
  BY <1>1, ElementOfSeq DEF KnownRows
<1>3. QED
  BY <1>1, <1>2 DEF RowsOver

(* What the shared parts of the handlers do to the store. *)
LEMMA SkipRecorded ==
    ASSUME KnownRows, HistoryShort, faults \in Nat, lost' = lost, reported' = reported,
           NEW reason \in {"paused", "in-flight"}, recordCronSkip(reason)
    PROVE  KnownRows' /\ HistoryShort' /\ faults' \in Nat
<1> USE ConstantsAssumption
<1>1. Accounted' = Accounted
  BY DEF Accounted
<1>2. Row(0, reason) \in RowsOver(Accounted)
  BY DEF Row, RowsOver, Status, Accounted
<1>3. \/ history' = Trimmed(Put(Row(0, reason))) /\ faults' = faults
      \/ history' = history /\ faults' \in {faults, faults + 1}
  BY DEF recordCronSkip, recordCronRun
<1>4. /\ Trimmed(Put(Row(0, reason))) \in Seq(RowsOver(Accounted))
      /\ Len(Trimmed(Put(Row(0, reason)))) <= HistoryLimit
  BY <1>2, RowsWritten DEF KnownRows
<1>5. CASE history' = Trimmed(Put(Row(0, reason))) /\ faults' = faults
  BY <1>1, <1>4, <1>5, LenProperties DEF KnownRows, HistoryShort
<1>6. CASE history' = history /\ faults' \in {faults, faults + 1}
  BY SMTT(30), <1>1, <1>6, LenProperties DEF KnownRows, HistoryShort
<1>7. QED
  BY <1>3, <1>5, <1>6

(* A run row is written for a run that is accounted for from then on. *)
LEMMA RunRecorded ==
    ASSUME KnownRows, HistoryShort, faults \in Nat, lost \subseteq lost', reported \subseteq reported',
           NEW r, r \in Accounted', NEW status \in Status,
           \/ history' = Trimmed(Put(Row(r, status))) /\ faults' = faults
           \/ history' \in {Put(Row(r, status)), Trimmed(Put(Row(r, status)))} /\ faults' = faults + 1
    PROVE  KnownRows' /\ HistoryShort'
<1> USE ConstantsAssumption
<1> DEFINE S == RowsOver(Accounted')
<1>1. RowsOver(Accounted) \subseteq S
  BY DEF RowsOver, Accounted
<1>2. history \in Seq(S)
  BY <1>1, RowsWiden DEF KnownRows
<1>3. Row(r, status) \in S
  BY DEF Row, RowsOver
<1> HIDE DEF S
<1>4. /\ Put(Row(r, status)) \in Seq(S) /\ Len(Put(Row(r, status))) = Len(history) + 1
      /\ Trimmed(Put(Row(r, status))) \in Seq(S)
      /\ Len(Trimmed(Put(Row(r, status)))) <= HistoryLimit
  BY <1>2, <1>3, RowsWritten
<1>5. KnownRows' <=> history' \in Seq(S)
  BY DEF KnownRows, S, RowsOver
<1>6. Len(history) \in Nat
  BY <1>2, LenProperties
<1>7. HistoryLimit \in Nat /\ Len(history) <= HistoryLimit + faults
  BY DEF HistoryShort
<1>8. CASE history' = Trimmed(Put(Row(r, status))) /\ faults' \in {faults, faults + 1}
  <2>1. Len(history') \in Nat
    BY <1>4, <1>8, LenProperties
  <2>2. QED
    BY SMTT(30), <1>4, <1>5, <1>7, <1>8, <2>1 DEF HistoryShort
<1>9. CASE history' = Put(Row(r, status)) /\ faults' = faults + 1
  BY SMTT(30), <1>4, <1>5, <1>6, <1>7, <1>9 DEF HistoryShort
<1>10. QED
  BY <1>8, <1>9

(* Recording a lost run leaves the run of the lease accounted for. *)
LEMMA LostRecorded ==
    ASSUME KnownRows, HistoryShort, LeaseTyped, faults \in Nat, reported' = reported,
           (recordLostCronRun /\ faults' = faults) \/ (recordLostCut /\ faults' = faults + 1)
    PROVE  /\ KnownRows' /\ HistoryShort'
           /\ lost \subseteq lost' /\ lost' \subseteq Nat
           /\ lease.run \in Accounted'
<1> USE ConstantsAssumption
<1>1. CASE UNCHANGED <<history, lost, faults>>
  <2>1. lease.run \in Accounted
    BY <1>1, KnownAccounted DEF recordLostCronRun, recordLostCut, Accounted, LeaseTyped
  <2>2. QED
    BY <1>1, <2>1 DEF KnownRows, Accounted, HistoryShort, LeaseTyped
<1>2. CASE /\ lost' = lost \cup {lease.run}
           /\ \/ history' = Trimmed(Put(Row(lease.run, "lost"))) /\ faults' = faults
              \/ /\ history' \in {Put(Row(lease.run, "lost")), Trimmed(Put(Row(lease.run, "lost")))}
                 /\ faults' = faults + 1
  <2>1. lease.run \in Nat
    BY DEF LeaseTyped, LeaseRow
  <2>2. lease.run \in Accounted' /\ lost' \subseteq Nat /\ lost \subseteq lost'
    BY <1>2, <2>1 DEF Accounted, LeaseTyped
  <2>3. "lost" \in Status
    BY DEF Status
  <2>4. QED
    BY <1>2, <2>2, <2>3, RunRecorded
<1>3. QED
  BY <1>1, <1>2 DEF recordLostCronRun, recordLostCut, recordCronRun, recordCronRunCut

(* A tick that takes the lease records the run that lost it first. *)
LEMMA Taken ==
    ASSUME KnownRows, HistoryShort, LeaseTyped, faults \in Nat, BeginTakes,
           reported' = reported, faults' = faults
    PROVE  /\ KnownRows' /\ HistoryShort' /\ LeaseTyped'
           /\ lost \subseteq lost' /\ lease.run \in Accounted'
           /\ lease' = [run |-> runs + 1, idle |-> 0] /\ runs' = runs + 1
<1>1. recordLostCronRun
  BY DEF BeginTakes
<1>2. lease' = [run |-> runs + 1, idle |-> 0] /\ runs' = runs + 1
  BY DEF BeginTakes
<1>3. 0 \in 0..Lease
  BY ConstantsAssumption
<1>4. lease' \in LeaseRow /\ runs' \in Nat
  BY <1>2, <1>3 DEF LeaseRow, LeaseTyped
<1>5. QED
  BY <1>1, <1>2, <1>4, LostRecorded DEF LeaseTyped

(* A young lease is live. *)
LEMMA YoungIsLive ==
    ASSUME Inv, NEW w \in Worker, Guarded(w), missed[w] <= 1
    PROVE  leaseIsLive /\ Young(w)
<1>1. Young(w)
  BY DEF Inv, Fresh
<1>2. lease.run # 0
  BY <1>1 DEF Inv, Numbered, Young
<1>3. lease.idle \in Nat /\ worker[w].timer \in Nat
  BY DEF Inv, TypeOK, LeaseRow, WorkerRow
<1>4. CASE Is(w, "granted")
  BY <1>1, <1>2, <1>3, <1>4, ConstantsAssumption DEF Young, leaseIsLive
<1>5. CASE Is(w, "running")
  BY <1>1, <1>2, <1>3, <1>5, ConstantsAssumption DEF Young, leaseIsLive
<1>6. QED
  BY <1>1, <1>4, <1>5 DEF Guarded, Young
-----------------------------------------------------------------------------
(* TypeOK by groups of variables, with what the rows of the history name. *)
Parts == KnownRows /\ HistoryShort /\ LeaseTyped /\ WorkerTyped /\ BoundsTyped

(* The groups together are the type invariant. *)
LEMMA PartsAreTypeOK == Parts <=> TypeOK /\ KnownRows
<1>1. ASSUME LeaseTyped, KnownRows PROVE history \in Seq(RunRow)
  <2>1. Accounted \subseteq Nat
    BY <1>1 DEF Accounted, LeaseTyped
  <2>2. RowsOver(Accounted) \subseteq RunRow
    BY <2>1 DEF RowsOver, RunRow
  <2>3. QED
    BY <1>1, <2>2, RowsWiden DEF KnownRows
<1>2. QED
  BY <1>1 DEF Parts, TypeOK, HistoryShort, LeaseTyped, WorkerTyped, BoundsTyped

(* No step leaves the types. *)
LEMMA TypeStep == Inv /\ Next => Parts'
<1> SUFFICES ASSUME Inv, Next PROVE Parts'
  OBVIOUS
<1> USE ConstantsAssumption
<1>1. Parts
  BY PartsAreTypeOK DEF Inv
<1>11. ASSUME NEW w \in Worker, TickSkipped(w) PROVE Parts'
  <2>1. PICK reason \in {"paused", "in-flight"} : BeginSkips(reason)
    BY <1>11 DEF TickSkipped
  <2>2. KnownRows' /\ HistoryShort' /\ faults' \in Nat
    BY <1>11, <1>1, <2>1, SkipRecorded DEF TickSkipped, BeginSkips, Parts, BoundsTyped
  <2>3. QED
    BY <1>11, <1>1, <2>1, <2>2 DEF TickSkipped, BeginSkips, Parts, LeaseTyped, WorkerTyped, BoundsTyped
<1>12. ASSUME NEW w \in Worker, TickTakes(w) PROVE Parts'
  <2>1. BeginTakes /\ faults' = faults /\ reported' = reported
    BY <1>12 DEF TickTakes, bounds
  <2>2. KnownRows' /\ HistoryShort' /\ LeaseTyped'
    BY <1>1, <2>1, Taken DEF Parts, BoundsTyped
  <2>3. [pc |-> "granted", run |-> runs + 1, timer |-> Latency] \in WorkerRow
    BY <1>1 DEF Parts, LeaseTyped, WorkerRow, WorkerPc
  <2>4. QED
    BY <1>12, <1>1, <2>2, <2>3 DEF TickTakes, Becomes, bounds, Parts, WorkerTyped, BoundsTyped
<1>13. ASSUME NEW w \in Worker, TickUnanswered(w) PROVE Parts'
  <2>1. Unguarded \in WorkerRow
    BY DEF Unguarded, WorkerRow, WorkerPc
  <2>2. WorkerTyped' /\ paused' = paused /\ pauses' = pauses /\ reported' = reported /\ losses' \in Nat
    BY <1>13, <1>1, <2>1 DEF TickUnanswered, Becomes, Parts, WorkerTyped, BoundsTyped
  <2>3. CASE \E reason \in {"paused", "in-flight"} : BeginSkips(reason)
    <3>1. PICK reason \in {"paused", "in-flight"} : BeginSkips(reason)
      BY <2>3
    <3>2. KnownRows' /\ HistoryShort' /\ faults' \in Nat
      BY <1>1, <2>2, <3>1, SkipRecorded DEF BeginSkips, Parts, BoundsTyped
    <3>3. QED
      BY <1>1, <2>2, <3>1, <3>2 DEF BeginSkips, Parts, LeaseTyped, BoundsTyped
  <2>4. CASE BeginTakes /\ UNCHANGED faults
    BY <1>1, <2>2, <2>4, Taken DEF Parts, BoundsTyped
  <2>5. CASE UNCHANGED <<store, runs, lost, faults>>
    BY <1>1, <2>2, <2>5 DEF store, Parts, LeaseTyped, BoundsTyped, KnownRows, Accounted, HistoryShort
  <2>6. QED
    BY <1>13, <2>3, <2>4, <2>5 DEF TickUnanswered
<1>14. ASSUME NEW w \in Worker, TickCut(w) PROVE Parts'
  <2>1. KnownRows' /\ HistoryShort' /\ lost' \subseteq Nat
    BY <1>14, <1>1, LostRecorded DEF TickCut, bounds, Parts, BoundsTyped
  <2>2. LeaseTyped' /\ BoundsTyped'
    BY <1>14, <1>1, <2>1 DEF TickCut, bounds, NoLease, LeaseRow, Parts, LeaseTyped, BoundsTyped
  <2>3. WorkerTyped'
    BY <1>14, <1>1 DEF TickCut, Becomes, Unguarded, WorkerRow, WorkerPc, Parts, WorkerTyped
  <2>4. QED
    BY <2>1, <2>2, <2>3 DEF Parts
<1>15. ASSUME NEW w \in Worker, Start(w) PROVE Parts'
  <2>1. KnownRows' /\ HistoryShort'
    BY <1>15, <1>1 DEF Start, store, bounds, ghosts, KnownRows, Accounted, HistoryShort, Parts
  <2>2. LeaseTyped' /\ BoundsTyped'
    BY <1>15, <1>1 DEF Start, store, bounds, ghosts, Parts, LeaseTyped, BoundsTyped
  <2>3. WorkerTyped'
    BY <1>15, <1>1 DEF Start, ghosts, Parts, Becomes, KeepsTimer, WorkerTyped, WorkerRow, WorkerPc, Idle, Unguarded
  <2>4. QED
    BY <2>1, <2>2, <2>3 DEF Parts
<1>16. ASSUME NEW w \in Worker, Renewed(w) PROVE Parts'
  <2>1. KnownRows' /\ HistoryShort'
    BY <1>16, <1>1 DEF Renewed, store, bounds, ghosts, KnownRows, Accounted, HistoryShort, Parts
  <2>2. LeaseTyped' /\ BoundsTyped'
    BY <1>16, <1>1 DEF Renewed, store, bounds, ghosts, Parts, LeaseTyped, BoundsTyped, handleCronRenew, LeaseRow
  <2>3. WorkerTyped'
    BY <1>16, <1>1 DEF Renewed, ghosts, Parts, Becomes, KeepsTimer, WorkerTyped, WorkerRow, WorkerPc, Idle, Unguarded
  <2>4. QED
    BY <2>1, <2>2, <2>3 DEF Parts
<1>17. ASSUME NEW w \in Worker, RenewRefused(w) PROVE Parts'
  <2>1. KnownRows' /\ HistoryShort'
    BY <1>17, <1>1 DEF RenewRefused, store, bounds, ghosts, KnownRows, Accounted, HistoryShort, Parts
  <2>2. LeaseTyped' /\ BoundsTyped'
    BY <1>17, <1>1 DEF RenewRefused, store, bounds, ghosts, Parts, LeaseTyped, BoundsTyped
  <2>3. WorkerTyped'
    BY <1>17, <1>1 DEF RenewRefused, ghosts, Parts, Becomes, KeepsTimer, WorkerTyped, WorkerRow, WorkerPc, Idle, Unguarded
  <2>4. QED
    BY <2>1, <2>2, <2>3 DEF Parts
<1>18. ASSUME NEW w \in Worker, RenewUnanswered(w) PROVE Parts'
  <2>1. KnownRows' /\ HistoryShort'
    BY <1>18, <1>1 DEF RenewUnanswered, store, bounds, ghosts, KnownRows, Accounted, HistoryShort, Parts
  <2>2. LeaseTyped' /\ BoundsTyped'
    BY <1>18, <1>1 DEF RenewUnanswered, store, bounds, ghosts, Parts, LeaseTyped, BoundsTyped, handleCronRenew, LeaseRow
  <2>3. WorkerTyped'
    BY <1>18, <1>1 DEF RenewUnanswered, ghosts, Parts, Becomes, KeepsTimer, WorkerTyped, WorkerRow, WorkerPc, Idle, Unguarded
  <2>4. QED
    BY <2>1, <2>2, <2>3 DEF Parts
<1>19. ASSUME NEW w \in Worker, NEW status \in {"succeeded", "failed"}, RunEnds(w, status) PROVE Parts'
  <2>1. KnownRows' /\ HistoryShort'
    BY <1>19, <1>1 DEF RunEnds, store, bounds, KnownRows, Accounted, HistoryShort, Parts
  <2>2. LeaseTyped' /\ BoundsTyped'
    BY <1>19, <1>1 DEF RunEnds, store, bounds, Parts, LeaseTyped, BoundsTyped
  <2>3. [worker[w] EXCEPT !.pc = status, !.timer = 0] \in WorkerRow /\ Idle \in WorkerRow
    BY <1>1 DEF Parts, WorkerTyped, WorkerRow, WorkerPc, Idle
  <2>4. WorkerTyped'
    BY <1>19, <1>1, <2>3 DEF RunEnds, Becomes, Parts, WorkerTyped
  <2>5. QED
    BY <2>1, <2>2, <2>4 DEF Parts
<1>20. ASSUME NEW w \in Worker, Reported(w) PROVE Parts'
  <2>1. worker[w].pc \in Status /\ lease.run \in Accounted' /\ reported' \subseteq Nat
    BY <1>20, <1>1 DEF Reported, Ending, Is, Status, Accounted, Parts, LeaseTyped, LeaseRow
  <2>2. KnownRows' /\ HistoryShort'
    BY <1>20, <1>1, <2>1, RunRecorded
    DEF Reported, recordCronRun, recordCronRunCut, bounds, Parts, BoundsTyped
  <2>3. LeaseTyped' /\ BoundsTyped'
    BY <1>20, <1>1, <2>1 DEF Reported, bounds, NoLease, LeaseRow, Parts, LeaseTyped, BoundsTyped
  <2>4. WorkerTyped'
    BY <1>20, <1>1 DEF Reported, Becomes, Idle, WorkerRow, WorkerPc, Parts, WorkerTyped
  <2>5. QED
    BY <2>2, <2>3, <2>4 DEF Parts
<1>21. ASSUME NEW w \in Worker, ReportCut(w) PROVE Parts'
  <2>1. worker[w].pc \in Status /\ lease.run \in Accounted' /\ reported' \subseteq Nat
    BY <1>21, <1>1 DEF ReportCut, Ending, Is, Status, Accounted, Parts, LeaseTyped, LeaseRow
  <2>2. KnownRows' /\ HistoryShort'
    BY <1>21, <1>1, <2>1, RunRecorded
    DEF ReportCut, recordCronRun, recordCronRunCut, bounds, Parts, BoundsTyped
  <2>3. LeaseTyped' /\ BoundsTyped'
    BY <1>21, <1>1, <2>1 DEF ReportCut, bounds, NoLease, LeaseRow, Parts, LeaseTyped, BoundsTyped
  <2>4. WorkerTyped'
    BY <1>21, <1>1 DEF ReportCut, Becomes, Idle, WorkerRow, WorkerPc, Parts, WorkerTyped
  <2>5. QED
    BY <2>2, <2>3, <2>4 DEF Parts
<1>22. ASSUME NEW w \in Worker, ReportIgnored(w) PROVE Parts'
  <2>1. KnownRows' /\ HistoryShort'
    BY <1>22, <1>1 DEF ReportIgnored, store, bounds, ghosts, KnownRows, Accounted, HistoryShort, Parts
  <2>2. LeaseTyped' /\ BoundsTyped'
    BY <1>22, <1>1 DEF ReportIgnored, store, bounds, ghosts, Parts, LeaseTyped, BoundsTyped
  <2>3. WorkerTyped'
    BY <1>22, <1>1 DEF ReportIgnored, ghosts, Parts, Becomes, KeepsTimer, WorkerTyped, WorkerRow, WorkerPc, Idle, Unguarded
  <2>4. QED
    BY <2>1, <2>2, <2>3 DEF Parts
<1>23. ASSUME NEW w \in Worker, ReportLost(w) PROVE Parts'
  <2>1. KnownRows' /\ HistoryShort'
    BY <1>23, <1>1 DEF ReportLost, store, bounds, ghosts, KnownRows, Accounted, HistoryShort, Parts
  <2>2. LeaseTyped' /\ BoundsTyped'
    BY <1>23, <1>1 DEF ReportLost, store, bounds, ghosts, Parts, LeaseTyped, BoundsTyped
  <2>3. WorkerTyped'
    BY <1>23, <1>1 DEF ReportLost, ghosts, Parts, Becomes, KeepsTimer, WorkerTyped, WorkerRow, WorkerPc, Idle, Unguarded
  <2>4. QED
    BY <2>1, <2>2, <2>3 DEF Parts
<1>24. ASSUME NEW w \in Worker, Dies(w) PROVE Parts'
  <2>1. KnownRows' /\ HistoryShort'
    BY <1>24, <1>1 DEF Dies, store, bounds, ghosts, KnownRows, Accounted, HistoryShort, Parts
  <2>2. LeaseTyped' /\ BoundsTyped'
    BY <1>24, <1>1 DEF Dies, store, bounds, ghosts, Parts, LeaseTyped, BoundsTyped
  <2>3. WorkerTyped'
    BY <1>24, <1>1 DEF Dies, ghosts, Parts, Becomes, KeepsTimer, WorkerTyped, WorkerRow, WorkerPc, Idle, Unguarded
  <2>4. QED
    BY <2>1, <2>2, <2>3 DEF Parts
<1>25. ASSUME ListRuns PROVE Parts'
  <2>1. KnownRows' /\ HistoryShort' /\ lost' \subseteq Nat
    BY <1>25, <1>1, LostRecorded DEF ListRuns, bounds, Parts, BoundsTyped
  <2>2. LeaseTyped' /\ BoundsTyped'
    BY <1>25, <1>1, <2>1 DEF ListRuns, bounds, NoLease, LeaseRow, Parts, LeaseTyped, BoundsTyped
  <2>3. WorkerTyped'
    BY <1>25, <1>1 DEF ListRuns, Becomes, Unguarded, WorkerRow, WorkerPc, Parts, WorkerTyped
  <2>4. QED
    BY <2>1, <2>2, <2>3 DEF Parts
<1>26. ASSUME ListRunsCut PROVE Parts'
  <2>1. KnownRows' /\ HistoryShort' /\ lost' \subseteq Nat
    BY <1>26, <1>1, LostRecorded DEF ListRunsCut, bounds, Parts, BoundsTyped
  <2>2. LeaseTyped' /\ BoundsTyped'
    BY <1>26, <1>1, <2>1 DEF ListRunsCut, bounds, NoLease, LeaseRow, Parts, LeaseTyped, BoundsTyped
  <2>3. WorkerTyped'
    BY <1>26, <1>1 DEF ListRunsCut, Becomes, Unguarded, WorkerRow, WorkerPc, Parts, WorkerTyped
  <2>4. QED
    BY <2>1, <2>2, <2>3 DEF Parts
<1>27. ASSUME SetPause PROVE Parts'
  <2>1. KnownRows' /\ HistoryShort'
    BY <1>27, <1>1 DEF SetPause, store, bounds, ghosts, KnownRows, Accounted, HistoryShort, Parts
  <2>2. LeaseTyped' /\ BoundsTyped'
    BY <1>27, <1>1 DEF SetPause, store, bounds, ghosts, Parts, LeaseTyped, BoundsTyped
  <2>3. WorkerTyped'
    BY <1>27, <1>1 DEF SetPause, ghosts, Parts, Becomes, KeepsTimer, WorkerTyped, WorkerRow, WorkerPc, Idle, Unguarded
  <2>4. QED
    BY <2>1, <2>2, <2>3 DEF Parts
<1>28. ASSUME Elapse PROVE Parts'
  <2>1. KnownRows' /\ HistoryShort'
    BY <1>28, <1>1 DEF Elapse, store, bounds, ghosts, KnownRows, Accounted, HistoryShort, Parts
  <2>2. LeaseTyped' /\ BoundsTyped'
    BY <1>28, <1>1 DEF Elapse, store, bounds, ghosts, Parts, LeaseTyped, BoundsTyped, Older, Counting, LeaseRow
  <2>3. WorkerTyped'
    BY <1>28, <1>1 DEF Elapse, ghosts, Parts, Becomes, KeepsTimer, WorkerTyped, WorkerRow, WorkerPc, Idle, Unguarded, Counting
  <2>4. QED
    BY <2>1, <2>2, <2>3 DEF Parts
<1>29. QED
  BY <1>11, <1>12, <1>13, <1>14, <1>15, <1>16, <1>17, <1>18, <1>19, <1>20, <1>21, <1>22, <1>23, <1>24, <1>25, <1>26, <1>27, <1>28
  DEF Next, Work, TickArrives, RenewStep, ReportStep, End

(* Run ids stay unique. *)
LEMMA NumberedStep == Inv /\ Next => Numbered'
<1> SUFFICES ASSUME Inv, Next PROVE Numbered'
  OBVIOUS
<1> USE ConstantsAssumption
<1>1. /\ LeaseTyped /\ WorkerTyped /\ Numbered
  BY PartsAreTypeOK DEF Inv, Parts
<1>2. /\ lease.run \in Nat /\ lease.idle \in Nat /\ runs \in Nat
      /\ \A w \in Worker : worker[w].run \in Nat /\ worker[w].timer \in Nat /\ missed[w] \in Nat
  BY <1>1 DEF LeaseTyped, LeaseRow, WorkerTyped, WorkerRow
<1>11. ASSUME NEW w \in Worker, TickSkipped(w) PROVE Numbered'
  BY <1>11, <1>1, <1>2 DEF TickSkipped, store, bounds, ghosts, Becomes, KeepsTimer, Idle, Unguarded, NoLease, Numbered, Guarded, Ending, Is, WorkerTyped, BeginSkips
<1>12. ASSUME NEW w \in Worker, TickTakes(w) PROVE Numbered'
  BY <1>12, <1>1, <1>2 DEF TickTakes, store, bounds, ghosts, Becomes, KeepsTimer, Idle, Unguarded, NoLease, Numbered, Guarded, Ending, Is, WorkerTyped, BeginTakes
<1>13. ASSUME NEW w \in Worker, TickUnanswered(w) PROVE Numbered'
  BY <1>13, <1>1, <1>2 DEF TickUnanswered, store, bounds, ghosts, Becomes, KeepsTimer, Idle, Unguarded, NoLease, Numbered, Guarded, Ending, Is, WorkerTyped, BeginSkips, BeginTakes
<1>14. ASSUME NEW w \in Worker, TickCut(w) PROVE Numbered'
  BY <1>14, <1>1, <1>2 DEF TickCut, store, bounds, ghosts, Becomes, KeepsTimer, Idle, Unguarded, NoLease, Numbered, Guarded, Ending, Is, WorkerTyped
<1>15. ASSUME NEW w \in Worker, Start(w) PROVE Numbered'
  BY <1>15, <1>1, <1>2 DEF Start, store, bounds, ghosts, Becomes, KeepsTimer, Idle, Unguarded, NoLease, Numbered, Guarded, Ending, Is, WorkerTyped
<1>16. ASSUME NEW w \in Worker, Renewed(w) PROVE Numbered'
  BY <1>16, <1>1, <1>2 DEF Renewed, store, bounds, ghosts, Becomes, KeepsTimer, Idle, Unguarded, NoLease, Numbered, Guarded, Ending, Is, WorkerTyped, handleCronRenew, TimerFires
<1>17. ASSUME NEW w \in Worker, RenewRefused(w) PROVE Numbered'
  BY <1>17, <1>1, <1>2 DEF RenewRefused, store, bounds, ghosts, Becomes, KeepsTimer, Idle, Unguarded, NoLease, Numbered, Guarded, Ending, Is, WorkerTyped, TimerFires
<1>18. ASSUME NEW w \in Worker, RenewUnanswered(w) PROVE Numbered'
  <2>1. worker[w].pc = "running" /\ worker'[w].pc = "running" /\ worker'[w].run = worker[w].run
    BY <1>18, <1>1 DEF RenewUnanswered, TimerFires, KeepsTimer, Becomes, Is, WorkerTyped, WorkerRow
  <2>2. \A v \in Worker : v # w => worker'[v] = worker[v]
    BY <1>18, <1>1 DEF RenewUnanswered, KeepsTimer, Becomes, WorkerTyped
  <2>3. lease'.run = lease.run /\ runs' = runs
    BY <1>18, <1>1 DEF RenewUnanswered, handleCronRenew, LeaseTyped, LeaseRow
  <2>4. QED
    BY <1>1, <1>2, <2>1, <2>2, <2>3 DEF Numbered, Guarded, Ending, Is
<1>19. ASSUME NEW w \in Worker, NEW status \in {"succeeded", "failed"}, RunEnds(w, status) PROVE Numbered'
  <2>1. \/ Guarded(w) /\ worker'[w] = [worker[w] EXCEPT !.pc = status, !.timer = 0]
        \/ worker'[w] = Idle
    BY <1>19, <1>1 DEF RunEnds, Becomes, Guarded, WorkerTyped
  <2>2. [worker[w] EXCEPT !.pc = status, !.timer = 0].run = worker[w].run
    BY <1>1 DEF WorkerTyped, WorkerRow
  <2>3. \A v \in Worker : v # w => worker'[v] = worker[v]
    BY <1>19, <1>1 DEF RunEnds, Becomes, WorkerTyped
  <2>4. lease' = lease /\ runs' = runs
    BY <1>19 DEF RunEnds, store
  <2>5. CASE Guarded(w) /\ worker'[w].run = worker[w].run
    BY <1>1, <1>2, <2>3, <2>4, <2>5 DEF Numbered, Guarded, Ending, Is
  <2>6. CASE worker'[w] = Idle
    BY <1>1, <1>2, <2>3, <2>4, <2>6 DEF Numbered, Guarded, Ending, Is, Idle
  <2>7. QED
    BY <2>1, <2>2, <2>5, <2>6
<1>20. ASSUME NEW w \in Worker, Reported(w) PROVE Numbered'
  BY <1>20, <1>1, <1>2 DEF Reported, store, bounds, ghosts, Becomes, KeepsTimer, Idle, Unguarded, NoLease, Numbered, Guarded, Ending, Is, WorkerTyped
<1>21. ASSUME NEW w \in Worker, ReportCut(w) PROVE Numbered'
  BY <1>21, <1>1, <1>2 DEF ReportCut, store, bounds, ghosts, Becomes, KeepsTimer, Idle, Unguarded, NoLease, Numbered, Guarded, Ending, Is, WorkerTyped
<1>22. ASSUME NEW w \in Worker, ReportIgnored(w) PROVE Numbered'
  BY <1>22, <1>1, <1>2 DEF ReportIgnored, store, bounds, ghosts, Becomes, KeepsTimer, Idle, Unguarded, NoLease, Numbered, Guarded, Ending, Is, WorkerTyped
<1>23. ASSUME NEW w \in Worker, ReportLost(w) PROVE Numbered'
  BY <1>23, <1>1, <1>2 DEF ReportLost, store, bounds, ghosts, Becomes, KeepsTimer, Idle, Unguarded, NoLease, Numbered, Guarded, Ending, Is, WorkerTyped
<1>24. ASSUME NEW w \in Worker, Dies(w) PROVE Numbered'
  BY <1>24, <1>1, <1>2 DEF Dies, store, bounds, ghosts, Becomes, KeepsTimer, Idle, Unguarded, NoLease, Numbered, Guarded, Ending, Is, WorkerTyped
<1>25. ASSUME ListRuns PROVE Numbered'
  BY <1>25, <1>1, <1>2 DEF ListRuns, store, bounds, ghosts, Becomes, KeepsTimer, Idle, Unguarded, NoLease, Numbered, Guarded, Ending, Is, WorkerTyped
<1>26. ASSUME ListRunsCut PROVE Numbered'
  BY <1>26, <1>1, <1>2 DEF ListRunsCut, store, bounds, ghosts, Becomes, KeepsTimer, Idle, Unguarded, NoLease, Numbered, Guarded, Ending, Is, WorkerTyped
<1>27. ASSUME SetPause PROVE Numbered'
  BY <1>27, <1>1, <1>2 DEF SetPause, store, bounds, ghosts, Becomes, KeepsTimer, Idle, Unguarded, NoLease, Numbered, Guarded, Ending, Is, WorkerTyped
<1>28. ASSUME Elapse PROVE Numbered'
  BY <1>28, <1>1, <1>2 DEF Elapse, store, bounds, ghosts, Becomes, KeepsTimer, Idle, Unguarded, NoLease, Numbered, Guarded, Ending, Is, WorkerTyped, Older, Counting
<1>29. QED
  BY <1>11, <1>12, <1>13, <1>14, <1>15, <1>16, <1>17, <1>18, <1>19, <1>20, <1>21, <1>22, <1>23, <1>24, <1>25, <1>26, <1>27, <1>28
  DEF Next, Work, TickArrives, RenewStep, ReportStep, End

(* An isolate that renews at least every other time keeps a young lease. *)
LEMMA FreshStep == Inv /\ Next => Fresh'
<1> SUFFICES ASSUME Inv, Next PROVE Fresh'
  OBVIOUS
<1> USE ConstantsAssumption
<1>1. /\ LeaseTyped /\ WorkerTyped /\ Numbered
  BY PartsAreTypeOK DEF Inv, Parts
<1>2. /\ lease.run \in Nat /\ lease.idle \in Nat /\ runs \in Nat
      /\ \A w \in Worker : worker[w].run \in Nat /\ worker[w].timer \in Nat /\ missed[w] \in Nat
  BY <1>1 DEF LeaseTyped, LeaseRow, WorkerTyped, WorkerRow
<1>3. Fresh
  BY DEF Inv
<1>4. \A v \in Worker : Guarded(v) /\ missed[v] <= 1 => leaseIsLive /\ Young(v)
  BY YoungIsLive
<1>11. ASSUME NEW w \in Worker, TickSkipped(w) PROVE Fresh'
  BY <1>11, <1>1, <1>2, <1>3, <1>4 DEF TickSkipped, store, bounds, ghosts, Becomes, KeepsTimer, Idle, Unguarded, NoLease, Numbered, Guarded, Ending, Is, WorkerTyped, Fresh, Young, BeginSkips
<1>12. ASSUME NEW w \in Worker, TickTakes(w) PROVE Fresh'
  BY <1>12, <1>1, <1>2, <1>3, <1>4 DEF TickTakes, store, bounds, ghosts, Becomes, KeepsTimer, Idle, Unguarded, NoLease, Numbered, Guarded, Ending, Is, WorkerTyped, Fresh, Young, BeginTakes
<1>13. ASSUME NEW w \in Worker, TickUnanswered(w) PROVE Fresh'
  BY <1>13, <1>1, <1>2, <1>3, <1>4 DEF TickUnanswered, store, bounds, ghosts, Becomes, KeepsTimer, Idle, Unguarded, NoLease, Numbered, Guarded, Ending, Is, WorkerTyped, Fresh, Young, BeginSkips, BeginTakes
<1>14. ASSUME NEW w \in Worker, TickCut(w) PROVE Fresh'
  BY <1>14, <1>1, <1>2, <1>3, <1>4 DEF TickCut, store, bounds, ghosts, Becomes, KeepsTimer, Idle, Unguarded, NoLease, Numbered, Guarded, Ending, Is, WorkerTyped, Fresh, Young
<1>15. ASSUME NEW w \in Worker, Start(w) PROVE Fresh'
  BY <1>15, <1>1, <1>2, <1>3, <1>4 DEF Start, store, bounds, ghosts, Becomes, KeepsTimer, Idle, Unguarded, NoLease, Numbered, Guarded, Ending, Is, WorkerTyped, Fresh, Young
<1>16. ASSUME NEW w \in Worker, Renewed(w) PROVE Fresh'
  <2>1. /\ lease'.run = lease.run /\ lease'.idle = 0 /\ lease.run = worker[w].run
        /\ worker'[w].pc = "running" /\ worker'[w].run = worker[w].run /\ worker'[w].timer = Renew
        /\ missed'[w] = 0
    BY <1>16, <1>1 DEF Renewed, TimerFires, Renewable, handleCronRenew, KeepsTimer, Becomes, Is, LeaseTyped, LeaseRow, WorkerTyped, WorkerRow
  <2>2. \A v \in Worker : v # w => worker'[v] = worker[v] /\ missed'[v] = missed[v]
    BY <1>16, <1>1 DEF Renewed, KeepsTimer, Becomes, WorkerTyped
  <2>3. SUFFICES ASSUME NEW v \in Worker
                 PROVE  /\ (Guarded(v) /\ missed[v] <= 1 => Young(v))'
                        /\ (Is(v, "running") \/ Is(v, "lapsed") \/ missed[v] = 0)'
    BY DEF Fresh
  <2>4. CASE v # w
    BY <1>2, <1>3, <2>1, <2>2, <2>4 DEF Fresh, Guarded, Young, Is
  <2>5. CASE v = w
    BY <1>2, <1>3, <2>1, <2>5 DEF Fresh, Guarded, Young, Is
  <2>6. QED
    BY <2>4, <2>5
<1>17. ASSUME NEW w \in Worker, RenewRefused(w) PROVE Fresh'
  BY <1>17, <1>1, <1>2, <1>3, <1>4 DEF RenewRefused, store, bounds, ghosts, Becomes, KeepsTimer, Idle, Unguarded, NoLease, Numbered, Guarded, Ending, Is, WorkerTyped, Fresh, Young, Renewable, TimerFires
<1>18. ASSUME NEW w \in Worker, RenewUnanswered(w) PROVE Fresh'
  <2>1. /\ lease'.run = lease.run
        /\ worker[w].pc = "running" /\ worker[w].timer = 0
        /\ worker'[w].pc = "running" /\ worker'[w].run = worker[w].run /\ worker'[w].timer = Renew
        /\ \/ lease'.idle = 0 /\ missed'[w] = 0 /\ lease.run = worker[w].run
           \/ lease'.idle = lease.idle /\ missed'[w] = missed[w] + 1
    BY <1>18, <1>1 DEF RenewUnanswered, TimerFires, Renewable, handleCronRenew, KeepsTimer, Becomes, Is, LeaseTyped, LeaseRow, WorkerTyped, WorkerRow
  <2>2. \A v \in Worker : v # w => worker'[v] = worker[v] /\ missed'[v] = missed[v]
    BY <1>18, <1>1 DEF RenewUnanswered, KeepsTimer, Becomes, WorkerTyped
  <2>3. SUFFICES ASSUME NEW v \in Worker
                 PROVE  /\ (Guarded(v) /\ missed[v] <= 1 => Young(v))'
                        /\ (Is(v, "running") \/ Is(v, "lapsed") \/ missed[v] = 0)'
    BY DEF Fresh
  <2>4. CASE v # w
    BY <1>2, <1>3, <2>1, <2>2, <2>4 DEF Fresh, Guarded, Young, Is
  <2>5. CASE v = w
    BY <1>2, <1>3, <2>1, <2>5 DEF Fresh, Guarded, Young, Is
  <2>6. QED
    BY <2>4, <2>5
<1>19. ASSUME NEW w \in Worker, NEW status \in {"succeeded", "failed"}, RunEnds(w, status) PROVE Fresh'
  <2>0. \/ worker'[w] = [worker[w] EXCEPT !.pc = status, !.timer = 0]
        \/ worker'[w] = Idle
    BY <1>19, <1>1 DEF RunEnds, Becomes, WorkerTyped
  <2>p. [worker[w] EXCEPT !.pc = status, !.timer = 0].pc = status /\ Idle.pc = "idle"
    BY <1>1 DEF Idle, WorkerTyped, WorkerRow
  <2>1. /\ lease' = lease /\ missed'[w] = 0
        /\ worker'[w].pc \in {"succeeded", "failed", "idle"}
    BY <1>19, <1>1, <2>0, <2>p DEF RunEnds, store, WorkerTyped
  <2>2. \A v \in Worker : v # w => worker'[v] = worker[v] /\ missed'[v] = missed[v]
    BY <1>19, <1>1 DEF RunEnds, Becomes, WorkerTyped
  <2>3. SUFFICES ASSUME NEW v \in Worker
                 PROVE  /\ (Guarded(v) /\ missed[v] <= 1 => Young(v))'
                        /\ (Is(v, "running") \/ Is(v, "lapsed") \/ missed[v] = 0)'
    BY DEF Fresh
  <2>4. CASE v # w
    BY <1>2, <1>3, <2>1, <2>2, <2>4 DEF Fresh, Guarded, Young, Is
  <2>5. CASE v = w
    BY <1>2, <1>3, <2>1, <2>5 DEF Fresh, Guarded, Young, Is
  <2>6. QED
    BY <2>4, <2>5
<1>20. ASSUME NEW w \in Worker, Reported(w) PROVE Fresh'
  BY <1>20, <1>1, <1>2, <1>3, <1>4 DEF Reported, store, bounds, ghosts, Becomes, KeepsTimer, Idle, Unguarded, NoLease, Numbered, Guarded, Ending, Is, WorkerTyped, Fresh, Young, Holds
<1>21. ASSUME NEW w \in Worker, ReportCut(w) PROVE Fresh'
  BY <1>21, <1>1, <1>2, <1>3, <1>4 DEF ReportCut, store, bounds, ghosts, Becomes, KeepsTimer, Idle, Unguarded, NoLease, Numbered, Guarded, Ending, Is, WorkerTyped, Fresh, Young
<1>22. ASSUME NEW w \in Worker, ReportIgnored(w) PROVE Fresh'
  BY <1>22, <1>1, <1>2, <1>3, <1>4 DEF ReportIgnored, store, bounds, ghosts, Becomes, KeepsTimer, Idle, Unguarded, NoLease, Numbered, Guarded, Ending, Is, WorkerTyped, Fresh, Young
<1>23. ASSUME NEW w \in Worker, ReportLost(w) PROVE Fresh'
  BY <1>23, <1>1, <1>2, <1>3, <1>4 DEF ReportLost, store, bounds, ghosts, Becomes, KeepsTimer, Idle, Unguarded, NoLease, Numbered, Guarded, Ending, Is, WorkerTyped, Fresh, Young
<1>24. ASSUME NEW w \in Worker, Dies(w) PROVE Fresh'
  BY <1>24, <1>1, <1>2, <1>3, <1>4 DEF Dies, store, bounds, ghosts, Becomes, KeepsTimer, Idle, Unguarded, NoLease, Numbered, Guarded, Ending, Is, WorkerTyped, Fresh, Young
<1>25. ASSUME ListRuns PROVE Fresh'
  BY <1>25, <1>1, <1>2, <1>3, <1>4 DEF ListRuns, store, bounds, ghosts, Becomes, KeepsTimer, Idle, Unguarded, NoLease, Numbered, Guarded, Ending, Is, WorkerTyped, Fresh, Young
<1>26. ASSUME ListRunsCut PROVE Fresh'
  BY <1>26, <1>1, <1>2, <1>3, <1>4 DEF ListRunsCut, store, bounds, ghosts, Becomes, KeepsTimer, Idle, Unguarded, NoLease, Numbered, Guarded, Ending, Is, WorkerTyped, Fresh, Young
<1>27. ASSUME SetPause PROVE Fresh'
  BY <1>27, <1>1, <1>2, <1>3, <1>4 DEF SetPause, store, bounds, ghosts, Becomes, KeepsTimer, Idle, Unguarded, NoLease, Numbered, Guarded, Ending, Is, WorkerTyped, Fresh, Young
<1>28. ASSUME Elapse PROVE Fresh'
  BY <1>28, <1>1, <1>2, <1>3, <1>4 DEF Elapse, store, bounds, ghosts, Becomes, KeepsTimer, Idle, Unguarded, NoLease, Numbered, Guarded, Ending, Is, WorkerTyped, Fresh, Young, Older, Counting
<1>29. QED
  BY <1>11, <1>12, <1>13, <1>14, <1>15, <1>16, <1>17, <1>18, <1>19, <1>20, <1>21, <1>22, <1>23, <1>24, <1>25, <1>26, <1>27, <1>28
  DEF Next, Work, TickArrives, RenewStep, ReportStep, End


(* No run vanishes. *)
LEMMA AccountedStep == Inv /\ Next => RunAccounted'
<1> SUFFICES ASSUME Inv, Next PROVE RunAccounted'
  OBVIOUS
<1>1. Parts /\ RunAccounted
  BY PartsAreTypeOK DEF Inv
<1>2. lease.run \in Nat /\ runs \in Nat
  BY <1>1 DEF Parts, LeaseTyped, LeaseRow
<1>3. ASSUME BeginTakes, reported' = reported, faults' = faults PROVE RunAccounted'
  <2>1. /\ lost \subseteq lost' /\ lease.run \in Accounted'
        /\ lease' = [run |-> runs + 1, idle |-> 0] /\ runs' = runs + 1
    BY <1>1, <1>3, Taken DEF Parts, BoundsTyped
  <2>2. SUFFICES ASSUME NEW r \in 1..(runs + 1), r # runs + 1
                 PROVE  r \in reported' \cup lost'
    BY <2>1 DEF RunAccounted
  <2>3. r = lease.run \/ r \in reported \cup lost
    BY <1>1, <1>2, <2>2 DEF RunAccounted
  <2>4. QED
    BY <1>3, <2>1, <2>2, <2>3 DEF Accounted
<1>4. ASSUME lease'.run = lease.run, runs' = runs, reported \subseteq reported', lost \subseteq lost'
      PROVE  RunAccounted'
  BY <1>1, <1>4 DEF RunAccounted
<1>5. ASSUME NEW w \in Worker, TickTakes(w) PROVE RunAccounted'
  BY <1>3, <1>5 DEF TickTakes, bounds
<1>6. ASSUME NEW w \in Worker, TickUnanswered(w) PROVE RunAccounted'
  BY <1>3, <1>4, <1>6 DEF TickUnanswered, BeginSkips, store
<1>7. ASSUME NEW w \in Worker, Reported(w) PROVE RunAccounted'
  BY <1>1, <1>7 DEF Reported, RunAccounted
<1>8. ASSUME ListRuns PROVE RunAccounted'
  <2>1. lost \subseteq lost' /\ lease.run \in Accounted'
    BY <1>1, <1>8, LostRecorded DEF ListRuns, bounds, Parts, BoundsTyped
  <2>2. QED
    BY <1>1, <1>8, <2>1 DEF ListRuns, RunAccounted, Accounted
<1>9. ASSUME NEW w \in Worker, Renewed(w) \/ RenewUnanswered(w) PROVE RunAccounted'
  <2>1. lease'.run = lease.run
    BY <1>1, <1>9 DEF Renewed, RenewUnanswered, handleCronRenew, Parts, LeaseTyped, LeaseRow
  <2>2. QED
    BY <1>4, <1>9, <2>1 DEF Renewed, RenewUnanswered
<1>10. ASSUME Elapse PROVE RunAccounted'
  <2>1. lease'.run = lease.run
    BY <1>1, <1>10 DEF Elapse, Older, Parts, LeaseTyped, LeaseRow
  <2>2. QED
    BY <1>4, <1>10, <2>1 DEF Elapse, ghosts
<1>11. ASSUME NEW w \in Worker,
              \/ TickSkipped(w) \/ TickCut(w) \/ Start(w) \/ RenewRefused(w) \/ End(w)
              \/ ReportCut(w) \/ ReportIgnored(w) \/ ReportLost(w) \/ Dies(w)
       PROVE  RunAccounted'
  BY <1>4, <1>11 DEF TickSkipped, BeginSkips, TickCut, recordLostCut, Start, RenewRefused, End, RunEnds,
                     ReportCut, ReportIgnored, ReportLost, Dies, store, ghosts
<1>12. ASSUME ListRunsCut \/ SetPause PROVE RunAccounted'
  BY <1>4, <1>12 DEF ListRunsCut, recordLostCut, SetPause, store, ghosts
<1>13. QED
  BY <1>5, <1>6, <1>7, <1>8, <1>9, <1>10, <1>11, <1>12
  DEF Next, Work, TickArrives, RenewStep, ReportStep
-----------------------------------------------------------------------------
(* The invariant holds initially. *)
LEMMA InitInv == Init => Inv
<1> SUFFICES ASSUME Init PROVE Inv
  OBVIOUS
<1> USE ConstantsAssumption
<1>1. history \in Seq(RowsOver(Accounted)) /\ history \in Seq(RunRow) /\ Len(history) = 0
  BY EmptySeq DEF Init
<1>2. TypeOK
  <2>1. NoLease \in LeaseRow /\ Idle \in WorkerRow
    BY DEF NoLease, LeaseRow, Idle, WorkerRow, WorkerPc
  <2>2. Len(history) <= HistoryLimit + faults
    BY <1>1 DEF Init
  <2>3. QED
    BY <1>1, <2>1, <2>2 DEF Init, TypeOK
<1>3. Numbered /\ Fresh
  BY DEF Init, Numbered, Fresh, Guarded, Ending, Is, NoLease, Idle
<1>4. RunAccounted
  BY DEF Init, RunAccounted
<1>5. QED
  BY <1>1, <1>2, <1>3, <1>4 DEF Inv, KnownRows

(* Every step keeps the invariant. *)
LEMMA InvStep == Inv /\ [Next]_vars => Inv'
<1>1. ASSUME Inv, Next PROVE Inv'
  <2>1. Parts'
    BY <1>1, TypeStep
  <2>2. TypeOK' /\ KnownRows'
    BY <2>1, PartsAreTypeOK, PTL
  <2>3. QED
    BY <1>1, <2>2, NumberedStep, FreshStep, AccountedStep DEF Inv
<1>2. ASSUME Inv, UNCHANGED vars PROVE Inv'
  BY <1>2 DEF vars, store, bounds, ghosts, Inv, TypeOK, KnownRows, RowsOver, Accounted, Numbered, Fresh, Young,
              RunAccounted, Guarded, Ending, Is
<1>3. QED
  BY <1>1, <1>2

(* The invariant of every reachable state. *)
LEMMA Invariance == Spec => []Inv
<1>1. QED
  BY InitInv, InvStep, PTL DEF Spec

(* Every reachable state is well-typed, and the history is bounded (recordCronRun). *)
THEOREM TypeCorrect == Spec => []TypeOK
<1>1. Inv => TypeOK
  BY DEF Inv
<1>2. QED
  BY <1>1, Invariance, PTL

(* Record first, release second: no run that took the lease ever vanishes. *)
THEOREM NoRunVanishes == Spec => []RunAccounted
<1>1. Inv => RunAccounted
  BY DEF Inv
<1>2. QED
  BY <1>1, Invariance, PTL

(* The lease excludes: of two guarded runs at once, one missed two renewals in a row. *)
THEOREM LeaseExcludes == Spec => []NoOverlap
<1>1. ASSUME Inv PROVE NoOverlap
  <2>1. SUFFICES ASSUME NEW v \in Worker, NEW w \in Worker, v # w, Guarded(v), Guarded(w),
                        missed[v] < 2, missed[w] < 2
                 PROVE  FALSE
    BY <1>1 DEF Inv, TypeOK, NoOverlap
  <2>2. missed[v] <= 1 /\ missed[w] <= 1
    BY <1>1, <2>1 DEF Inv, TypeOK
  <2>3. lease.run = worker[v].run /\ lease.run = worker[w].run /\ worker[v].run # 0
    BY <1>1, <2>1, <2>2 DEF Inv, Fresh, Young, Numbered
  <2>4. QED
    BY <1>1, <2>1, <2>3 DEF Inv, Numbered
<1>2. QED
  BY <1>1, Invariance, PTL

(* Only the report of its holder gives a live lease up. *)
THEOREM OnlyHolderReleases == Spec => HolderOnly
<1> DEFINE Given == leaseIsLive /\ lease'.run # lease.run
                     => \E w \in Worker : Ending(w) /\ worker[w].run = lease.run /\ worker'[w].pc = "idle"
<1>1. ASSUME Inv, Next PROVE Given
  <2>1. LeaseTyped /\ WorkerTyped
    BY <1>1, PartsAreTypeOK DEF Inv, Parts
  <2>2. CASE lease'.run = lease.run
    BY <2>2
  <2>3. CASE ~leaseIsLive
    BY <2>3
  <2>4. ASSUME NEW w \in Worker, Reported(w) PROVE Given
    BY <2>1, <2>4 DEF Reported, Holds, Ending, Becomes, Idle, WorkerTyped
  <2>5. ASSUME NEW w \in Worker, TickArrives(w) PROVE Given
    BY <2>2, <2>3, <2>5 DEF TickArrives, TickSkipped, TickTakes, TickUnanswered, TickCut, BeginSkips, BeginTakes, store
  <2>6. ASSUME NEW w \in Worker, RenewStep(w) PROVE Given
    BY <2>1, <2>2, <2>6 DEF RenewStep, Renewed, RenewRefused, RenewUnanswered, handleCronRenew, store, LeaseTyped, LeaseRow
  <2>7. ASSUME NEW w \in Worker, Start(w) \/ End(w) \/ ReportCut(w) \/ ReportIgnored(w) \/ ReportLost(w) \/ Dies(w)
        PROVE  Given
    BY <2>2, <2>7 DEF Start, End, RunEnds, ReportCut, ReportIgnored, ReportLost, Dies, store
  <2>8. ASSUME ListRuns \/ ListRunsCut \/ SetPause \/ Elapse PROVE Given
    BY <2>1, <2>2, <2>3, <2>8 DEF ListRuns, ListRunsCut, SetPause, Elapse, Older, store, LeaseTyped, LeaseRow
  <2>9. QED
    BY <1>1, <2>4, <2>5, <2>6, <2>7, <2>8 DEF Next, Work, ReportStep
<1>2. ASSUME UNCHANGED vars PROVE Given
  BY <1>2 DEF vars, store
<1>3. Inv /\ [Next]_vars => [Given]_vars
  BY <1>1, <1>2
<1>4. QED
  BY <1>3, Invariance, PTL DEF Spec, HolderOnly
-----------------------------------------------------------------------------
(* The row of a run that reported while it keeps the lease (its handler was cut before *)
(* the release) is pushed back by skips only, one row for each change of the reason:   *)
(* at most once more than the pause flag has changed.                                  *)
Reason == IF paused THEN "paused" ELSE "in-flight"
Depth == pauses + (IF Streak(Reason) THEN 2 ELSE 1)
InReach ==
    lease.run # 0 /\ lease.run \in reported
      => \E i \in 1..Len(history) : history[i].run = lease.run /\ i <= Depth
ReportedRan == \A r \in reported : r <= runs
Reach == InReach /\ ReportedRan /\ pauses <= MaxPauses

(* A row written in front moves the others back by one, as far as the limit. *)
LEMMA RowsPushed ==
    ASSUME NEW S, history \in Seq(S), NEW row \in S, NEW h \in {Put(row), Trimmed(Put(row))}
    PROVE  /\ h \in Seq(S) /\ 1 \in 1..Len(h) /\ h[1] = row
           /\ \A i \in 1..Len(history) : i + 1 <= HistoryLimit => i + 1 \in 1..Len(h) /\ h[i + 1] = history[i]
<1> USE ConstantsAssumption
<1>1. <<row>> \in Seq(S) /\ Len(<<row>>) = 1 /\ <<row>>[1] = row
  OBVIOUS
<1>2. Len(history) \in Nat
  BY LenProperties
<1>3. /\ Put(row) \in Seq(S) /\ Len(Put(row)) = Len(history) + 1
      /\ \A i \in 1..Len(history) + 1 : Put(row)[i] = IF i = 1 THEN row ELSE history[i - 1]
  <2>1. /\ <<row>> \o history \in Seq(S) /\ Len(<<row>> \o history) = 1 + Len(history)
        /\ \A i \in 1..(1 + Len(history)) :
              (<<row>> \o history)[i] = IF i <= 1 THEN <<row>>[i] ELSE history[i - 1]
    BY <1>1, ConcatProperties
  <2>2. QED
    BY <1>1, <1>2, <2>1 DEF Put
<1> DEFINE n == IF Len(Put(row)) < HistoryLimit THEN Len(Put(row)) ELSE HistoryLimit
<1>4. n \in 1..Len(Put(row)) /\ n <= HistoryLimit /\ (n = Len(Put(row)) \/ n = HistoryLimit)
  BY <1>2, <1>3
<1> DEFINE cut == SubSeq(Put(row), 1, n)
<1>5. cut \in Seq(S) /\ Len(cut) = n /\ \A i \in 1..n : cut[i] = Put(row)[i]
  BY SMTT(30), <1>3, <1>4, SubSeqProperties
<1>6. h = Put(row) \/ h = cut
  BY DEF Trimmed
<1> HIDE DEF n, cut
<1>7. CASE h = Put(row)
  BY SMTT(30), <1>2, <1>3, <1>7
<1>8. CASE h = cut
  <2>1. Len(h) = n /\ h[1] = row
    BY <1>2, <1>3, <1>4, <1>5, <1>8
  <2>2. ASSUME NEW i \in 1..Len(history), i + 1 <= HistoryLimit
        PROVE  i + 1 \in 1..n /\ cut[i + 1] = history[i]
    <3>1. i + 1 \in 1..n
      BY SMTT(30), <1>2, <1>3, <1>4, <2>2
    <3>2. i + 1 \in 1..Len(history) + 1 /\ i + 1 # 1 /\ (i + 1) - 1 = i
      BY <1>2, <2>2
    <3>3. cut[i + 1] = Put(row)[i + 1]
      BY <1>5, <3>1
    <3>4. QED
      BY <1>3, <3>1, <3>2, <3>3
  <2>3. h \in Seq(S)
    BY <1>5, <1>8
  <2>4. 1 \in 1..Len(h)
    BY <1>4, <2>1
  <2>5. \A i \in 1..Len(history) : i + 1 <= HistoryLimit => i + 1 \in 1..Len(h) /\ h[i + 1] = history[i]
    <3>1. Len(h) = n
      BY <2>1
    <3>2. QED
      BY <1>8, <2>2, <3>1, Zenon
  <2>6. QED
    BY <2>1, <2>3, <2>4, <2>5
<1>9. QED
  BY <1>6, <1>7, <1>8

(* A skip adds a row only where the newest one has another reason. *)
LEMMA SkipReach ==
    ASSUME MaxPauses + 2 <= HistoryLimit, Parts, Reach, NEW reason \in {"paused", "in-flight"},
           BeginSkips(reason), UNCHANGED <<paused, pauses, reported>>
    PROVE  InReach'
<1> USE ConstantsAssumption
<1>1. reason = Reason /\ Reason' = Reason /\ lease' = lease
  BY DEF BeginSkips, Reason
<1>2. pauses \in Nat /\ Len(history) \in Nat
  BY LenProperties DEF Parts, BoundsTyped, KnownRows
<1>3. CASE history' = history
  BY <1>1, <1>3 DEF InReach, Depth, Streak, Reach
<1>4. CASE ~Streak(Reason) /\ history' = Trimmed(Put(Row(0, reason)))
  <2>1. Row(0, reason) \in RowsOver(Accounted)
    BY DEF Row, RowsOver, Accounted, Status
  <2>2. /\ history' \in Seq(RowsOver(Accounted)) /\ 1 \in 1..Len(history') /\ history'[1] = Row(0, reason)
        /\ \A i \in 1..Len(history) : i + 1 <= HistoryLimit
              => i + 1 \in 1..Len(history') /\ history'[i + 1] = history[i]
    BY ZenonT(30), <1>4, <2>1, RowsPushed DEF Parts, KnownRows
  <2>3. Streak(Reason)'
    BY <1>1, <2>2 DEF Streak, Row
  <2>4. Depth' = pauses + 2 /\ Depth = pauses + 1
    BY <1>4, <2>3 DEF Depth
  <2>5. SUFFICES ASSUME lease.run # 0, lease.run \in reported
                 PROVE  \E i \in 1..Len(history') : history'[i].run = lease.run /\ i <= Depth'
    BY <1>1 DEF InReach
  <2>6. PICK i \in 1..Len(history) : history[i].run = lease.run /\ i <= Depth
    BY <2>5 DEF Reach, InReach
  <2>7. i + 1 <= HistoryLimit /\ i + 1 <= Depth'
    BY SMTT(30), <1>2, <2>4, <2>6 DEF Reach
  <2>8. QED
    BY <2>2, <2>6, <2>7
<1>5. QED
  BY <1>1, <1>3, <1>4 DEF BeginSkips, recordCronSkip, recordCronRun

(* The row of a reported run stays in reach as long as it is the lease's. *)
LEMMA ReachStep == MaxPauses + 2 <= HistoryLimit /\ Inv /\ Reach /\ Next => Reach'
<1> SUFFICES ASSUME MaxPauses + 2 <= HistoryLimit, Inv, Reach, Next PROVE Reach'
  OBVIOUS
<1> USE ConstantsAssumption
<1>1. Parts /\ Numbered
  BY PartsAreTypeOK DEF Inv
<1>2. /\ lease \in LeaseRow /\ lease.run \in Nat /\ runs \in Nat /\ pauses \in Nat
      /\ reported \subseteq Nat /\ Len(history) \in Nat /\ lease.run <= runs
  BY <1>1, LenProperties DEF Parts, LeaseTyped, LeaseRow, BoundsTyped, KnownRows, Numbered
<1>3. lease.run # 0 /\ ~Known(lease.run) => lease.run \notin reported
  BY DEF Reach, InReach, Known
<1>4. ASSUME UNCHANGED <<history, paused, pauses, reported>>, lease'.run = lease.run, runs' >= runs, runs' \in Nat
      PROVE  Reach'
  <2>1. Depth' = Depth
    BY <1>4 DEF Depth, Streak, Reason
  <2>2. InReach'
    BY <1>4, <2>1 DEF Reach, InReach
  <2>3. ReportedRan'
    BY <1>2, <1>4 DEF Reach, ReportedRan
  <2>4. QED
    BY <1>4, <2>2, <2>3 DEF Reach
<1>5. ASSUME UNCHANGED <<pauses, reported, runs>>, lease'.run = 0 \/ lease'.run \notin reported
      PROVE  Reach'
  BY <1>5 DEF Reach, InReach, ReportedRan
<1>6. ASSUME BeginTakes, UNCHANGED <<pauses, reported>>
      PROVE  Reach'
  <2>1. lease'.run = runs + 1 /\ runs' = runs + 1
    BY <1>6 DEF BeginTakes
  <2>2. QED
    BY <1>2, <1>6, <2>1 DEF Reach, InReach, ReportedRan
<1>7. ASSUME NEW reason \in {"paused", "in-flight"}, BeginSkips(reason), UNCHANGED <<paused, pauses, reported>>
      PROVE  Reach'
  <2>1. InReach'
    BY <1>1, <1>7, SkipReach
  <2>2. QED
    BY <1>7, <2>1 DEF Reach, ReportedRan, BeginSkips
<1>8. ASSUME NEW w \in Worker, TickArrives(w) PROVE Reach'
  <2>1. CASE TickSkipped(w)
    BY <1>7, <2>1 DEF TickSkipped
  <2>2. CASE TickTakes(w)
    BY <1>6, <2>2 DEF TickTakes, bounds
  <2>3. CASE TickUnanswered(w)
    <3>1. UNCHANGED <<paused, pauses, reported>>
      BY <2>3 DEF TickUnanswered
    <3>2. \/ \E reason \in {"paused", "in-flight"} : BeginSkips(reason)
          \/ BeginTakes
          \/ UNCHANGED <<lease, history, runs>>
      BY <2>3 DEF TickUnanswered, store
    <3>3. QED
      BY <1>2, <1>4, <1>6, <1>7, <3>1, <3>2
  <2>4. CASE TickCut(w)
    BY <1>3, <1>5, <2>4 DEF TickCut, recordLostCut
  <2>5. QED
    BY <1>8, <2>1, <2>2, <2>3, <2>4 DEF TickArrives
<1>9. ASSUME NEW w \in Worker, RenewStep(w) PROVE Reach'
  <2>1. lease'.run = lease.run
    BY <1>2, <1>9 DEF RenewStep, Renewed, RenewRefused, RenewUnanswered, handleCronRenew, store, LeaseRow
  <2>2. QED
    BY SMTT(30), <1>2, <1>4, <1>9, <2>1 DEF RenewStep, Renewed, RenewRefused, RenewUnanswered, store, bounds, ghosts
<1>10. ASSUME NEW w \in Worker, Start(w) \/ End(w) \/ ReportIgnored(w) \/ ReportLost(w) \/ Dies(w) PROVE Reach'
  BY SMTT(30), <1>2, <1>4, <1>10 DEF Start, End, RunEnds, ReportIgnored, ReportLost, Dies, store, bounds, ghosts
<1>11. ASSUME NEW w \in Worker, Reported(w) PROVE Reach'
  BY <1>2, <1>11 DEF Reported, NoLease, bounds, Reach, InReach, ReportedRan
<1>12. ASSUME NEW w \in Worker, ReportCut(w) PROVE Reach'
  <2>1. Row(lease.run, worker[w].pc) \in RowsOver(Nat)
    BY <1>2, <1>12 DEF Row, RowsOver, Status, ReportCut, Ending, Is
  <2>2. history \in Seq(RowsOver(Nat))
    <3>1. Accounted \subseteq Nat
      BY <1>1 DEF Accounted, Parts, LeaseTyped
    <3>2. RowsOver(Accounted) \subseteq RowsOver(Nat)
      BY <3>1 DEF RowsOver
    <3>3. QED
      BY <1>1, <3>2, RowsWiden DEF Parts, KnownRows
  <2>3. 1 \in 1..Len(history') /\ history'[1] = Row(lease.run, worker[w].pc)
    <3> DEFINE row == Row(lease.run, worker[w].pc)
    <3>1. history' \in {Put(row), Trimmed(Put(row))}
      BY <1>12 DEF ReportCut, recordCronRunCut
    <3> HIDE DEF row
    <3>2. row \in RowsOver(Nat)
      BY <2>1 DEF row
    <3>3. 1 \in 1..Len(history') /\ history'[1] = row
      BY <2>2, <3>1, <3>2, RowsPushed
    <3>4. QED
      BY <3>3 DEF row
  <2>4. UNCHANGED <<lease, paused, pauses, runs>> /\ reported' = reported \cup {lease.run}
    BY <1>12 DEF ReportCut
  <2>5. Depth' >= 1 /\ history'[1].run = lease.run
    BY <1>2, <2>3, <2>4 DEF Depth, Row
  <2>6. QED
    BY <1>2, <2>3, <2>4, <2>5 DEF Reach, InReach, ReportedRan
<1>13. ASSUME ListRuns PROVE Reach'
  BY <1>5, <1>13 DEF ListRuns, NoLease, bounds
<1>14. ASSUME ListRunsCut PROVE Reach'
  BY <1>3, <1>5, <1>14 DEF ListRunsCut, recordLostCut
<1>15. ASSUME SetPause PROVE Reach'
  <2>1. UNCHANGED <<store, runs, reported>> /\ pauses < MaxPauses /\ pauses' = pauses + 1
    BY <1>15 DEF SetPause, ghosts
  <2>2. Depth <= Depth' /\ Depth \in Nat /\ Depth' \in Nat
    BY SMTT(30), <1>2, <2>1 DEF Depth
  <2>3. QED
    BY SMTT(30), <1>2, <2>1, <2>2 DEF Reach, InReach, ReportedRan, store
<1>16. ASSUME Elapse PROVE Reach'
  <2>1. lease'.run = lease.run
    BY <1>2, <1>16 DEF Elapse, Older, LeaseRow
  <2>2. QED
    BY <1>2, <1>4, <1>16, <2>1 DEF Elapse, bounds, ghosts
<1>17. QED
  BY <1>8, <1>9, <1>10, <1>11, <1>12, <1>13, <1>14, <1>15, <1>16 DEF Next, Work, ReportStep

(* A run that reported its outcome is not recorded as lost afterwards, while the pause *)
(* flag changes less often than the history has rows: recordLostCronRun finds its row. *)
THEOREM LostAreUnreported == MaxPauses + 2 <= HistoryLimit /\ Spec => LostOnlyUnreported
<1> SUFFICES ASSUME MaxPauses + 2 <= HistoryLimit PROVE Spec => LostOnlyUnreported
  OBVIOUS
<1> DEFINE Given == (lost' \ lost) \cap reported = {}
<1>1. Init => Reach
  BY ConstantsAssumption DEF Init, Reach, InReach, ReportedRan, NoLease
<1>2. Inv /\ Reach /\ [Next]_vars => Reach'
  <2>1. ASSUME Reach, UNCHANGED vars PROVE Reach'
    BY <2>1 DEF vars, store, bounds, ghosts, Reach, InReach, ReportedRan, Depth, Streak, Reason
  <2>2. QED
    BY <2>1, ReachStep
<1>3. Reach /\ [Next]_vars => [Given]_vars
  <2>1. SUFFICES ASSUME Reach, Next PROVE Given
    OBVIOUS
  <2>2. lease.run # 0 /\ ~Known(lease.run) => lease.run \notin reported
    BY <2>1 DEF Reach, InReach, Known
  <2>3. ASSUME recordLostCronRun \/ recordLostCut PROVE Given
    BY <2>2, <2>3 DEF recordLostCronRun, recordLostCut
  <2>4. ASSUME NEW w \in Worker, TickArrives(w) PROVE Given
    BY <2>3, <2>4 DEF TickArrives, TickSkipped, TickTakes, TickUnanswered, TickCut, BeginSkips, BeginTakes
  <2>5. ASSUME NEW w \in Worker, RenewStep(w) \/ Start(w) \/ End(w) \/ ReportStep(w) \/ Dies(w) PROVE Given
    BY <2>5 DEF RenewStep, Renewed, RenewRefused, RenewUnanswered, Start, End, RunEnds, ReportStep,
                Reported, ReportCut, ReportIgnored, ReportLost, Dies, ghosts
  <2>6. ASSUME ListRuns \/ ListRunsCut \/ SetPause \/ Elapse PROVE Given
    BY <2>3, <2>6 DEF ListRuns, ListRunsCut, SetPause, Elapse, ghosts
  <2>7. QED
    BY <2>1, <2>4, <2>5, <2>6 DEF Next, Work
<1>4. QED
  BY <1>1, <1>2, <1>3, Invariance, PTL DEF Spec, LostOnlyUnreported
=============================================================================
