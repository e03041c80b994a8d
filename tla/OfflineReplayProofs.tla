------------------------- MODULE OfflineReplayProofs -------------------------
(* Proofs about OfflineReplay, for any number of writes, reloads, faults and *)
(* pending passes: a direct send overtakes nothing, nobody removes the       *)
(* record of a write that has not been settled; and the queue, the entries   *)
(* out for replay and the durable records agree: what waits for a verdict is *)
(* in memory and has a record, and storage holds no record twice nor one     *)
(* that nobody will remove.                                                  *)
EXTENDS OfflineReplay, LeastElement, SequenceTheorems

(* A replay pass is published before its drain begins and over only when     *)
(* all it has drained is settled or back in the queue, so that whoever is    *)
(* done waiting for it finds no drain under way.                             *)
Passes ==
    /\ passes \in Nat
    /\ ahead \in [Writes -> Nat]
    /\ pc \in [Writes -> Standing]
    /\ passes = 0 => Undrained
    /\ Ready # {} => Undrained

(* The writes whose records go have been settled, and those that count as    *)
(* unsettled are queued.                                                     *)
Removals ==
    /\ pc \in [Writes -> Standing]
    /\ \A w \in Writes : w \in removing => pc[w] = "done"
    /\ \A w \in Writes : w \in unsettled => pc[w] = "queued"

\* The actions that write neither the passes nor anything that is sent or waits.
Still ==
    /\ UNCHANGED <<passes, ahead, pass>>
    /\ pc' \in [Writes -> Standing]
    /\ \A w \in Writes : pc'[w] = pc[w] \/ pc'[w] \notin {"waiting", "sent"}

\* Such an action leaves passes and drains as they were.
LEMMA StillKeeps == Passes /\ Still => Passes'
  BY DEF Passes, Still, Ready, Undrained, pass

\* What the queue takes in or gives up leaves the standing of the rest alone.
LEMMA TurnStands ==
    ASSUME pc \in [Writes -> Standing],
           NEW q, NEW verdicts, NEW queued, NEW fresh, Turn(q, verdicts, queued, fresh)
    PROVE  /\ pc' \in [Writes -> Standing]
           /\ \A w \in Writes : pc'[w] = pc[w] \/ pc'[w] \notin {"waiting", "sent"}
  BY DEF Turn, Standing

\* Nor does a new entry, or the eviction of an old one, send anything.
LEMMA EnqueueStands ==
    ASSUME pc \in [Writes -> Standing], NEW e, enqueue(e)
    PROVE  /\ pc' \in [Writes -> Standing]
           /\ \A w \in Writes : pc'[w] = pc[w] \/ pc'[w] \notin {"waiting", "sent"}
  BY TurnStands DEF enqueue, TurnCapped

\* The oldest of some writes is one of them.
LEMMA OldestIsOne ==
    ASSUME NEW S \in SUBSET Writes, S # {}
    PROVE  Min(S) \in S
<1>1. S \subseteq Nat
  BY ReplayAssumption DEF Writes
<1> QED
  BY <1>1, LeastExists DEF Min

\* A pass more, or none where there was none.
LEMMA FlushKeeps ==
    ASSUME Passes, flushOfflineQueue, UNCHANGED <<ahead, pass, pc>>
    PROVE  Passes'
  BY DEF Passes, flushOfflineQueue, Ready, Undrained, pass

\* The end of a pass lets waiters go on, and finds no drain under way.
LEMMA PassEndKeeps ==
    ASSUME Passes, passes > 0, PassEnds, Undrained',
           pc' \in [Writes -> Standing]
    PROVE  Passes'
<1>1. passes' \in Nat
  BY DEF Passes, PassEnds
<1>2. ahead' \in [Writes -> Nat]
  BY DEF Passes, PassEnds
<1> QED
  BY <1>1, <1>2 DEF Passes

\* A drain that goes on holds its pass, and nobody is done waiting for it.
LEMMA DrainKeeps ==
    ASSUME Passes, passes > 0, Ready = {}, UNCHANGED <<passes, ahead>>,
           pc' \in [Writes -> Standing],
           \A w \in Writes : pc'[w] = pc[w] \/ pc'[w] \notin {"waiting", "sent"}
    PROVE  Passes'
<1>1. Ready' = {}
  BY DEF Passes, Ready
<1> QED
  BY <1>1 DEF Passes

\* A write that is routed is queued, or sent when nothing is queued.
LEMMA RouteStands ==
    ASSUME Passes, NEW x, Route(x)
    PROVE  /\ pc' \in [Writes -> Standing]
           /\ \A w \in Writes : pc'[w] = pc[w] \/ pc'[w] # "waiting"
           /\ QueueEarly => \A w \in Writes : pc[w] # "sent" /\ pc'[w] = "sent" => items = <<>>
<1>1. CASE GoesToQueue
  BY <1>1, EnqueueStands DEF Route, Passes
<1>2. CASE ~GoesToQueue
  BY <1>2 DEF Route, Passes, GoesToQueue, ConnectedGate, Standing
<1> QED
  BY <1>1, <1>2

\* The queue takes in fresh entries of writes that are not done.
LEMMA TurnRemoves ==
    ASSUME Removals, NEW q, NEW verdicts, NEW queued, NEW fresh, Turn(q, verdicts, queued, fresh),
           fresh \subseteq queued, \A w \in Writes : w \in fresh => pc[w] # "done"
    PROVE  Removals'
<1> DEFINE done == {v[1] : v \in verdicts}
<1>1. pc' = [w \in Writes |-> CASE w \in done -> "done"
                                [] w \in queued \ done /\ pc[w] # "done" -> "queued"
                                [] OTHER -> pc[w]]
  BY DEF Turn
<1>2. /\ unsettled' = (unsettled \union fresh) \ done
      /\ removing' = removing \union done
  BY DEF Turn
<1> HIDE DEF done
<1>3. pc' \in [Writes -> Standing]
  BY <1>1 DEF Removals, Standing
<1>4. ASSUME NEW w \in Writes, w \in removing'
      PROVE  pc'[w] = "done"
  BY <1>1, <1>2, <1>4 DEF Removals
<1>5. ASSUME NEW w \in Writes, w \in unsettled'
      PROVE  pc'[w] = "queued"
  BY <1>1, <1>2, <1>5 DEF Removals
<1> QED
  BY <1>3, <1>4, <1>5 DEF Removals

\* An entry of a write without a verdict enters, and what is evicted is settled.
LEMMA EnqueueRemoves ==
    ASSUME Removals, NEW w \in Writes, NEW kind, pc[w] # "done", enqueue(Entry(w, kind))
    PROVE  Removals'
<1>1. Entry(w, kind).w = w
  BY DEF Entry
<1> QED
  BY <1>1, TurnRemoves DEF enqueue, TurnCapped

\* A write on its way is queued or sent, and no record of it goes.
LEMMA RouteRemoves ==
    ASSUME Removals, NEW w \in Writes, pc[w] \notin {"done", "queued"}, Route(w)
    PROVE  Removals'
<1>1. CASE GoesToQueue
  BY <1>1, EnqueueRemoves DEF Route
<1>2. CASE ~GoesToQueue
  BY <1>2 DEF Route, Removals, Standing
<1> QED
  BY <1>1, <1>2

-----------------------------------------------------------------------------

IInv == Passes /\ Removals

\* Nothing is issued, drained or removed when the page starts.
LEMMA InitHolds == Init => IInv
  BY ReplayAssumption DEF Init, IInv, Passes, Removals, Ready, Undrained, Standing

\* What may be sent directly in a step: nothing that overtakes a write in memory.
Overtaking == \E w \in Writes : pc[w] # "sent" /\ pc'[w] = "sent" /\ InMemory # {}

\* Without a drain, an empty queue means an empty memory.
LEMMA NothingInMemory == Undrained /\ items = <<>> => InMemory = {}
  BY DEF Undrained, InMemory, WritesOf

\* A step in which no write is sent overtakes nothing.
LEMMA NoneSent ==
    ASSUME \A w \in Writes : pc'[w] = pc[w] \/ pc'[w] \notin {"waiting", "sent"}
    PROVE  ~Overtaking
  BY DEF Overtaking

\* A write that has waited out its passes finds no drain, and queues behind what is queued.
LEMMA ResumeStep == IInv /\ Resume => IInv' /\ (QueueEarly => ~Overtaking)
<1> SUFFICES ASSUME IInv, Resume PROVE IInv' /\ (QueueEarly => ~Overtaking)
  OBVIOUS
<1> DEFINE x == Min(Ready)
<1>1. x \in Ready
  BY OldestIsOne DEF Resume, Ready
<1>2. x \in Writes /\ pc[x] = "waiting" /\ Undrained /\ Route(x)
  BY <1>1 DEF Resume, Ready, IInv, Passes
<1> HIDE DEF x
<1>3. Passes'
  <2>1. /\ pc' \in [Writes -> Standing]
        /\ UNCHANGED <<passes, ahead, chunk, rest>>
    BY <1>2, RouteStands DEF IInv, Resume, pass
  <2> QED
    BY <2>1, <1>2 DEF IInv, Passes, Undrained
<1>4. Removals'
  BY <1>2, RouteRemoves DEF IInv
<1>5. QueueEarly => ~Overtaking
  BY <1>2, RouteStands, NothingInMemory DEF IInv, Overtaking
<1> QED
  BY <1>3, <1>4, <1>5 DEF IInv

\* A write that is issued while a pass is pending waits; without one, no drain is under way.
LEMMA IssueStep == IInv /\ Ready = {} /\ Issue => IInv' /\ (QueueEarly => ~Overtaking)
<1> SUFFICES ASSUME IInv, Ready = {}, Issue PROVE IInv' /\ (QueueEarly => ~Overtaking)
  OBVIOUS
<1> DEFINE fresh == {v \in Writes : pc[v] = "new"}
           x == Min(fresh)
<1>1. x \in fresh
  BY OldestIsOne DEF Issue
<1>2. x \in Writes /\ pc[x] = "new"
  BY <1>1
<1>3. \/ /\ passes > 0
         /\ pc' = [pc EXCEPT ![x] = "waiting"]
         /\ ahead' = [ahead EXCEPT ![x] = passes]
         /\ UNCHANGED <<removing, unsettled>>
      \/ passes = 0 /\ Route(x) /\ UNCHANGED ahead
  BY DEF Issue
<1>4. UNCHANGED <<passes, chunk, rest>>
  BY DEF Issue, pass
<1> HIDE DEF x
<1>5. CASE passes > 0 /\ pc' = [pc EXCEPT ![x] = "waiting"]
                      /\ ahead' = [ahead EXCEPT ![x] = passes] /\ UNCHANGED <<removing, unsettled>>
  <2>1. pc' \in [Writes -> Standing] /\ ahead' \in [Writes -> Nat]
    BY <1>2, <1>5 DEF IInv, Passes, Standing
  <2>2. Ready' = {}
    BY <1>2, <1>5 DEF IInv, Passes, Ready
  <2>3. Passes'
    BY <2>1, <2>2, <1>4 DEF IInv, Passes, Undrained
  <2>4. Removals'
    BY <2>1, <1>2, <1>5 DEF IInv, Removals
  <2>5. ~Overtaking
    BY <1>2, <1>5 DEF IInv, Passes, Overtaking
  <2> QED
    BY <2>3, <2>4, <2>5 DEF IInv
<1>6. CASE passes = 0 /\ Route(x) /\ UNCHANGED ahead
  <2>1. pc' \in [Writes -> Standing] /\ \A w \in Writes : pc'[w] = pc[w] \/ pc'[w] # "waiting"
    BY <1>6, RouteStands DEF IInv
  <2>2. Passes'
    BY <2>1, <1>4, <1>6 DEF IInv, Passes, Undrained
  <2>3. Removals'
    BY <1>2, <1>6, RouteRemoves DEF IInv
  <2>4. Undrained
    BY <1>6 DEF IInv, Passes
  <2>5. QueueEarly => ~Overtaking
    BY <1>6, <2>4, RouteStands, NothingInMemory DEF IInv, Overtaking
  <2> QED
    BY <2>2, <2>3, <2>5 DEF IInv
<1> QED
  BY <1>3, <1>5, <1>6

\* A step that leaves the passes alone, and the standing of those who wait.
LEMMA DirectStep == ASSUME NEW w \in Writes PROVE IInv /\ Ready = {} /\ Direct(w) => IInv' /\ ~Overtaking
<1> SUFFICES ASSUME IInv, Direct(w) PROVE IInv' /\ ~Overtaking
  OBVIOUS
<1>1. PICK s \in {"landed", "done"} : pc' = [pc EXCEPT ![w] = s] /\ pc[w] \in {"sent", "landed"}
  BY DEF Direct, DirectLands, DirectAnswered, DirectRefused
<1>2. UNCHANGED <<passes, ahead, pass, removing, unsettled>>
  BY DEF Direct, DirectLands, DirectAnswered, DirectRefused, sending
<1>3. /\ pc' \in [Writes -> Standing]
      /\ \A v \in Writes : pc'[v] = pc[v] \/ pc'[v] \notin {"waiting", "sent"}
  BY <1>1 DEF IInv, Passes, Standing
<1>4. Passes'
  BY <1>2, <1>3, StillKeeps DEF IInv, Still
<1>5. Removals'
  BY <1>1, <1>2, <1>3 DEF IInv, Removals
<1> QED
  BY <1>3, <1>4, <1>5, NoneSent DEF IInv

\* A direct send without an answer is queued or given up.
LEMMA DirectFailsStep == ASSUME NEW w \in Writes PROVE IInv /\ DirectFails(w) => IInv' /\ ~Overtaking
<1> SUFFICES ASSUME IInv, DirectFails(w) PROVE IInv' /\ ~Overtaking
  OBVIOUS
<1>1. pc[w] \in {"sent", "landed"} /\ UNCHANGED <<passes, ahead, pass>>
  BY DEF DirectFails, sending
<1>2. CASE RetriesLater(w)
  <2>1. enqueue(Entry(w, "ambiguous"))
    BY <1>2 DEF RetriesLater
  <2>2. Removals'
    BY <1>1, <2>1, EnqueueRemoves DEF IInv
  <2>3. /\ pc' \in [Writes -> Standing]
        /\ \A v \in Writes : pc'[v] = pc[v] \/ pc'[v] \notin {"waiting", "sent"}
    BY <2>1, EnqueueStands DEF IInv, Passes
  <2> QED
    BY <1>1, <2>2, <2>3, StillKeeps, NoneSent DEF IInv, Still
<1>3. CASE pc' = [pc EXCEPT ![w] = "done"] /\ UNCHANGED <<removing, unsettled>>
  <2>1. /\ pc' \in [Writes -> Standing]
        /\ \A v \in Writes : pc'[v] = pc[v] \/ pc'[v] \notin {"waiting", "sent"}
    BY <1>3 DEF IInv, Passes, Standing
  <2>2. Removals'
    BY <1>1, <1>3, <2>1 DEF IInv, Removals
  <2> QED
    BY <1>1, <2>1, <2>2, StillKeeps, NoneSent DEF IInv, Still
<1> QED
  BY <1>2, <1>3 DEF DirectFails

\* Settling writes, and nothing else, in the queue.
LEMMA SettleStands ==
    ASSUME IInv, NEW q, NEW verdicts, Turn(q, verdicts, {}, {})
    PROVE  /\ pc' \in [Writes -> Standing]
           /\ \A w \in Writes : pc'[w] = pc[w] \/ pc'[w] \notin {"waiting", "sent"}
           /\ Removals'
  BY TurnStands, TurnRemoves DEF IInv, Passes

\* A pass that may send nothing ends, with everything back in the queue.
LEMMA DrainHoldsStep == IInv /\ DrainHolds => IInv' /\ ~Overtaking
<1> SUFFICES ASSUME IInv, DrainHolds PROVE IInv' /\ ~Overtaking
  OBVIOUS
<1>1. PICK stale \in Stale : Drops(Left(stale), stale)
  BY DEF DrainHolds
<1>2. /\ pc' \in [Writes -> Standing]
      /\ \A w \in Writes : pc'[w] = pc[w] \/ pc'[w] \notin {"waiting", "sent"}
      /\ Removals'
  BY <1>1, SettleStands DEF Drops
<1>3. passes > 0 /\ PassEnds /\ Undrained'
  BY DEF DrainHolds, Undrained, pass
<1>4. Passes'
  BY <1>2, <1>3, PassEndKeeps DEF IInv
<1> QED
  BY <1>2, <1>4, NoneSent DEF IInv

\* A drain begins under its pass.
LEMMA DrainSendsStep == IInv /\ Ready = {} /\ DrainSends => IInv' /\ ~Overtaking
<1> SUFFICES ASSUME IInv, Ready = {}, DrainSends PROVE IInv' /\ ~Overtaking
  OBVIOUS
<1>1. PICK stale \in Stale : Drops(SubSeq(Left(stale), Decided(Left(stale)) + 1, Len(Left(stale))), stale)
  BY DEF DrainSends
<1>2. /\ pc' \in [Writes -> Standing]
      /\ \A w \in Writes : pc'[w] = pc[w] \/ pc'[w] \notin {"waiting", "sent"}
      /\ Removals'
  BY <1>1, SettleStands DEF Drops
<1>3. passes > 0 /\ UNCHANGED <<passes, ahead>>
  BY DEF DrainSends
<1>4. Passes'
  BY <1>2, <1>3, DrainKeeps DEF IInv
<1> QED
  BY <1>2, <1>4, NoneSent DEF IInv

\* Whatever becomes of a batch, the drain goes on with the rest or is over.
LEMMA GoesOnKeeps ==
    ASSUME IInv, Ready = {}, chunk # <<>>, GoesOn, pc' \in [Writes -> Standing],
           \A w \in Writes : pc'[w] = pc[w] \/ pc'[w] \notin {"waiting", "sent"}
    PROVE  Passes'
<1>1. passes > 0
  BY DEF IInv, Passes, Undrained
<1>2. CASE rest # <<>>
  BY <1>1, <1>2, DrainKeeps DEF GoesOn, IInv
<1>3. CASE rest = <<>>
  BY <1>1, <1>3, PassEndKeeps DEF GoesOn, IInv, Undrained
<1> QED
  BY <1>2, <1>3

\* A batch is over: the drain goes on, or all is back in the queue and the pass ends.
LEMMA ReplyStep ==
    ASSUME NEW unread, NEW counted
    PROVE  IInv /\ Ready = {} /\ Reply(unread, counted) => IInv' /\ ~Overtaking
<1> SUFFICES ASSUME IInv, Ready = {}, Reply(unread, counted) PROVE IInv' /\ ~Overtaking
  OBVIOUS
<1>1. PICK q, verdicts : /\ Turn(q, verdicts, {}, {})
                         /\ \/ chunk' = <<>> /\ rest' = <<>> /\ PassEnds
                            \/ GoesOn
  BY DEF Reply
<1>2. chunk # <<>>
  BY DEF Reply
<1>3. /\ pc' \in [Writes -> Standing]
      /\ \A w \in Writes : pc'[w] = pc[w] \/ pc'[w] \notin {"waiting", "sent"}
      /\ Removals'
  BY <1>1, SettleStands
<1>4. CASE chunk' = <<>> /\ rest' = <<>> /\ PassEnds
  BY <1>2, <1>3, <1>4, PassEndKeeps, NoneSent DEF IInv, Passes, Undrained
<1>5. CASE GoesOn
  BY <1>2, <1>3, <1>5, GoesOnKeeps, NoneSent DEF IInv
<1> QED
  BY <1>1, <1>4, <1>5

\* A batch refused as a whole: the drain goes on, or the pass ends.
LEMMA WholeRefusedStep == IInv /\ Ready = {} /\ WholeRefused => IInv' /\ ~Overtaking
<1> SUFFICES ASSUME IInv, Ready = {}, WholeRefused PROVE IInv' /\ ~Overtaking
  OBVIOUS
<1>1. Turn(items, {<<e.w, "refused">> : e \in Range(chunk)}, {}, {}) /\ GoesOn /\ chunk # <<>>
  BY DEF WholeRefused
<1>2. /\ pc' \in [Writes -> Standing]
      /\ \A w \in Writes : pc'[w] = pc[w] \/ pc'[w] \notin {"waiting", "sent"}
      /\ Removals'
  BY <1>1, SettleStands
<1> QED
  BY <1>1, <1>2, GoesOnKeeps, NoneSent DEF IInv

\* The shard decides on an entry; the page has not heard of it.
LEMMA ShardTakesStep == IInv /\ Ready = {} /\ ShardTakes => IInv' /\ ~Overtaking
<1> SUFFICES ASSUME IInv, ShardTakes PROVE IInv' /\ ~Overtaking
  OBVIOUS
<1>1. UNCHANGED <<passes, ahead, chunk, rest, pc, unsettled, removing>>
  BY DEF ShardTakes, tray
<1> QED
  BY <1>1 DEF IInv, Passes, Removals, Ready, Undrained, Overtaking

\* A step that touches neither the queue nor the drain, and may publish a pass.
LEMMA Published ==
    ASSUME IInv, UNCHANGED <<ahead, pass, pc, unsettled, removing>>,
           flushOfflineQueue \/ UNCHANGED passes
    PROVE  IInv' /\ ~Overtaking
<1>1. Passes'
  <2>1. CASE flushOfflineQueue
    BY <2>1, FlushKeeps DEF IInv
  <2>2. CASE UNCHANGED passes
    BY <2>2, StillKeeps DEF IInv, Still, Passes
  <2> QED
    BY <2>1, <2>2
<1>2. Removals'
  BY DEF IInv, Removals
<1> QED
  BY <1>1, <1>2 DEF IInv, Overtaking

\* The link, the timer and the identity publish passes at most.
LEMMA LinkStep ==
    ASSUME IInv,
           TimerFires \/ Connect \/ Drop \/ SnapshotsAnswered \/ TokenRefreshed \/ IdentitySettles
    PROVE  IInv' /\ ~Overtaking
<1>1. UNCHANGED <<ahead, pass, pc, unsettled, removing>> /\ (flushOfflineQueue \/ UNCHANGED passes)
  BY DEF TimerFires, Connect, Drop, SnapshotsAnswered, TokenRefreshed, IdentitySettles, around, tray
<1> QED
  BY <1>1, Published

\* A late request concerns the shard alone.
LEMMA StrayStep == ASSUME NEW k \in Keys PROVE IInv /\ StrayLands(k) => IInv' /\ ~Overtaking
<1> SUFFICES ASSUME IInv, StrayLands(k) PROVE IInv' /\ ~Overtaking
  OBVIOUS
<1>1. UNCHANGED <<ahead, pass, pc, unsettled, removing>> /\ UNCHANGED passes
  BY DEF StrayLands, tray
<1> QED
  BY <1>1, Published

\* Storage answers: no pass and no standing changes.
LEMMA RecordStep ==
    ASSUME IInv,
           PageHides \/ \E w \in Writes : AppendLands(w) \/ AppendFails(w) \/ RemoveLands(w)
    PROVE  IInv' /\ ~Overtaking
<1>1. UNCHANGED <<passes, ahead, pass, pc, unsettled>> /\ removing' \subseteq removing
  BY DEF AppendLands, AppendFails, RemoveLands, PageHides, storage, around
<1>2. Passes'
  BY <1>1, StillKeeps DEF IInv, Still, Passes
<1>3. Removals'
  BY <1>1 DEF IInv, Removals
<1> QED
  BY <1>1, <1>2, <1>3 DEF IInv, Overtaking

\* Restored records join the queue; the evicted ones are settled.
LEMMA HydrateStep == IInv /\ Hydrate => IInv' /\ ~Overtaking
<1> SUFFICES ASSUME IInv, Hydrate PROVE IInv' /\ ~Overtaking
  OBVIOUS
<1>1. PICK q, queued : TurnCapped(q, queued, {})
  BY DEF Hydrate
<1>2. /\ pc' \in [Writes -> Standing]
      /\ \A w \in Writes : pc'[w] = pc[w] \/ pc'[w] \notin {"waiting", "sent"}
  BY <1>1, TurnStands DEF TurnCapped, IInv, Passes
<1>3. Removals'
  BY <1>1, TurnRemoves DEF TurnCapped, IInv
<1>4. UNCHANGED <<passes, ahead, pass>>
  BY DEF Hydrate, around
<1> QED
  BY <1>2, <1>3, <1>4, StillKeeps, NoneSent DEF IInv, Still

\* After a reload there are no passes, no drains and no removals.
LEMMA ReloadStep == IInv /\ Reload => IInv' /\ ~Overtaking
<1> SUFFICES ASSUME IInv, Reload PROVE IInv' /\ ~Overtaking
  OBVIOUS
<1>1. /\ pc' \in [Writes -> Standing]
      /\ \A w \in Writes : pc'[w] \notin {"waiting", "sent"}
  BY DEF Reload, IInv, Passes, Standing
<1>2. /\ passes' = 0 /\ ahead' = [w \in Writes |-> 0] /\ chunk' = <<>> /\ rest' = <<>>
      /\ unsettled' = {} /\ removing' = {}
  BY DEF Reload
<1> QED
  BY <1>1, <1>2, NoneSent DEF IInv, Passes, Removals, Undrained

-----------------------------------------------------------------------------

\* Every step keeps the invariant, and with early queueing none overtakes.
LEMMA StepHolds == IInv /\ [Next]_vars => IInv' /\ [QueueEarly => ~Overtaking]_vars
<1> SUFFICES ASSUME IInv, [Next]_vars PROVE IInv' /\ [QueueEarly => ~Overtaking]_vars
  OBVIOUS
<1>1. CASE UNCHANGED vars
  <2>1. UNCHANGED <<passes, ahead, pass, pc, unsettled, removing>>
    BY <1>1 DEF vars, tray
  <2> QED
    BY <1>1, <2>1, Published
<1>2. CASE Resume
  BY <1>2, ResumeStep
<1>3. CASE Ready = {} /\ (Issue \/ \E w \in Writes : Direct(w))
  BY <1>3, IssueStep, DirectStep
<1>4. CASE Ready = {} /\ (Replay \/ ShardTakes \/ WholeRefused)
  BY <1>4, DrainHoldsStep, DrainSendsStep, ReplyStep, ShardTakesStep, WholeRefusedStep DEF Replay
<1>5. CASE \/ TimerFires \/ Connect \/ SnapshotsAnswered \/ IdentitySettles \/ Drop \/ TokenRefreshed
           \/ Reload \/ \E k \in Keys : StrayLands(k)
  BY <1>5, LinkStep, ReloadStep, StrayStep
<1>6. CASE Storage \/ \E w \in Writes : AppendFails(w)
  BY <1>6, RecordStep, HydrateStep DEF Storage
<1>7. CASE \E w \in Writes : DirectFails(w)
  BY <1>7, DirectFailsStep
<1>8. CASE Ready = {} /\ \E unread \in SUBSET (1..Len(slots)), counted \in BOOLEAN : Reply(unread, counted)
  BY <1>8, ReplyStep
<1> QED
  BY <1>1, <1>2, <1>3, <1>4, <1>5, <1>6, <1>7, <1>8 DEF Next, Failures

\* Every reachable state satisfies the invariant.
LEMMA Invariance == Spec => []IInv
<1>1. IInv /\ [Next]_vars => IInv'
  BY StepHolds
<1> QED
  BY <1>1, InitHolds, PTL DEF Spec

(* With the option queueBeforeFirstConnect, whatever the socket and the      *)
(* storage do: a write that goes out directly finds neither queue nor batch  *)
(* nor rest of a drain in memory (writeQueueGate, hasPendingWriteAhead, and  *)
(* the wait for the newest replay pass).                                     *)
THEOREM NeverOvertakes == QueueEarly /\ Spec => LiveBehindQueue
<1> SUFFICES ASSUME QueueEarly PROVE Spec => LiveBehindQueue
  OBVIOUS
<1>1. IInv /\ [Next]_vars
        => [\A w \in Writes : pc[w] # "sent" /\ pc'[w] = "sent" => InMemory = {}]_vars
  BY StepHolds DEF Overtaking
<1> QED
  BY <1>1, Invariance, PTL DEF Spec, LiveBehindQueue

\* What the durable record of a write may never suffer while its caller still waits.
Unremoved == \A w \in Writes : w \in unsettled => w \notin removing

(* Nobody removes the durable record of a write whose caller has heard no    *)
(* verdict (persist, settle and discard of offline-queue.ts, in any order).  *)
THEOREM RecordsOutlast == Spec => []Unremoved
<1>1. IInv => Unremoved
  BY DEF IInv, Removals, Unremoved
<1> QED
  BY <1>1, Invariance, PTL
-----------------------------------------------------------------------------
\* The selection from i elements, given that from those before.
Selected(q, X, g, i) ==
    IF i = 0 THEN <<>> ELSE IF q[i] \in X THEN Append(g[i-1], q[i]) ELSE g[i-1]

\* g tabulates the selections from the first n elements of q.
Tabulates(S, q, X, g, n) ==
    g \in [0..n -> Seq(S)] /\ \A i \in 0..n : g[i] = Selected(q, X, g, i)

\* There is such a table: at the least length without one, one more entry extends it.
LEMMA TableExists ==
    ASSUME NEW S, NEW q \in Seq(S), NEW X
    PROVE  \E g : Tabulates(S, q, X, g, Len(q))
<1> DEFINE Missing == {n \in 0..Len(q) : ~\E g : Tabulates(S, q, X, g, n)}
<1>1. Len(q) \in Nat /\ Missing \subseteq Nat
  OBVIOUS
<1>2. ASSUME Missing # {} PROVE FALSE
  <2>1. PICK m \in Missing : \A k \in Missing : m <= k
    <3> HIDE DEF Missing
    <3> QED
      BY <1>1, <1>2, LeastExists
  <2>2. m \in 0..Len(q) /\ ~\E g : Tabulates(S, q, X, g, m)
    BY <2>1
  <2>3. CASE m = 0
    <3>1. Tabulates(S, q, X, [i \in 0..0 |-> <<>>], 0)
      BY DEF Tabulates, Selected
    <3> QED
      BY <2>2, <2>3, <3>1
  <2>4. CASE m # 0
    <3>1. m \in 1..Len(q) /\ m - 1 \in 0..Len(q)
      BY <1>1, <2>2, <2>4
    <3>2. m - 1 \notin Missing
      <4> HIDE DEF Missing
      <4> QED
        BY <1>1, <2>1, <3>1
    <3>3. PICK g : Tabulates(S, q, X, g, m - 1)
      BY <3>1, <3>2
    <3> DEFINE h == [i \in 0..m |-> IF i = m THEN Selected(q, X, g, m) ELSE g[i]]
    <3>4. Selected(q, X, g, m) \in Seq(S)
      BY <1>1, <3>1, <3>3 DEF Selected, Tabulates
    <3>5. h \in [0..m -> Seq(S)]
      BY <1>1, <3>1, <3>3, <3>4 DEF Tabulates
    <3>6. ASSUME NEW i \in 0..m PROVE h[i] = Selected(q, X, h, i)
      <4>1. i # 0 => h[i-1] = g[i-1]
        BY <1>1, <3>1
      <4>2. Selected(q, X, h, i) = Selected(q, X, g, i)
        BY <4>1 DEF Selected
      <4>3. i # m => g[i] = Selected(q, X, g, i)
        BY <1>1, <3>1, <3>3 DEF Tabulates
      <4> QED
        BY <4>2, <4>3
    <3>7. Tabulates(S, q, X, h, m)
      <4> HIDE DEF h
      <4> QED
        BY <3>5, <3>6 DEF Tabulates
    <3> QED
      BY <2>2, <3>7
  <2> QED
    BY <2>3, <2>4
<1>3. Len(q) \notin Missing
  BY <1>2
<1> QED
  BY <1>1, <1>3

\* Within is the last entry of its own table.
LEMMA WithinTabulated ==
    ASSUME NEW S, NEW q \in Seq(S), NEW X
    PROVE  \E g : /\ \A i \in 0..Len(q) : g[i] = Selected(q, X, g, i)
                  /\ Within(q, X) = g[Len(q)]
<1> DEFINE Table(g) == g = [i \in 0..Len(q) |-> Selected(q, X, g, i)]
           c == CHOOSE g : Table(g)
<1>1. Within(q, X) = c[Len(q)]
  BY DEF Within, Selected
<1>2. PICK t : Tabulates(S, q, X, t, Len(q))
  BY TableExists
<1>3. Table(t)
  BY <1>2 DEF Tabulates
<1>4. Table(c)
  <2> HIDE DEF Table
  <2> QED
    BY <1>3
<1> HIDE DEF c
<1> QED
  BY <1>1, <1>4

\* What a sequence has before its element i.
Before(q, i) == {q[j] : j \in 1..i}

\* What is in T is in the sequence once at most.
OnceIn(T, q) == \A i, j \in DOMAIN q : q[i] = q[j] /\ q[i] \in T => i = j

\* The selection among the first i elements: their members of X, each once if it is there once.
Selects(S, q, X, g, i) ==
    /\ g[i] \in Seq(S)
    /\ Range(g[i]) = Before(q, i) \intersect X
    /\ IsInjective(q) => IsInjective(g[i])
    /\ \A T : OnceIn(T, q) => OnceIn(T, g[i])

\* One more element is appended if it is in X, and passed over if not.
LEMMA SelectionGrows ==
    ASSUME NEW S, NEW q \in Seq(S), NEW X, NEW g, NEW i \in 1..Len(q),
           Selects(S, q, X, g, i - 1), g[i] = Selected(q, X, g, i)
    PROVE  Selects(S, q, X, g, i)
<1>1. Before(q, i) = Before(q, i - 1) \union {q[i]}
  BY DEF Before
<1>2. CASE q[i] \notin X
  <2>1. g[i] = g[i-1]
    BY <1>2 DEF Selected
  <2> QED
    BY <1>1, <1>2, <2>1 DEF Selects
<1>3. CASE q[i] \in X
  <2> DEFINE s == g[i-1]
             n == Len(s)
  <2>1. s \in Seq(S) /\ g[i] = Append(s, q[i]) /\ n \in Nat /\ q[i] \in S
    BY <1>3 DEF Selected, Selects
  <2>2. /\ g[i] \in Seq(S) /\ DOMAIN g[i] = 1..n+1 /\ DOMAIN s = 1..n
        /\ \A j \in 1..n : g[i][j] = s[j]
        /\ g[i][n+1] = q[i]
    BY <2>1
  <2> HIDE DEF s, n
  <2>3. Range(g[i]) = Range(s) \union {q[i]}
    BY <2>1, <2>2 DEF Range
  <2>4. Range(s) = Before(q, i - 1) \intersect X
    BY DEF Selects, s
  <2>5. ASSUME IsInjective(q) PROVE IsInjective(g[i])
    <3>1. q[i] \notin Before(q, i - 1)
      BY <2>5 DEF IsInjective, Before
    <3>2. IsInjective(s)
      BY <2>5 DEF Selects, s
    <3>3. \A j \in 1..n : s[j] # q[i]
      BY <2>2, <2>4, <3>1 DEF Range
    <3> QED
      BY <2>1, <2>2, <3>2, <3>3 DEF IsInjective
  <2>6. ASSUME NEW T, OnceIn(T, q) PROVE OnceIn(T, g[i])
    <3>1. q[i] \in T => q[i] \notin Before(q, i - 1)
      BY <2>6 DEF OnceIn, Before
    <3>2. OnceIn(T, s)
      BY <2>6 DEF Selects, s
    <3>3. q[i] \in T => \A j \in 1..n : s[j] # q[i]
      BY <2>2, <2>4, <3>1 DEF Range
    <3> QED
      BY <2>1, <2>2, <3>2, <3>3 DEF OnceIn
  <2> QED
    BY <1>1, <1>3, <2>2, <2>3, <2>4, <2>5, <2>6 DEF Selects
<1> QED
  BY <1>2, <1>3

(* A selection keeps the members of X that were there, and no element twice  *)
(* that was there once.                                                      *)
LEMMA WithinProperties ==
    ASSUME NEW S, NEW q \in Seq(S), NEW X
    PROVE  /\ Within(q, X) \in Seq(S)
           /\ Range(Within(q, X)) = Range(q) \intersect X
           /\ IsInjective(q) => IsInjective(Within(q, X))
           /\ \A T : OnceIn(T, q) => OnceIn(T, Within(q, X))
<1>1. PICK g : /\ \A i \in 0..Len(q) : g[i] = Selected(q, X, g, i)
               /\ Within(q, X) = g[Len(q)]
  BY WithinTabulated
<1> DEFINE Missing == {i \in 0..Len(q) : ~Selects(S, q, X, g, i)}
<1>2. Len(q) \in Nat /\ Missing \subseteq Nat
  OBVIOUS
<1>3. ASSUME Missing # {} PROVE FALSE
  <2>1. PICK m \in Missing : \A k \in Missing : m <= k
    <3> HIDE DEF Missing
    <3> QED
      BY <1>2, <1>3, LeastExists
  <2>2. m \in 0..Len(q) /\ ~Selects(S, q, X, g, m)
    BY <2>1
  <2>3. CASE m = 0
    <3>1. g[0] = <<>>
      BY <1>1, <1>2 DEF Selected
    <3>2. Before(q, 0) = {}
      BY DEF Before
    <3>3. Selects(S, q, X, g, 0)
      BY <3>1, <3>2 DEF Selects, Range, IsInjective, OnceIn
    <3> QED
      BY <2>2, <2>3, <3>3
  <2>4. CASE m # 0
    <3>1. m \in 1..Len(q) /\ m - 1 \in 0..Len(q)
      BY <1>2, <2>2, <2>4
    <3>2. m - 1 \notin Missing
      <4> HIDE DEF Missing
      <4> QED
        BY <1>2, <2>1, <3>1
    <3>3. Selects(S, q, X, g, m - 1)
      BY <3>1, <3>2
    <3> QED
      BY <1>1, <2>2, <3>1, <3>3, SelectionGrows
  <2> QED
    BY <2>3, <2>4
<1>4. Selects(S, q, X, g, Len(q))
  BY <1>2, <1>3
<1>5. Before(q, Len(q)) = Range(q)
  BY DEF Before, Range
<1> QED
  BY <1>1, <1>4, <1>5 DEF Selects

\* What is left of a sequence without X, and that no repetition is added.
LEMMA WithoutProperties ==
    ASSUME NEW S, NEW q \in Seq(S), NEW X
    PROVE  /\ Without(q, X) \in Seq(S)
           /\ Range(Without(q, X)) = Range(q) \ X
           /\ IsInjective(q) => IsInjective(Without(q, X))
           /\ \A T : OnceIn(T, q) => OnceIn(T, Without(q, X))
  BY WithinProperties DEF Without

\* The writes of a queue are those of its entries.
LEMMA WritesOfRange == \A s : WritesOf(s) = {e.w : e \in Range(s)}
  BY DEF WritesOf, Range

\* Nothing is lost where a sequence is cut.
LEMMA CutProperties ==
    ASSUME NEW S, NEW q \in Seq(S), NEW n \in 0..Len(q)
    PROVE  /\ SubSeq(q, 1, n) \in Seq(S) /\ SubSeq(q, n + 1, Len(q)) \in Seq(S)
           /\ Range(q) = Range(SubSeq(q, 1, n)) \union Range(SubSeq(q, n + 1, Len(q)))
           /\ Range(SubSeq(q, 1, n)) = {q[i] : i \in 1..n}
<1> DEFINE s == SubSeq(q, 1, n)
           t == SubSeq(q, n + 1, Len(q))
<1>1. s \in Seq(S) /\ t \in Seq(S)
  OBVIOUS
<1>2. Len(s) = n /\ \A i \in 1..n : s[i] = q[i]
  OBVIOUS
<1>3. Len(t) = Len(q) - n /\ \A i \in 1..Len(q) - n : t[i] = q[n + i]
  OBVIOUS
<1>4. DOMAIN s = 1..n /\ DOMAIN t = 1..Len(q) - n /\ DOMAIN q = 1..Len(q) /\ Len(q) \in Nat
  BY <1>1, <1>2, <1>3
<1> HIDE DEF s, t
<1>5. Range(s) = {q[i] : i \in 1..n}
  BY <1>2, <1>4 DEF Range
<1>6. Range(t) = {q[i] : i \in n+1..Len(q)}
  <2>1. ASSUME NEW i \in n+1..Len(q) PROVE q[i] \in Range(t)
    <3>1. i - n \in DOMAIN t /\ t[i - n] = q[i]
      BY <1>3, <1>4
    <3> QED
      BY <3>1 DEF Range
  <2>2. ASSUME NEW i \in DOMAIN t PROVE t[i] \in {q[j] : j \in n+1..Len(q)}
    <3>1. n + i \in n+1..Len(q) /\ t[i] = q[n + i]
      BY <1>3, <1>4
    <3> QED
      BY <3>1
  <2> QED
    BY <2>1, <2>2 DEF Range
<1>7. Range(q) = {q[i] : i \in 1..n} \union {q[i] : i \in n+1..Len(q)}
  BY <1>4 DEF Range
<1> QED
  BY <1>1, <1>5, <1>6, <1>7 DEF s, t

\* The elements of two sequences put together.
LEMMA JoinedRange ==
    ASSUME NEW S, NEW s \in Seq(S), NEW t \in Seq(S)
    PROVE  s \o t \in Seq(S) /\ Range(s \o t) = Range(s) \union Range(t)
<1>1. s \o t \in Seq(S) /\ DOMAIN (s \o t) = 1..Len(s) + Len(t)
  OBVIOUS
<1>2. /\ \A i \in 1..Len(s) : (s \o t)[i] = s[i]
      /\ \A i \in 1..Len(t) : (s \o t)[Len(s) + i] = t[i]
  OBVIOUS
<1>3. DOMAIN s = 1..Len(s) /\ DOMAIN t = 1..Len(t) /\ Len(s) \in Nat /\ Len(t) \in Nat
  OBVIOUS
<1>4. ASSUME NEW i \in 1..Len(s) + Len(t)
      PROVE  (s \o t)[i] \in Range(s) \union Range(t)
  <2>1. CASE i \in 1..Len(s)
    BY <1>2, <1>3, <2>1 DEF Range
  <2>2. CASE i \notin 1..Len(s)
    <3>1. i - Len(s) \in 1..Len(t) /\ i = Len(s) + (i - Len(s))
      BY <1>3, <2>2
    <3>2. (s \o t)[i] = t[i - Len(s)]
      BY <1>2, <3>1
    <3> QED
      BY <1>3, <3>1, <3>2 DEF Range
  <2> QED
    BY <2>1, <2>2
<1>5. ASSUME NEW i \in 1..Len(s) PROVE s[i] \in Range(s \o t)
  <2>1. i \in DOMAIN (s \o t) /\ (s \o t)[i] = s[i]
    BY <1>1, <1>2, <1>3
  <2> QED
    BY <2>1 DEF Range
<1>6. ASSUME NEW i \in 1..Len(t) PROVE t[i] \in Range(s \o t)
  <2>1. Len(s) + i \in DOMAIN (s \o t) /\ (s \o t)[Len(s) + i] = t[i]
    BY <1>1, <1>2, <1>3
  <2> QED
    BY <2>1 DEF Range
<1> DEFINE u == s \o t
<1>7. DOMAIN u = 1..Len(s) + Len(t)
  BY <1>1
<1>8. \A i \in DOMAIN u : u[i] \in Range(s) \union Range(t)
  BY <1>4, <1>7
<1> HIDE DEF u
<1>9. Range(u) \subseteq Range(s) \union Range(t)
  BY <1>8 DEF Range
<1>10. Range(s) \subseteq Range(u) /\ Range(t) \subseteq Range(u)
  BY <1>3, <1>5, <1>6 DEF Range, u
<1> QED
  BY <1>1, <1>9, <1>10 DEF u

\* The same of three, as requeue puts them together.
LEMMA ThreeJoinedRange ==
    ASSUME NEW S, NEW s \in Seq(S), NEW t \in Seq(S), NEW u \in Seq(S)
    PROVE  s \o t \o u \in Seq(S) /\ Range(s \o t \o u) = Range(s) \union Range(t) \union Range(u)
<1> DEFINE st == s \o t
<1>1. st \in Seq(S) /\ Range(st) = Range(s) \union Range(t)
  BY JoinedRange
<1> HIDE DEF st
<1>2. st \o u \in Seq(S) /\ Range(st \o u) = Range(st) \union Range(u)
  BY <1>1, JoinedRange
<1> QED
  BY <1>1, <1>2 DEF st

\* An insertion splits the sequence and joins it around the element.
LEMMA InsertAtJoins ==
    \A s, i, e : InsertAt(s, i, e) = SubSeq(s, 1, i - 1) \o <<e>> \o SubSeq(s, i, Len(s))
  BY DEF InsertAt

\* An entry that is filed by its issue number goes between two parts of the queue.
LEMMA InsertedSplits ==
    ASSUME NEW q \in Seq(Entries), NEW e \in Entries
    PROVE  \E n \in 0..Len(q) : Inserted(q, e) = SubSeq(q, 1, n) \o <<e>> \o SubSeq(q, n + 1, Len(q))
<1> DEFINE behind == {i \in 0..Len(q) : \A j \in i+1..Len(q) : IssueNumber(q[j]) > IssueNumber(e)}
           n == Min(behind)
<1>1. behind \subseteq Nat /\ behind # {}
  <2>1. Len(q) \in behind
    OBVIOUS
  <2> QED
    BY <2>1
<1>2. n \in 0..Len(q)
  <2>1. n \in behind
    <3> HIDE DEF behind
    <3> QED
      BY <1>1, LeastExists DEF Min
  <2> QED
    BY <2>1
<1>3. Inserted(q, e) = InsertAt(q, n + 1, e)
  BY Zenon DEF Inserted
<1> HIDE DEF n, behind
<1>4. Inserted(q, e) = SubSeq(q, 1, n) \o <<e>> \o SubSeq(q, n + 1, Len(q))
  <2> DEFINE m == n + 1
  <2>1. Inserted(q, e) = InsertAt(q, m, e)
    BY <1>3
  <2> HIDE DEF m
  <2>2. Inserted(q, e) = SubSeq(q, 1, m - 1) \o <<e>> \o SubSeq(q, m, Len(q))
    BY <2>1, InsertAtJoins
  <2>3. m - 1 = n /\ m = n + 1
    BY <1>2 DEF m
  <2> QED
    BY <2>2, <2>3, Zenon
<1> QED
  BY <1>2, <1>4

\* It is there, with all the others.
LEMMA InsertedProperties ==
    ASSUME NEW q \in Seq(Entries), NEW e \in Entries
    PROVE  Inserted(q, e) \in Seq(Entries) /\ Range(Inserted(q, e)) = Range(q) \union {e}
<1>1. PICK n \in 0..Len(q) : Inserted(q, e) = SubSeq(q, 1, n) \o <<e>> \o SubSeq(q, n + 1, Len(q))
  BY InsertedSplits
<1> DEFINE s == SubSeq(q, 1, n)
           t == SubSeq(q, n + 1, Len(q))
           one == <<e>>
<1>2. one \in Seq(Entries) /\ Range(one) = {e}
  BY DEF Range
<1>3. s \in Seq(Entries) /\ t \in Seq(Entries) /\ Range(q) = Range(s) \union Range(t)
  BY CutProperties
<1>4. Inserted(q, e) = s \o one \o t
  BY <1>1
<1> HIDE DEF s, t, one
<1>5. s \o one \o t \in Seq(Entries) /\ Range(s \o one \o t) = Range(s) \union {e} \union Range(t)
  BY <1>2, <1>3, ThreeJoinedRange
<1> QED
  BY <1>3, <1>4, <1>5

-----------------------------------------------------------------------------

Issued == {w \in Writes : pc[w] # "new"}
Records == Range(store) \union appending \union unpersisted

\* Queue, batch and rest hold issued writes, every queued one; a record follows each unsettled one.
Memory ==
    /\ items \in Seq(Entries) /\ chunk \in Seq(Entries) /\ rest \in Seq(Entries)
    /\ store \in Seq(Writes)
    /\ slots \in Seq({"committed", "refused", "throttled"}) /\ Len(slots) <= Len(chunk)
    /\ InMemory \subseteq Issued /\ Records \subseteq Issued
    /\ \A w \in Writes : pc[w] = "queued" => w \in InMemory
    /\ \A w \in Writes : w \in unsettled => w \in Records

Outside == {"new", "waiting", "sent", "landed"}

\* A record is there once, or on its way and not there; its write is in memory or settled.
Exact ==
    /\ IsInjective(store)
    /\ Range(store) \intersect (appending \union unpersisted) = {}
    /\ \A w \in Writes : pc[w] \in Outside => w \notin Records
    /\ hydrated => Range(store) \subseteq InMemory \union removing
    /\ appending \subseteq InMemory \union removing

\* The step takes some writes into memory, and none out of it but what it settles.
Moved(queued) ==
    /\ items' \in Seq(Entries) /\ chunk' \in Seq(Entries) /\ rest' \in Seq(Entries)
    /\ slots' \in Seq({"committed", "refused", "throttled"}) /\ Len(slots') <= Len(chunk')
    /\ InMemory' \subseteq InMemory \union queued
    /\ InMemory \union queued \subseteq InMemory' \union removing'

\* A change of the queue that loses no write keeps memory and records in agreement.
LEMMA TurnKeepsRecords ==
    ASSUME IInv, Memory, Exact, IInv',
           NEW q, NEW verdicts, NEW queued \in SUBSET Writes, NEW fresh \in SUBSET queued,
           Turn(q, verdicts, queued, fresh), \A w \in fresh : pc[w] \in Outside,
           Moved(queued), UNCHANGED store,
           hydrated' => hydrated \/ Range(store) \subseteq InMemory \union queued
    PROVE  Memory' /\ Exact'
<1> DEFINE done == {v[1] : v \in verdicts}
<1>1. pc' = [w \in Writes |-> CASE w \in done -> "done"
                                [] w \in queued \ done /\ pc[w] # "done" -> "queued"
                                [] OTHER -> pc[w]]
  BY DEF Turn
<1>2. /\ unsettled' = (unsettled \union fresh) \ done
      /\ removing' = removing \union done
      /\ appending' = appending \union fresh
      /\ unpersisted' = unpersisted \ done
  BY DEF Turn
<1> HIDE DEF done
<1>3. Issued \subseteq Issued' /\ queued \subseteq Issued'
  BY <1>1 DEF Issued
<1>4. /\ Records' \subseteq Records \union fresh
      /\ Records \union fresh \subseteq Records' \union removing'
  BY <1>2 DEF Records
<1>5. InMemory' \subseteq Issued' /\ Records' \subseteq Issued'
  BY <1>3, <1>4 DEF Memory, Moved
<1>6. ASSUME NEW w \in Writes, pc'[w] = "queued" PROVE w \in InMemory'
  <2>1. w \notin removing'
    BY <1>6 DEF IInv, Removals
  <2>2. pc[w] = "queued" \/ w \in queued
    BY <1>1, <1>6
  <2> QED
    BY <2>1, <2>2 DEF Memory, Moved
<1>7. ASSUME NEW w \in Writes, w \in unsettled' PROVE w \in Records'
  <2>1. w \notin removing'
    BY <1>7 DEF IInv, Removals
  <2> QED
    BY <1>2, <1>4, <1>7, <2>1 DEF Memory
<1>8. Memory'
  BY <1>5, <1>6, <1>7 DEF Memory, Moved
<1>9. ASSUME NEW w \in fresh PROVE w \notin Records
  BY DEF Exact
<1>10. Range(store') \intersect (appending' \union unpersisted') = {}
  BY <1>2, <1>9 DEF Exact, Records
<1>11. ASSUME NEW w \in Writes, pc'[w] \in Outside PROVE w \notin Records'
  <2>1. pc[w] \in Outside /\ w \notin queued
    BY <1>1, <1>11 DEF Outside
  <2> QED
    BY <1>4, <2>1 DEF Exact
<1>12. /\ hydrated' => Range(store') \subseteq InMemory' \union removing'
       /\ appending' \subseteq InMemory' \union removing'
  BY <1>2 DEF Exact, Moved
<1> QED
  BY <1>8, <1>10, <1>11, <1>12 DEF Exact

\* A step of writes that are not queued, which leaves queue and records alone.
LEMMA OutsideKeepsRecords ==
    ASSUME IInv, Memory, Exact, NEW w \in Writes, NEW s \in Outside \union {"done"},
           pc[w] \in Outside, s # "new", pc' = [pc EXCEPT ![w] = s],
           UNCHANGED <<items, pass, store, unsettled, appending, removing, unpersisted, hydrated>>
    PROVE  Memory' /\ Exact'
<1>1. UNCHANGED <<InMemory, Records>>
  BY DEF InMemory, Records, pass
<1>2. /\ Issued \subseteq Issued'
      /\ \A v \in Writes : pc'[v] = "queued" => pc[v] = "queued"
      /\ \A v \in Writes : pc'[v] \in Outside => pc[v] \in Outside
  BY DEF Issued, Outside, IInv, Passes
<1>3. Memory'
  BY <1>1, <1>2 DEF Memory, pass
<1> QED
  BY <1>1, <1>2, <1>3 DEF Exact

\* No more is evicted than there is.
LEMMA ExcessBounds == \A q \in Seq(Entries) : Excess(q) \in 0..Len(q)
  BY ReplayAssumption DEF Excess

\* Whose verdict is given is done.
LEMMA Given ==
    ASSUME NEW verdicts, NEW w, NEW outcome, <<w, outcome>> \in verdicts
    PROVE  w \in {v[1] : v \in verdicts}
<1>1. <<w, outcome>>[1] = w
  OBVIOUS
<1> QED
  BY <1>1

\* The cap takes out of memory only what it settles.
LEMMA CappedMoves ==
    ASSUME Memory, NEW q \in Seq(Entries), NEW queued, NEW fresh, TurnCapped(q, queued, fresh),
           UNCHANGED pass, WritesOf(q) = WritesOf(items) \union queued
    PROVE  Moved(queued)
<1> DEFINE n == Excess(q)
           left == SubSeq(q, n + 1, Len(q))
           gone == SubSeq(q, 1, n)
<1>1. n \in 0..Len(q)
  BY ExcessBounds
<1> HIDE DEF n
<1>2. /\ left \in Seq(Entries)
      /\ Range(q) = Range(gone) \union Range(left)
      /\ Range(gone) = {q[i] : i \in 1..n}
  BY <1>1, CutProperties
<1>3. items' = left /\ removing' = removing \union {v[1] : v \in {<<q[i].w, "evicted">> : i \in 1..n}}
  BY DEF TurnCapped, Turn, n
<1> HIDE DEF left, gone
<1>4. {q[i].w : i \in 1..n} \subseteq {v[1] : v \in {<<q[i].w, "evicted">> : i \in 1..n}}
  <2>1. ASSUME NEW i \in 1..n PROVE <<q[i].w, "evicted">> \in {<<q[j].w, "evicted">> : j \in 1..n}
    OBVIOUS
  <2> QED
    BY <2>1, Given
<1>5. WritesOf(q) = WritesOf(left) \union {q[i].w : i \in 1..n}
  BY <1>2, WritesOfRange
<1>6. /\ WritesOf(items') \subseteq WritesOf(items) \union queued
      /\ WritesOf(items) \union queued \subseteq WritesOf(items') \union removing'
  BY <1>3, <1>4, <1>5
<1>7. items' \in Seq(Entries)
  BY <1>2, <1>3
<1>8. UNCHANGED <<chunk, rest, slots, WritesOf(chunk), WritesOf(rest)>>
  BY DEF pass, WritesOf
<1> QED
  BY <1>6, <1>7, <1>8 DEF Moved, InMemory, Memory

\* A new entry is in memory, or was evicted at once.
LEMMA EnqueueMoves ==
    ASSUME Memory, NEW w \in Writes, NEW kind \in Kinds, enqueue(Entry(w, kind)), UNCHANGED pass
    PROVE  Moved({w})
<1> DEFINE e == Entry(w, kind)
           q == Inserted(items, e)
<1>1. e \in Entries /\ e.w = w
  BY DEF Entry, Entries
<1>2. TurnCapped(q, {w}, {w})
  BY <1>1 DEF enqueue
<1> HIDE DEF e
<1>3. q \in Seq(Entries) /\ Range(q) = Range(items) \union {e}
  BY <1>1, InsertedProperties DEF Memory
<1> HIDE DEF q
<1>4. WritesOf(q) = WritesOf(items) \union {w}
  BY <1>1, <1>3, WritesOfRange
<1> QED
  BY <1>2, <1>3, <1>4, CappedMoves

\* It gets its record, and had none before.
LEMMA EnqueueKeepsRecords ==
    ASSUME IInv, Memory, Exact, IInv', NEW w \in Writes, NEW kind \in Kinds,
           pc[w] \in Outside, enqueue(Entry(w, kind)), UNCHANGED <<pass, store, hydrated>>
    PROVE  Memory' /\ Exact'
<1>1. Entry(w, kind).w = w
  BY DEF Entry
<1>2. \E q, verdicts : Turn(q, verdicts, {w}, {w})
  BY <1>1 DEF enqueue, TurnCapped
<1> QED
  BY <1>2, EnqueueMoves, TurnKeepsRecords

\* So does a write that is routed to the queue; one that is sent has no record.
LEMMA RouteKeepsRecords ==
    ASSUME IInv, Memory, Exact, IInv', NEW w \in Writes,
           pc[w] \in Outside, Route(w), UNCHANGED <<pass, store, hydrated>>
    PROVE  Memory' /\ Exact'
<1>1. CASE GoesToQueue
  BY <1>1, EnqueueKeepsRecords DEF Route, Kinds
<1>2. CASE ~GoesToQueue
  BY <1>2, OutsideKeepsRecords DEF Route, Outside
<1> QED
  BY <1>1, <1>2

\* What the drain settles for its precondition is all that leaves memory.
LEMMA DropMoves ==
    ASSUME Memory, NEW stale \in Stale, NEW q \in Seq(Entries), Drops(q, stale),
           chunk = <<>>, rest = <<>>, chunk' \in Seq(Entries), rest' \in Seq(Entries),
           slots' \in Seq({"committed", "refused", "throttled"}), Len(slots') <= Len(chunk'),
           WritesOf(Left(stale)) = WritesOf(q) \union WritesOf(chunk') \union WritesOf(rest')
    PROVE  Moved({})
<1>1. items' = q /\ removing' = removing \union {v[1] : v \in {<<e.w, "stale">> : e \in stale}}
  BY DEF Drops, Turn
<1>2. {e.w : e \in stale} \subseteq {v[1] : v \in {<<e.w, "stale">> : e \in stale}}
  <2>1. ASSUME NEW e \in stale PROVE <<e.w, "stale">> \in {<<f.w, "stale">> : f \in stale}
    OBVIOUS
  <2> QED
    BY <2>1, Given
<1>3. Range(Left(stale)) = Range(items) \ stale
  BY WithoutProperties DEF Left, Memory
<1>4. stale \subseteq Range(items)
  BY DEF Stale
<1>5. /\ WritesOf(Left(stale)) \subseteq WritesOf(items)
      /\ WritesOf(items) \subseteq WritesOf(Left(stale)) \union {e.w : e \in stale}
  BY <1>3, <1>4, WritesOfRange
<1>6. InMemory = WritesOf(items)
  BY DEF InMemory, WritesOf
<1>7. InMemory' = WritesOf(q) \union WritesOf(chunk') \union WritesOf(rest')
  BY <1>1 DEF InMemory, WritesOf
<1> QED
  BY <1>1, <1>2, <1>5, <1>6, <1>7 DEF Moved

\* No more entries go out than there are.
LEMMA DecidedBounds == \A q \in Seq(Entries) : Decided(q) \in 0..Len(q)
<1> SUFFICES ASSUME NEW q \in Seq(Entries) PROVE Decided(q) \in 0..Len(q)
  OBVIOUS
<1> DEFINE undecided == {i \in DOMAIN q : HasPrecondition(q[i]) /\ ~answered}
<1>1. Decided(q) = IF undecided = {} THEN Len(q) ELSE Min(undecided) - 1
  BY DEF Decided
<1>2. undecided \subseteq 1..Len(q) /\ Len(q) \in Nat
  OBVIOUS
<1> HIDE DEF undecided
<1>3. undecided \subseteq Nat
  BY <1>2
<1>4. undecided # {} => Min(undecided) \in 1..Len(q)
  BY <1>2, <1>3, LeastExists DEF Min
<1>5. CASE undecided = {}
  BY <1>1, <1>2, <1>5
<1>6. CASE undecided # {}
  BY <1>1, <1>2, <1>4, <1>6
<1> QED
  BY <1>5, <1>6

\* A batch and the rest behind it are what was drained.
LEMMA SentProperties ==
    ASSUME NEW q \in Seq(Entries), SendsOf(q)
    PROVE  /\ chunk' \in Seq(Entries) /\ rest' \in Seq(Entries) /\ slots' = <<>>
           /\ WritesOf(q) = WritesOf(chunk') \union WritesOf(rest')
<1>1. PICK n \in 1..Min({Len(q), MaxBatch}) :
         chunk' = SubSeq(q, 1, n) /\ rest' = SubSeq(q, n + 1, Len(q)) /\ slots' = <<>>
  BY DEF SendsOf
<1>2. Min({Len(q), MaxBatch}) \in Nat /\ Min({Len(q), MaxBatch}) <= Len(q)
  BY ReplayAssumption DEF Min
<1>3. n \in 0..Len(q)
  BY <1>1, <1>2
<1> QED
  BY <1>1, <1>3, CutProperties, WritesOfRange

\* A new batch has no verdicts yet.
LEMMA SlotsEmpty ==
    <<>> \in Seq({"committed", "refused", "throttled"}) /\ \A s \in Seq(Entries) : Len(<<>>) <= Len(s)
  OBVIOUS

\* A pass that holds everything loses only what it rejects as stale.
LEMMA DrainHoldsRecords ==
    ASSUME IInv, Memory, Exact, IInv', DrainHolds PROVE Memory' /\ Exact'
<1>1. PICK stale \in Stale : Drops(Left(stale), stale)
  BY DEF DrainHolds
<1>2. Undrained /\ UNCHANGED <<chunk, slots, rest, store, hydrated>>
  BY DEF DrainHolds, pass
<1>3. Left(stale) \in Seq(Entries)
  BY WithoutProperties DEF Left, Memory
<1>4. WritesOf(chunk') = {} /\ WritesOf(rest') = {}
  BY <1>2 DEF WritesOf, Undrained
<1>5. Moved({})
  BY <1>1, <1>2, <1>3, <1>4, DropMoves DEF Undrained, Memory
<1> QED
  BY <1>1, <1>2, <1>5, TurnKeepsRecords DEF Drops

\* What a drain takes from the queue is in the batch, the rest or the queue.
LEMMA DrainSendsRecords ==
    ASSUME IInv, Memory, Exact, IInv', DrainSends PROVE Memory' /\ Exact'
<1>1. PICK stale \in Stale :
        /\ Drops(SubSeq(Left(stale), Decided(Left(stale)) + 1, Len(Left(stale))), stale)
        /\ SendsOf(SubSeq(Left(stale), 1, Decided(Left(stale))))
  BY DEF DrainSends
<1> DEFINE q == Left(stale)
           n == Decided(q)
           out == SubSeq(q, 1, n)
           held == SubSeq(q, n + 1, Len(q))
<1>2. q \in Seq(Entries)
  BY WithoutProperties DEF Left, Memory
<1>3. n \in 0..Len(q)
  BY <1>2, DecidedBounds
<1>4. Drops(held, stale) /\ SendsOf(out)
  BY <1>1
<1> HIDE DEF q, n
<1>5. out \in Seq(Entries) /\ held \in Seq(Entries) /\ Range(q) = Range(out) \union Range(held)
  BY <1>2, <1>3, CutProperties
<1> HIDE DEF out, held
<1>6. /\ chunk' \in Seq(Entries) /\ rest' \in Seq(Entries) /\ slots' = <<>>
      /\ WritesOf(out) = WritesOf(chunk') \union WritesOf(rest')
  BY <1>4, <1>5, SentProperties
<1>7. WritesOf(q) = WritesOf(held) \union WritesOf(chunk') \union WritesOf(rest')
  BY <1>5, <1>6, WritesOfRange
<1>8. Undrained /\ UNCHANGED <<store, hydrated>>
  BY DEF DrainSends
<1>9. Moved({})
  BY <1>4, <1>5, <1>6, <1>7, <1>8, SlotsEmpty, DropMoves DEF Undrained, q
<1> QED
  BY <1>4, <1>8, <1>9, TurnKeepsRecords DEF Drops

\* A batch of which every write has its verdict leaves the rest to go on with.
LEMMA GoesOnMoves ==
    ASSUME Memory, NEW verdicts, Turn(items, verdicts, {}, {}), GoesOn,
           \A w \in WritesOf(chunk) : w \in {v[1] : v \in verdicts}
    PROVE  Moved({})
<1>1. items' = items /\ removing' = removing \union {v[1] : v \in verdicts}
  BY DEF Turn
<1>2. /\ chunk' \in Seq(Entries) /\ rest' \in Seq(Entries) /\ slots' = <<>>
      /\ WritesOf(rest) = WritesOf(chunk') \union WritesOf(rest')
  <2>1. CASE rest # <<>>
    BY <2>1, SentProperties DEF GoesOn, Memory
  <2>2. CASE rest = <<>>
    BY <2>2 DEF GoesOn, WritesOf
  <2> QED
    BY <2>1, <2>2
<1>3. WritesOf(items') = WritesOf(items)
  BY <1>1
<1> QED
  BY <1>1, <1>2, <1>3, SlotsEmpty DEF Moved, InMemory, Memory

\* The writes of a refused batch are settled, each of them.
LEMMA WholeRefusedRecords ==
    ASSUME IInv, Memory, Exact, IInv', WholeRefused PROVE Memory' /\ Exact'
<1> DEFINE verdicts == {<<e.w, "refused">> : e \in Range(chunk)}
<1>1. Turn(items, verdicts, {}, {}) /\ GoesOn /\ UNCHANGED <<store, hydrated>>
  BY DEF WholeRefused
<1>2. ASSUME NEW w \in WritesOf(chunk) PROVE w \in {v[1] : v \in verdicts}
  <2>1. PICK e \in Range(chunk) : w = e.w
    BY WritesOfRange
  <2>2. <<e.w, "refused">> \in verdicts
    OBVIOUS
  <2> QED
    BY <2>1, <2>2, Given
<1> HIDE DEF verdicts
<1>3. Moved({})
  BY <1>1, <1>2, GoesOnMoves
<1> QED
  BY <1>1, <1>3, TurnKeepsRecords

\* An answered batch: each of its writes is settled or back in front of the queue.
LEMMA ReplyRecords ==
    ASSUME IInv, Memory, Exact, IInv', NEW unread, NEW counted, Reply(unread, counted)
    PROVE  Memory' /\ Exact'
<1> DEFINE verdict(i) == IF i > Len(slots) \/ i \in unread THEN "unanswered" ELSE slots[i]
           tried == {i \in DOMAIN chunk : verdict(i) = "unanswered" /\ chunk[i].kind = "ambiguous" /\ counted}
           spent == {i \in tried : LastAttempt(chunk[i].w)}
           again == {i \in DOMAIN chunk : verdict(i) \in {"throttled", "unanswered"}} \ spent
           kept == Within(chunk, {chunk[i] : i \in again})
           settled == {<<chunk[i].w, verdict(i)>> : i \in {j \in DOMAIN chunk : verdict(j) \in {"committed", "refused"}}}
           given_up == {<<chunk[i].w, "gaveup">> : i \in spent}
           verdicts == settled \union given_up
<1>1. /\ \/ /\ Turn(kept \o rest \o items, verdicts, {}, {})
            /\ chunk' = <<>> /\ rest' = <<>> /\ slots' = <<>>
         \/ again = {} /\ Turn(items, verdicts, {}, {}) /\ GoesOn
      /\ UNCHANGED <<store, hydrated>>
  BY DEF Reply
<1>2. ASSUME NEW i \in DOMAIN chunk PROVE i \in again \/ chunk[i].w \in {v[1] : v \in verdicts}
  <2>1. verdict(i) \in {"unanswered", "committed", "refused", "throttled"}
    BY DEF Memory
  <2>2. CASE verdict(i) \in {"committed", "refused"}
    <3>1. <<chunk[i].w, verdict(i)>> \in settled
      BY <2>2
    <3> HIDE DEF settled, given_up, verdict
    <3>2. <<chunk[i].w, verdict(i)>> \in verdicts
      BY <3>1
    <3> HIDE DEF verdicts
    <3> QED
      BY <3>2, Given
  <2>3. CASE i \in spent
    <3>1. <<chunk[i].w, "gaveup">> \in given_up
      BY <2>3
    <3> HIDE DEF settled, given_up
    <3>2. <<chunk[i].w, "gaveup">> \in verdicts
      BY <3>1
    <3> HIDE DEF verdicts
    <3> QED
      BY <3>2, Given
  <2> HIDE DEF verdicts, spent
  <2> QED
    BY <2>1, <2>2, <2>3
<1> DEFINE back == {chunk[i] : i \in again}
<1>3. /\ kept \in Seq(Entries)
      /\ Range(kept) = Range(chunk) \intersect back
  BY WithinProperties DEF Memory
<1>4. back \subseteq Range(chunk)
  BY DEF Range
<1> HIDE DEF kept
<1>5. CASE /\ Turn(kept \o rest \o items, verdicts, {}, {})
           /\ chunk' = <<>> /\ rest' = <<>> /\ slots' = <<>>
  <2> HIDE DEF again, verdicts
  <2> DEFINE q == kept \o rest \o items
  <2>1. q \in Seq(Entries) /\ Range(q) = Range(kept) \union Range(rest) \union Range(items)
    BY <1>3, ThreeJoinedRange DEF Memory
  <2>2. WritesOf(q) = {chunk[i].w : i \in again} \union WritesOf(rest) \union WritesOf(items)
    <3>1. Range(kept) = back
      BY <1>3, <1>4
    <3>2. {e.w : e \in back} = {chunk[i].w : i \in again}
      OBVIOUS
    <3> HIDE DEF q, back
    <3> QED
      BY <2>1, <3>1, <3>2, WritesOfRange
  <2>3. items' = q /\ removing' = removing \union {v[1] : v \in verdicts}
    BY <1>5 DEF Turn
  <2> HIDE DEF q
  <2>4. {chunk[i].w : i \in again} \subseteq WritesOf(chunk)
    BY DEF WritesOf, again
  <2>5. WritesOf(chunk) \subseteq {chunk[i].w : i \in again} \union {v[1] : v \in verdicts}
    BY <1>2 DEF WritesOf
  <2>6. InMemory' = WritesOf(q)
    BY <1>5, <2>3 DEF InMemory, WritesOf
  <2>7. Moved({})
    BY <1>5, <2>1, <2>2, <2>3, <2>4, <2>5, <2>6, SlotsEmpty DEF Moved, InMemory
  <2> QED
    BY <1>1, <1>5, <2>7, TurnKeepsRecords
<1>6. CASE again = {} /\ Turn(items, verdicts, {}, {}) /\ GoesOn
  <2> HIDE DEF again, verdicts
  <2>1. \A w \in WritesOf(chunk) : w \in {v[1] : v \in verdicts}
    BY <1>2, <1>6 DEF WritesOf
  <2>2. Moved({})
    BY <1>6, <2>1, GoesOnMoves
  <2> QED
    BY <1>1, <1>6, <2>2, TurnKeepsRecords
<1> QED
  BY <1>1, <1>5, <1>6

\* Restored entries have the records they came from.
LEMMA HydrateRecords ==
    ASSUME IInv, Memory, Exact, IInv', Hydrate PROVE Memory' /\ Exact'
<1> DEFINE records == Without(store, WritesOf(items))
           entries == [i \in DOMAIN records |-> Entry(records[i], "restored")]
           q == entries \o items
<1>1. TurnCapped(q, Range(records), {}) /\ UNCHANGED <<store, pass>>
  BY DEF Hydrate, around
<1>2. records \in Seq(Writes) /\ Range(records) = Range(store) \ WritesOf(items)
  BY WithoutProperties DEF Memory
<1> HIDE DEF records
<1>3. entries \in Seq(Entries) /\ WritesOf(entries) = Range(records)
  <2>1. DOMAIN records = 1..Len(records) /\ Len(records) \in Nat
    BY <1>2
  <2>2. \A i \in 1..Len(records) : records[i] \in Writes
    BY <1>2
  <2>3. \A w \in Writes : Entry(w, "restored") \in Entries /\ Entry(w, "restored").w = w
    BY DEF Entry, Entries, Kinds
  <2>4. DOMAIN entries = 1..Len(records) /\ \A i \in 1..Len(records) : entries[i] = Entry(records[i], "restored")
    BY <2>1
  <2>5. entries \in [1..Len(records) -> Entries]
    BY <2>1, <2>2, <2>3
  <2>6. entries \in Seq(Entries)
    BY <2>1, <2>5, IsASeq
  <2> HIDE DEF entries
  <2>7. \A i \in 1..Len(records) : entries[i].w = records[i]
    BY <2>2, <2>3, <2>4
  <2>8. WritesOf(entries) = Range(records)
    BY <2>1, <2>4, <2>7 DEF WritesOf, Range
  <2> QED
    BY <2>6, <2>8
<1> HIDE DEF entries
<1>4. q \in Seq(Entries) /\ Range(q) = Range(entries) \union Range(items)
  BY <1>3, JoinedRange DEF Memory
<1> HIDE DEF q
<1>5. WritesOf(q) = WritesOf(items) \union Range(records)
  BY <1>3, <1>4, WritesOfRange
<1>6. Moved(Range(records))
  BY <1>1, <1>4, <1>5, CappedMoves
<1>7. Range(records) \subseteq Writes /\ Range(store) \subseteq InMemory \union Range(records)
  BY <1>2 DEF InMemory, Range
<1> QED
  BY <1>1, <1>6, <1>7, TurnKeepsRecords DEF TurnCapped

\* The verdict of the shard changes neither memory nor storage.
LEMMA ShardTakesRecords ==
    ASSUME IInv, Memory, Exact, ShardTakes PROVE Memory' /\ Exact'
<1>1. /\ \E s \in {"committed", "refused", "throttled"} : slots' = Append(slots, s)
      /\ Len(slots) < Len(chunk)
      /\ UNCHANGED <<chunk, rest, store, hydrated, tray>>
  BY DEF ShardTakes
<1>2. slots' \in Seq({"committed", "refused", "throttled"}) /\ Len(slots') <= Len(chunk')
  BY <1>1 DEF Memory
<1>3. UNCHANGED <<InMemory, Records, Issued, items, pc, unsettled, appending, removing, unpersisted>>
  BY <1>1 DEF InMemory, Records, Issued, tray
<1> QED
  BY <1>1, <1>2, <1>3 DEF Memory, Exact

\* A step that leaves queue, drain and records alone.
LEMMA NothingMoves ==
    ASSUME Memory, Exact, UNCHANGED <<tray, pass, store, hydrated>>
    PROVE  Memory' /\ Exact'
<1>1. UNCHANGED <<InMemory, Records, Issued>>
  BY DEF InMemory, Records, Issued, tray, pass
<1> QED
  BY <1>1 DEF Memory, Exact, tray, pass

\* An append or a removal lands or fails: the record is where it is counted.
LEMMA RecordsMove ==
    ASSUME IInv, Memory, Exact, IInv', NEW w \in Writes,
           AppendLands(w) \/ AppendFails(w) \/ RemoveLands(w)
    PROVE  Memory' /\ Exact'
<1>1. UNCHANGED <<InMemory, Issued, pc, unsettled, items, chunk, rest, slots, hydrated>>
  BY DEF AppendLands, AppendFails, RemoveLands, storage, around, pass, InMemory, Issued
<1>2. CASE AppendLands(w)
  <2>1. /\ w \in appending /\ appending' = appending \ {w} /\ unpersisted' = unpersisted \ {w}
        /\ store' = Append(store, w) /\ removing' = removing
    BY <1>2 DEF AppendLands
  <2>2. store' \in Seq(Writes) /\ Range(store') = Range(store) \union {w}
    <3>1. Append(store, w) = store \o <<w>>
      BY DEF Memory
    <3>2. <<w>> \in Seq(Writes) /\ Range(<<w>>) = {w}
      BY DEF Range
    <3> DEFINE one == <<w>>
    <3> HIDE DEF one
    <3>3. store \o one \in Seq(Writes) /\ Range(store \o one) = Range(store) \union Range(one)
      BY ZenonT(30), <3>2, JoinedRange DEF Memory, one
    <3> QED
      BY <2>1, <3>1, <3>2, <3>3 DEF one
  <2>3. w \notin Range(store)
    BY <2>1 DEF Exact
  <2>4. IsInjective(store')
    BY <2>1, <2>3 DEF Exact, Memory, IsInjective, Range
  <2>5. Records' = Records
    BY <2>1, <2>2 DEF Records
  <2>6. Memory'
    BY <1>1, <2>2, <2>5 DEF Memory
  <2> QED
    BY <1>1, <2>1, <2>2, <2>3, <2>4, <2>5, <2>6 DEF Exact
<1>3. CASE AppendFails(w)
  <2>1. /\ w \in appending /\ appending' = appending \ {w} /\ UNCHANGED <<store, removing>>
        /\ unpersisted' = IF w \in unsettled THEN unpersisted \union {w} ELSE unpersisted
    BY <1>3 DEF AppendFails, WorthRetrying
  <2>2. Records' \subseteq Records /\ \A v \in unsettled : v \in Records => v \in Records'
    BY <2>1 DEF Records
  <2>3. Memory'
    BY <1>1, <2>1, <2>2 DEF Memory
  <2> QED
    BY <1>1, <2>1, <2>2, <2>3 DEF Exact
<1>4. CASE RemoveLands(w)
  <2>1. /\ w \in removing /\ w \notin appending /\ removing' = removing \ {w}
        /\ store' = Without(store, {w}) /\ UNCHANGED <<appending, unpersisted>>
    BY <1>4 DEF RemoveLands, MayRemove
  <2>2. /\ store' \in Seq(Writes) /\ Range(store') = Range(store) \ {w}
        /\ IsInjective(store) => IsInjective(store')
    BY <2>1, WithoutProperties DEF Memory
  <2>3. w \notin unsettled
    BY <2>1 DEF IInv, Removals
  <2>4. Records' \subseteq Records /\ \A v \in unsettled : v \in Records => v \in Records'
    BY <2>1, <2>2, <2>3 DEF Records
  <2>5. Memory'
    BY <1>1, <2>2, <2>4 DEF Memory
  <2> QED
    BY <1>1, <2>1, <2>2, <2>4, <2>5 DEF Exact
<1> QED
  BY <1>2, <1>3, <1>4

\* What the hidden page appends again is not stored yet.
LEMMA PageHidesRecords ==
    ASSUME IInv, Memory, Exact, PageHides PROVE Memory' /\ Exact'
<1>1. UNCHANGED <<InMemory, Issued, pc, unsettled, items, chunk, rest, slots, hydrated, store, removing, unpersisted>>
  BY DEF PageHides, storage, around, pass, InMemory, Issued
<1>2. appending' = appending \union Unpersisted /\ Unpersisted \subseteq unpersisted \intersect unsettled
  BY DEF PageHides, Unpersisted
<1>3. Records' = Records
  BY <1>1, <1>2 DEF Records
<1>4. Unpersisted \subseteq InMemory
  <2>1. Unpersisted \subseteq Issued
    BY <1>2 DEF Memory, Records
  <2> QED
    BY <1>2, <2>1 DEF Memory, IInv, Removals, Issued
<1>5. Memory'
  BY <1>1, <1>3 DEF Memory
<1> QED
  BY <1>1, <1>2, <1>3, <1>4, <1>5 DEF Exact

\* Memory is empty after a reload; the records stay for hydrate.
LEMMA ReloadRecords ==
    ASSUME IInv, Memory, Exact, Reload PROVE Memory' /\ Exact'
<1>1. /\ items' = <<>> /\ chunk' = <<>> /\ rest' = <<>> /\ slots' = <<>> /\ hydrated' = FALSE
      /\ unsettled' = {} /\ appending' = {} /\ unpersisted' = {} /\ store' = store
      /\ pc' = [w \in Writes |-> CASE pc[w] \in {"new", "done"} -> pc[w]
                                   [] pc[w] \notin {"new", "done"} /\ w \in Range(store) -> "stored"
                                   [] OTHER -> "gone"]
  BY DEF Reload
<1>2. Issued' = Issued
  BY <1>1 DEF Issued
<1>3. InMemory' = {} /\ Records' \subseteq Records
  BY <1>1 DEF InMemory, WritesOf, Records
<1>4. \A w \in Writes : pc'[w] # "queued" /\ (pc'[w] \in Outside => pc[w] \in Outside)
  BY <1>1 DEF Outside, IInv, Passes
<1>5. Memory'
  BY <1>1, <1>2, <1>3, <1>4 DEF Memory
<1> QED
  BY <1>1, <1>3, <1>4, <1>5 DEF Exact

\* A new write has no record, until it is queued.
LEMMA IssueRecords ==
    ASSUME IInv, Memory, Exact, IInv', Issue PROVE Memory' /\ Exact'
<1> DEFINE fresh == {v \in Writes : pc[v] = "new"}
           x == Min(fresh)
<1>1. x \in fresh
  BY OldestIsOne DEF Issue
<1>2. x \in Writes /\ pc[x] \in Outside
  BY <1>1 DEF Outside
<1>3. /\ \/ /\ pc' = [pc EXCEPT ![x] = "waiting"]
            /\ UNCHANGED <<items, unsettled, appending, removing, unpersisted>>
         \/ Route(x)
      /\ UNCHANGED <<pass, store, hydrated>>
  BY DEF Issue
<1> HIDE DEF x
<1> QED
  BY <1>2, <1>3, RouteKeepsRecords, OutsideKeepsRecords DEF Outside

\* Nor has a waiting one.
LEMMA ResumeRecords ==
    ASSUME IInv, Memory, Exact, IInv', Resume PROVE Memory' /\ Exact'
<1> DEFINE x == Min(Ready)
<1>1. x \in Ready
  BY OldestIsOne DEF Resume, Ready
<1>2. x \in Writes /\ pc[x] \in Outside
  BY <1>1 DEF Ready, Outside
<1>3. Route(x) /\ UNCHANGED <<pass, store, hydrated>>
  BY DEF Resume
<1> HIDE DEF x
<1> QED
  BY <1>2, <1>3, RouteKeepsRecords

\* Nor one that was sent directly, until it is queued without an answer.
LEMMA DirectRecords ==
    ASSUME IInv, Memory, Exact, IInv', NEW w \in Writes, Direct(w) \/ DirectFails(w)
    PROVE  Memory' /\ Exact'
<1>1. UNCHANGED <<pass, store, hydrated>> /\ pc[w] \in Outside
  BY DEF Direct, DirectLands, DirectAnswered, DirectRefused, DirectFails, sending, Outside
<1>2. \/ enqueue(Entry(w, "ambiguous"))
      \/ \E s \in {"landed", "done"} :
            /\ pc' = [pc EXCEPT ![w] = s]
            /\ UNCHANGED <<items, unsettled, appending, removing, unpersisted>>
  BY DEF Direct, DirectLands, DirectAnswered, DirectRefused, DirectFails, RetriesLater
<1>3. CASE enqueue(Entry(w, "ambiguous"))
  BY <1>1, <1>3, EnqueueKeepsRecords DEF Kinds
<1>4. ASSUME NEW s \in {"landed", "done"}, pc' = [pc EXCEPT ![w] = s],
             UNCHANGED <<items, unsettled, appending, removing, unpersisted>>
      PROVE  Memory' /\ Exact'
  BY <1>1, <1>4, OutsideKeepsRecords DEF Outside
<1> QED
  BY <1>2, <1>3, <1>4

\* Queue and storage start empty.
LEMMA RecordsInit == Init => Memory /\ Exact
<1> SUFFICES ASSUME Init PROVE Memory /\ Exact
  OBVIOUS
<1>1. /\ items = <<>> /\ chunk = <<>> /\ rest = <<>> /\ slots = <<>> /\ store = <<>>
      /\ unsettled = {} /\ appending = {} /\ unpersisted = {} /\ hydrated = FALSE
      /\ pc = [w \in Writes |-> "new"]
  BY DEF Init
<1>2. InMemory = {} /\ Records = {}
  BY <1>1 DEF InMemory, WritesOf, Records, Range
<1> QED
  BY <1>1, <1>2 DEF Memory, Exact, IsInjective, Range

\* Every step keeps memory and records in agreement.
LEMMA RecordsStep ==
    ASSUME IInv, Memory, Exact, IInv', [Next]_vars
    PROVE  Memory' /\ Exact'
<1>1. CASE UNCHANGED vars
  BY <1>1, NothingMoves DEF vars
<1>2. CASE Resume \/ Issue \/ \E w \in Writes : Direct(w) \/ DirectFails(w)
  BY <1>2, ResumeRecords, IssueRecords, DirectRecords
<1>3. CASE Replay \/ ShardTakes \/ WholeRefused
  BY <1>3, DrainHoldsRecords, DrainSendsRecords, ReplyRecords, ShardTakesRecords, WholeRefusedRecords DEF Replay
<1>4. CASE \/ TimerFires \/ Connect \/ SnapshotsAnswered \/ IdentitySettles \/ Drop \/ TokenRefreshed
           \/ \E k \in Keys : StrayLands(k)
  <2>1. UNCHANGED <<tray, pass, store, hydrated>>
    BY <1>4 DEF TimerFires, Connect, SnapshotsAnswered, IdentitySettles, Drop, TokenRefreshed, StrayLands, around
  <2> QED
    BY <2>1, NothingMoves
<1>5. CASE Storage \/ \E w \in Writes : AppendFails(w)
  BY <1>5, RecordsMove, PageHidesRecords, HydrateRecords DEF Storage
<1>6. CASE Reload
  BY <1>6, ReloadRecords
<1>7. CASE \E unread \in SUBSET (1..Len(slots)), counted \in BOOLEAN : Reply(unread, counted)
  BY <1>7, ReplyRecords
<1> QED
  BY <1>1, <1>2, <1>3, <1>4, <1>5, <1>6, <1>7 DEF Next, Failures

\* They agree in every reachable state.
LEMMA RecordsInvariance == Spec => [](IInv /\ Memory /\ Exact)
<1>1. Init => IInv /\ Memory /\ Exact
  BY InitHolds, RecordsInit
<1>2. IInv /\ Memory /\ Exact /\ [Next]_vars => (IInv /\ Memory /\ Exact)'
  BY StepHolds, RecordsStep
<1> QED
  BY <1>1, <1>2, PTL DEF Spec

(* No queued write is dropped from memory by any path through direct sends,  *)
(* drains, lost batches and hydration, and no record of an unsettled one is  *)
(* missing or being removed.                                                 *)
THEOREM QueueIsBacked == Spec => []Backed
<1>1. IInv /\ Memory => Backed
  BY DEF IInv, Memory, Removals, Records, Issued, Backed
<1> QED
  BY <1>1, RecordsInvariance, PTL

(* However appends, retries of appends and removals overlap, a record is     *)
(* stored once, and one that outlives its write is being removed.            *)
THEOREM StoreIsExact == Spec => []StoreExact
<1>1. Exact => StoreExact
  BY DEF Exact, StoreExact
<1> QED
  BY <1>1, RecordsInvariance, PTL
=============================================================================
