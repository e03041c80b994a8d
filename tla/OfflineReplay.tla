---------------------------- MODULE OfflineReplay ----------------------------
(* The way of a mutation through the client (packages/client/src:            *)
(* lunora-client.ts, offline-queue.ts): sent directly over HTTP while the    *)
(* shard's socket is up, queued and mirrored to durable storage while it is  *)
(* down, replayed in batches when it comes back, queued again after an       *)
(* answer that says nothing of its fate, restored after a reload.  The shard *)
(* at the other end is the one WriteOnce promises: it applies each mutation  *)
(* id once, per namespace of the client that issued it.                      *)
(* One shard key, one tab, no outbox sink; writes carry their issue number.  *)
EXTENDS Naturals, FiniteSetsExt, SequencesExt

CONSTANTS MaxWrites,     \* the app issues the writes 1..MaxWrites, in this order
          Guarded,       \* writes with a snapshot precondition
          MaxItems,      \* OfflineQueueOptions.maxItems
          MaxBatch,      \* MAX_BATCH_ENTRIES
          MaxAttempts,   \* MAX_AMBIGUOUS_SEND_ATTEMPTS
          QueueEarly,    \* OfflineQueueOptions.queueBeforeFirstConnect
          Takeover,      \* the durable queue may be restored over a socket that is open
          MaxPasses,     \* bound: replay passes of the shard pending at once
          MaxReloads,    \* bound: reloads of the page
          MaxFaults      \* bound: drops, lost batches, throttled slots, failed appends

Writes == 1..MaxWrites
Sessions == 0..MaxReloads
Keys == Sessions \X Writes

ASSUME ReplayAssumption ==
    /\ {MaxWrites, MaxReloads, MaxFaults} \subseteq Nat
    /\ {MaxItems, MaxBatch, MaxAttempts, MaxPasses} \subseteq Nat \ {0}
    /\ Guarded \subseteq Writes /\ {QueueEarly, Takeover} \subseteq BOOLEAN

VARIABLES
    open, count,  \* the shard: ids it would still apply, how often it applied each
    stray,        \* requests the client gave up on that may still reach the shard
    store,        \* durable records, in the order in which they landed
    session,      \* the page's life; its client id
    client,       \* the session that issued each write, kept with its record
    online,       \* the shard's socket is open
    ever,         \* wasEverConnected
    known,        \* the identity, for the gate of the replay: settled or not yet
    answered,     \* the snapshots have been answered on this socket
    parked,       \* answerHeldShards: a flush is owed once they are
    pc,           \* where each write stands
    ahead,        \* replay passes a waiting write still waits for
    items,        \* the offline queue
    chunk, slots, \* the batch on the wire and the shard's verdicts so far
    rest,         \* drained entries behind the batch
    passes,       \* replay passes published and not over (offlineFlushes)
    timer,        \* a retry of the flush is scheduled
    attempts,     \* replayAttempts
    unsettled, appending, removing, unpersisted,   \* the queue's durable bookkeeping
    hydrated,     \* hydrate has run in this session
    told,         \* history: verdicts given, as <<write, verdict>>
    faults        \* history, bounded

shard == <<open, count>>
link == <<online, ever, known, answered>>
pass == <<chunk, slots, rest>>
tray == <<items, told, pc, unsettled, appending, removing, unpersisted>>
vars == <<shard, stray, store, session, client, link, parked, ahead, pass, passes, timer,
          attempts, hydrated, faults, tray>>

\* The shard, as promised; its answers travel below.
Shard == INSTANCE WriteOnce WITH Writes <- Keys, Forgettable <- {}, heard <- {}

Init ==
    /\ open = Keys /\ count = [k \in Keys |-> 0] /\ stray = {}
    /\ store = <<>> /\ session = 0 /\ client = [w \in Writes |-> 0]
    /\ online = FALSE /\ ever = FALSE /\ known = "settled" /\ answered = FALSE /\ parked = FALSE
    /\ pc = [w \in Writes |-> "new"] /\ ahead = [w \in Writes |-> 0]
    /\ items = <<>> /\ chunk = <<>> /\ slots = <<>> /\ rest = <<>>
    /\ passes = 0 /\ timer = FALSE /\ attempts = [w \in Writes |-> 0]
    /\ unsettled = {} /\ appending = {} /\ removing = {} /\ unpersisted = {}
    /\ hydrated = FALSE /\ told = {} /\ faults = 0

-----------------------------------------------------------------------------
(* The queue.  An entry is a write and what it came from: a live call, a     *)
(* direct send whose answer was lost, or the record of an earlier session.   *)

Kinds == {"live", "ambiguous", "restored"}
Entry(w, kind) == [w |-> w, kind |-> kind]
WritesOf(s) == {s[i].w : i \in DOMAIN s}
\* What of q is in X, in the order of q (a selection whose range can be proved).
Within(q, X) ==
    LET kept[i \in 0..Len(q)] ==
            IF i = 0 THEN <<>>
            ELSE IF q[i] \in X THEN Append(kept[i-1], q[i]) ELSE kept[i-1]
    IN kept[Len(q)]
Without(q, X) == Within(q, Range(q) \ X)

InMemory == WritesOf(items) \union WritesOf(chunk) \union WritesOf(rest)

KeyOfSession(w) == <<session, w>>                                    \* mutant

\* The id the shard knows a write by: in the namespace of the client that issued it.
KeyOf(w) == <<client[w], w>>

Fault == faults < MaxFaults /\ faults' = faults + 1

\* A restored record has no issue number and no precondition; a retried send has dropped its own.
IssueNumber(e) == IF e.kind = "restored" THEN 0 ELSE e.w
HasPrecondition(e) == e.kind = "live" /\ e.w \in Guarded

\* Behind everything issued before it, ahead of what was issued after it.
Inserted(q, e) ==
    LET behind == {i \in 0..Len(q) : \A j \in i+1..Len(q) : IssueNumber(q[j]) > IssueNumber(e)}
    IN InsertAt(q, Min(behind) + 1, e)

\* evictOverflow: so many are dropped from the front.
Excess(q) == IF Len(q) > MaxItems THEN Len(q) - MaxItems ELSE 0

\* The queue becomes q; callers hear the verdicts, whose writes are discarded; entries
\* queued are back in the queue, those of them that are fresh get a durable record.
Turn(q, verdicts, queued, fresh) ==
    LET done == {v[1] : v \in verdicts} IN
    /\ items' = q /\ told' = told \union verdicts
    /\ pc' = [w \in Writes |-> CASE w \in done -> "done"
                                 [] w \in queued \ done /\ pc[w] # "done" -> "queued"
                                 [] OTHER -> pc[w]]
    /\ unsettled' = (unsettled \union fresh) \ done
    /\ appending' = appending \union fresh
    /\ removing' = removing \union done
    /\ unpersisted' = unpersisted \ done

\* The queue becomes q, but for the entries beyond its cap.
TurnCapped(q, queued, fresh) ==
    Turn(SubSeq(q, Excess(q) + 1, Len(q)),
         {<<q[i].w, "evicted">> : i \in 1..Excess(q)}, queued, fresh)

enqueue(e) == TurnCapped(Inserted(items, e), {e.w}, {e.w})

\* flushOfflineQueue publishes a pass behind those that are pending, unless all is empty.
flushOfflineQueue ==
    /\ passes < MaxPasses
    /\ passes' = IF passes = 0 /\ items = <<>> THEN 0 ELSE passes + 1

\* The pass is over: whoever waited for it, and for no later one, goes on at once.
PassEnds ==
    /\ passes' = passes - 1
    /\ ahead' = [w \in Writes |-> IF ahead[w] > 0 THEN ahead[w] - 1 ELSE 0]

-----------------------------------------------------------------------------
(* A live write.                                                             *)

ConnectedGate == ever \/ QueueEarly

NothingAhead == ConnectedGate /\ ~online                             \* mutant

\* writeQueueGate, and hasPendingWriteAhead: the socket is down, or older writes are queued.
GoesToQueue == ConnectedGate /\ (~online \/ items # <<>>)

Route(w) ==
    IF GoesToQueue
      THEN enqueue(Entry(w, "live"))
      ELSE /\ pc' = [pc EXCEPT ![w] = "sent"]
           /\ UNCHANGED <<items, told, unsettled, appending, removing, unpersisted>>

Ready == {w \in Writes : pc[w] = "waiting" /\ ahead[w] = 0}

\* runMutation up to its first await: the newest pass that is pending, if there is one.
Issue ==
    LET fresh == {v \in Writes : pc[v] = "new"} IN
    /\ fresh # {}
    /\ client' = [client EXCEPT ![Min(fresh)] = session]
    /\ \/ /\ passes > 0
          /\ pc' = [pc EXCEPT ![Min(fresh)] = "waiting"]
          /\ ahead' = [ahead EXCEPT ![Min(fresh)] = passes]
          /\ UNCHANGED <<items, told, unsettled, appending, removing, unpersisted>>
       \/ passes = 0 /\ Route(Min(fresh)) /\ UNCHANGED ahead
    /\ UNCHANGED <<shard, stray, store, session, link, parked, pass, passes, timer,
                   attempts, hydrated, faults>>

Resume ==
    /\ Ready # {} /\ Route(Min(Ready))
    /\ UNCHANGED <<shard, stray, store, session, client, link, parked, ahead, pass, passes,
                   timer, attempts, hydrated, faults>>

sending == <<store, session, client, link, parked, ahead, pass, passes, attempts, hydrated>>

\* The shard runs the direct send, and its answer is on its way.
DirectLands(w) ==
    /\ pc[w] = "sent" /\ Shard!Apply(KeyOf(w))
    /\ pc' = [pc EXCEPT ![w] = "landed"]
    /\ UNCHANGED <<stray, items, told, unsettled, appending, removing, unpersisted, timer, faults, sending>>

DirectAnswered(w) ==
    /\ pc[w] = "landed"
    /\ pc' = [pc EXCEPT ![w] = "done"] /\ told' = told \union {<<w, "committed">>}
    /\ UNCHANGED <<shard, stray, items, unsettled, appending, removing, unpersisted, timer, faults, sending>>

\* A coded verdict, transient or not, goes to the caller.
DirectRefused(w) ==
    /\ pc[w] = "sent"
    /\ pc' = [pc EXCEPT ![w] = "done"] /\ told' = told \union {<<w, "refused">>}
    /\ UNCHANGED <<shard, stray, items, unsettled, appending, removing, unpersisted, timer, faults, sending>>

NoRetryNoted(w) == enqueue(Entry(w, "ambiguous")) /\ UNCHANGED timer  \* mutant

\* A send of unknown fate goes to the queue as ambiguous; nothing else flushes an open socket's.
RetriesLater(w) == enqueue(Entry(w, "ambiguous")) /\ timer' = TRUE

\* The request times out, or its answer is lost.  What counts is the gate as it was when the
\* write was sent: without QueueEarly, that may have been before the first connect.
DirectFails(w) ==
    /\ pc[w] \in {"sent", "landed"}
    /\ stray' = IF pc[w] = "sent" THEN stray \union {KeyOf(w)} ELSE stray
    /\ \/ ConnectedGate /\ RetriesLater(w)
       \/ /\ ~QueueEarly
          /\ pc' = [pc EXCEPT ![w] = "done"] /\ told' = told \union {<<w, "failed">>}
          /\ UNCHANGED <<items, unsettled, appending, removing, unpersisted, timer>>
    /\ UNCHANGED <<shard, faults, sending>>

-----------------------------------------------------------------------------
(* The replay of the queue.                                                  *)

\* drainConflict: what is left of the queue when the stale entries are dropped.
Left(stale) == Without(items, stale)
Stale == {stale \in SUBSET Range(items) : \A e \in stale : HasPrecondition(e) /\ answered}

\* No drain is under way.
Undrained == chunk = <<>> /\ rest = <<>>

\* holdUndecidedWrites: so many entries stand before the first that awaits its snapshot.
Decided(q) ==
    LET undecided == {i \in DOMAIN q : HasPrecondition(q[i]) /\ ~answered}
    IN IF undecided = {} THEN Len(q) ELSE Min(undecided) - 1

Drops(q, stale) == Turn(q, {<<e.w, "stale">> : e \in stale}, {}, {})

\* drainOfflineQueue when nothing may go out: everything stays, or goes back in its order.
DrainHolds ==
    /\ passes > 0 /\ Undrained
    /\ \E stale \in Stale :
        /\ Decided(Left(stale)) = 0 \/ known # "settled"
        /\ Drops(Left(stale), stale)
        /\ parked' = (parked \/ Decided(Left(stale)) < Len(Left(stale)))
        /\ timer' = (timer \/ (Decided(Left(stale)) > 0 /\ known = "reconfirm"))
    /\ PassEnds
    /\ UNCHANGED <<shard, stray, store, session, client, link, pass, attempts, hydrated, faults>>

\* The next batch, as many entries as fit the caps of a request's body and length.
SendsOf(q) ==
    \E n \in 1..Min({Len(q), MaxBatch}) :
        chunk' = SubSeq(q, 1, n) /\ rest' = SubSeq(q, n + 1, Len(q)) /\ slots' = <<>>

DrainSends ==
    /\ passes > 0 /\ Undrained /\ known = "settled"
    /\ \E stale \in Stale :
        LET q == Left(stale) IN
        /\ Decided(q) > 0
        /\ Drops(SubSeq(q, Decided(q) + 1, Len(q)), stale)
        /\ SendsOf(SubSeq(q, 1, Decided(q)))
        /\ parked' = (parked \/ Decided(q) < Len(q))
    /\ UNCHANGED <<shard, stray, store, session, client, link, ahead, passes, timer, attempts,
                   hydrated, faults>>

\* handleBatchRpc: one entry after the other, each as if it were alone.
ShardTakes ==
    /\ Len(slots) < Len(chunk)
    /\ LET k == KeyOf(chunk[Len(slots) + 1].w) IN
       \/ Shard!Apply(k) /\ slots' = Append(slots, "committed") /\ UNCHANGED faults
       \/ k \notin open /\ slots' = Append(slots, "committed") /\ UNCHANGED <<shard, faults>>
       \/ k \in open /\ slots' = Append(slots, "refused") /\ UNCHANGED <<shard, faults>>
       \/ Fault /\ slots' = Append(slots, "throttled") /\ UNCHANGED shard
    /\ UNCHANGED <<stray, store, session, client, link, parked, ahead, chunk, rest, passes,
                   timer, attempts, hydrated, tray>>

LastAttemptLate(w) == attempts[w] >= MaxAttempts                     \* mutant

\* spendsLastReplayAttempt.
LastAttempt(w) == attempts[w] + 1 >= MaxAttempts

GoesOn == IF rest # <<>> THEN SendsOf(rest) /\ UNCHANGED <<passes, ahead>>
          ELSE chunk' = <<>> /\ rest' = <<>> /\ slots' = <<>> /\ PassEnds

\* The batch is answered but for the slots unread, or has failed as a whole: its writes are
\* settled one by one, and those without a verdict go back to the front, with all behind.
\* A batch without any verdict stops the flush, also if nothing of it is left to be tried again.
Reply(unread, counted) ==
    LET verdict(i) == IF i > Len(slots) \/ i \in unread THEN "unanswered" ELSE slots[i]
        tried == {i \in DOMAIN chunk : verdict(i) = "unanswered" /\ chunk[i].kind = "ambiguous" /\ counted}
        spent == {i \in tried : LastAttempt(chunk[i].w)}
        again == {i \in DOMAIN chunk : verdict(i) \in {"throttled", "unanswered"}} \ spent
        kept == Within(chunk, {chunk[i] : i \in again})
        verdicts == {<<chunk[i].w, verdict(i)>> : i \in {j \in DOMAIN chunk : verdict(j) \in {"committed", "refused"}}}
                    \union {<<chunk[i].w, "gaveup">> : i \in spent}
    IN /\ chunk # <<>>
       /\ IF Len(slots) < Len(chunk) \/ unread # {} THEN Fault ELSE UNCHANGED faults
       /\ attempts' = [w \in Writes |-> IF \E i \in tried : chunk[i].w = w THEN attempts[w] + 1 ELSE attempts[w]]
       /\ stray' = stray \union {KeyOf(chunk[i].w) : i \in Len(slots) + 1 .. Len(chunk)}
       /\ \/ /\ again # {} \/ spent = DOMAIN chunk
             /\ Turn(kept \o rest \o items, verdicts, {}, {}) /\ timer' = TRUE
             /\ chunk' = <<>> /\ rest' = <<>> /\ slots' = <<>> /\ PassEnds
          \/ again = {} /\ Turn(items, verdicts, {}, {}) /\ UNCHANGED timer /\ GoesOn
       /\ UNCHANGED <<shard, store, session, client, link, parked, hydrated>>

\* settleWholeBatchError: a coded refusal of the request settles every write in it.
WholeRefused ==
    /\ chunk # <<>> /\ slots = <<>> /\ Fault
    /\ Turn(items, {<<e.w, "refused">> : e \in Range(chunk)}, {}, {}) /\ GoesOn
    /\ UNCHANGED <<shard, stray, store, session, client, link, parked, timer, attempts, hydrated>>

\* scheduleRateLimitedRetry's timer.
TimerFires ==
    /\ timer /\ timer' = FALSE /\ flushOfflineQueue
    /\ UNCHANGED <<shard, stray, store, session, client, link, parked, ahead, pass, attempts,
                   hydrated, faults, tray>>

-----------------------------------------------------------------------------
(* The link, the identity, storage, and the page.                            *)

around == <<shard, session, client, ahead, pass, attempts>>

\* The socket opens; its subscriptions are not answered yet.
Connect ==
    /\ ~online /\ (Takeover \/ hydrated)
    /\ online' = TRUE /\ ever' = TRUE /\ answered' = FALSE
    /\ flushOfflineQueue
    /\ UNCHANGED <<around, stray, store, known, parked, timer, hydrated, faults, tray>>

Drop ==
    /\ online /\ online' = FALSE /\ Fault
    /\ UNCHANGED <<around, stray, store, ever, known, answered, parked, passes, timer, hydrated, tray>>

\* The snapshots are answered: the flush that was held for them is made good.
SnapshotsAnswered ==
    /\ online /\ ~answered /\ answered' = TRUE
    /\ parked' = FALSE
    /\ IF parked THEN flushOfflineQueue ELSE UNCHANGED passes
    /\ UNCHANGED <<around, stray, store, online, ever, known, timer, hydrated, faults, tray>>

\* The token is refreshed, and its subject is not confirmed yet.
TokenRefreshed ==
    /\ known = "settled" /\ known' = "reconfirm" /\ Fault
    /\ UNCHANGED <<around, stray, store, online, ever, answered, parked, passes, timer, hydrated, tray>>

\* setAuthToken, releaseSessionProbe: the identity is known, and a live connection is flushed.
IdentitySettles ==
    /\ known # "settled" /\ known' = "settled"
    /\ IF online THEN flushOfflineQueue ELSE UNCHANGED passes
    /\ UNCHANGED <<around, stray, store, online, ever, answered, parked, timer, hydrated, faults, tray>>

\* A request the client gave up on comes through after all, or gets lost.
StrayLands(k) ==
    /\ k \in stray /\ stray' = stray \ {k}
    /\ Shard!Apply(k) \/ UNCHANGED shard
    /\ UNCHANGED <<store, session, client, link, parked, ahead, pass, passes, timer, attempts,
                   hydrated, faults, tray>>

storage == <<around, stray, link, parked, passes, timer, hydrated, items, told, pc, unsettled>>

AppendLands(w) ==
    /\ w \in appending /\ appending' = appending \ {w}
    /\ store' = Append(store, w) /\ unpersisted' = unpersisted \ {w}
    /\ UNCHANGED <<storage, removing, faults>>

StillListed(w) == w \in WritesOf(items)                               \* mutant

\* Only an unsettled write is worth another append; a replay may hold it out of the queue.
WorthRetrying(w) == w \in unsettled

AppendFails(w) ==
    /\ w \in appending /\ appending' = appending \ {w} /\ Fault
    /\ unpersisted' = IF WorthRetrying(w) THEN unpersisted \union {w} ELSE unpersisted
    /\ UNCHANGED <<storage, store, removing>>

RemovesAtOnce(w) == w \in removing                                   \* mutant

\* discard: the removal waits for an append of the record that is still in flight.
MayRemove(w) == w \in removing \ appending

RemoveLands(w) ==
    /\ MayRemove(w) /\ removing' = removing \ {w}
    /\ store' = Without(store, {w})
    /\ UNCHANGED <<storage, appending, unpersisted, faults>>

\* flushUnpersisted, as the page is hidden: what is unsettled and not being appended now.
Unpersisted == (unpersisted \intersect unsettled) \ appending

PageHides ==
    /\ Unpersisted # {} /\ appending' = appending \union Unpersisted
    /\ UNCHANGED <<storage, store, removing, unpersisted, faults>>

\* hydrate: records that are not in the queue go to its front; nothing flushes them but the
\* socket that ensureSocket opens, if it is not open yet.
Hydrate ==
    /\ ~hydrated /\ hydrated' = TRUE
    /\ LET records == Without(store, WritesOf(items)) IN
       TurnCapped([i \in DOMAIN records |-> Entry(records[i], "restored")] \o items, Range(records), {})
    /\ UNCHANGED <<around, stray, store, link, parked, passes, timer, faults>>

\* The page is reloaded: its memory goes, its requests may still be on the way.
Reload ==
    /\ session < MaxReloads /\ session' = session + 1
    /\ stray' = stray \union {KeyOf(w) : w \in {v \in Writes : pc[v] = "sent"}}
                      \union {KeyOf(chunk[i].w) : i \in Len(slots) + 1 .. Len(chunk)}
    /\ pc' = [w \in Writes |-> CASE pc[w] \in {"new", "done"} -> pc[w]
                                 [] pc[w] \notin {"new", "done"} /\ w \in Range(store) -> "stored"
                                 [] OTHER -> "gone"]
    /\ online' = FALSE /\ ever' = FALSE /\ known' = "unresolved" /\ answered' = FALSE /\ parked' = FALSE
    /\ ahead' = [w \in Writes |-> 0] /\ attempts' = [w \in Writes |-> 0]
    /\ items' = <<>> /\ chunk' = <<>> /\ slots' = <<>> /\ rest' = <<>> /\ passes' = 0 /\ timer' = FALSE
    /\ unsettled' = {} /\ appending' = {} /\ removing' = {} /\ unpersisted' = {} /\ hydrated' = FALSE
    /\ UNCHANGED <<shard, store, client, told, faults>>

Direct(w) == DirectLands(w) \/ DirectAnswered(w) \/ DirectRefused(w)
Replay == DrainHolds \/ DrainSends \/ Reply({}, FALSE)
Failures ==
    \/ \E w \in Writes : DirectFails(w) \/ AppendFails(w)
    \/ \E unread \in SUBSET (1..Len(slots)), counted \in BOOLEAN : Reply(unread, counted)
    \/ WholeRefused \/ Drop \/ TokenRefreshed \/ Reload
Storage == \/ \E w \in Writes : AppendLands(w) \/ RemoveLands(w)
           \/ PageHides \/ Hydrate

\* Whoever waited for a pass goes on before anything else happens in the page.
Next ==
    \/ Resume
    \/ /\ Ready = {}
       /\ \/ Issue \/ \E w \in Writes : Direct(w)
          \/ Replay \/ ShardTakes \/ TimerFires
          \/ Connect \/ SnapshotsAnswered \/ IdentitySettles
          \/ Storage \/ Failures \/ \E k \in Keys : StrayLands(k)

Calm(A) == Ready = {} /\ A

\* The page's event loop runs what is ready, a request is answered or times out
\* (withinRpcDeadline), a timer fires, a reconnect is always armed, the session resolves;
\* strongly, where the bound on the pending passes stops an action for a while.
Fairness ==
    /\ WF_vars(Resume) /\ WF_vars(Calm(Replay \/ ShardTakes \/ Hydrate))
    /\ SF_vars(Calm(TimerFires)) /\ SF_vars(Calm(Connect))
    /\ SF_vars(Calm(SnapshotsAnswered)) /\ SF_vars(Calm(IdentitySettles))
    /\ WF_vars(Calm(\E w \in Writes : Direct(w)))

Spec == Init /\ [][Next]_vars
FairSpec == Spec /\ Fairness

-----------------------------------------------------------------------------
(* Properties.                                                               *)

Verdicts == {"committed", "refused", "failed", "gaveup", "stale", "evicted"}
Entries == [w : Writes, kind : Kinds]
Standing == {"new", "waiting", "sent", "landed", "queued", "stored", "gone", "done"}

(* Every variable keeps to its values; a batch has no more verdicts than     *)
(* entries, and no write is retried beyond its attempts.                     *)
TypeOK ==
    /\ open \subseteq Keys /\ count \in [Keys -> Nat] /\ stray \subseteq Keys
    /\ Range(store) \subseteq Writes /\ session \in Sessions /\ client \in [Writes -> Sessions]
    /\ {online, ever, answered, parked, timer, hydrated} \subseteq BOOLEAN
    /\ known \in {"settled", "reconfirm", "unresolved"}
    /\ pc \in [Writes -> Standing] /\ ahead \in [Writes -> 0..MaxPasses] /\ passes \in 0..MaxPasses
    /\ \A q \in {items, chunk, rest} : Range(q) \subseteq Entries
    /\ Range(slots) \subseteq Verdicts \union {"throttled"} /\ Len(slots) <= Len(chunk)
    /\ chunk = <<>> => rest = <<>>
    /\ \A w \in Writes : attempts[w] \in 0..MaxAttempts
    /\ \A w \in Writes : attempts[w] = MaxAttempts => pc[w] = "done"
    /\ unsettled \union appending \union removing \union unpersisted \subseteq Writes
    /\ told \subseteq Writes \X Verdicts /\ faults \in 0..MaxFaults

\* How often a write took effect, under whichever id.
Applied(w) == Cardinality(UNION {{s} \X (1..count[<<s, w>>]) : s \in Sessions})
Untaken == {w \in Writes : Applied(w) = 0}
Tally == [w \in Writes |-> Applied(w)]
Acknowledged == {w \in Writes : <<w, "committed">> \in told}
EndToEnd == INSTANCE WriteOnce WITH
    Forgettable <- {}, open <- Untaken, count <- Tally, heard <- Acknowledged

(* The client and the shard keep WriteOnce for the app: through direct       *)
(* sends, retries, late duplicates and reloads a write takes effect at most  *)
(* once, and commits are reported only of writes that did.                   *)
WritesOnce == EndToEnd!Spec

(* A write whose caller has heard no verdict is in the queue or out for      *)
(* replay, and a record of it stands or is being, or waits to be, written;   *)
(* nobody is removing it (offline-queue.ts: persist, discard, requeue).      *)
Backed ==
    \A w \in Writes :
        /\ pc[w] = "queued" => w \in InMemory
        /\ w \in unsettled => w \in (Range(store) \union appending \union unpersisted) \ removing

(* The store holds no record twice, and none that nobody will remove: each   *)
(* one belongs to a write in memory or is being removed (a record that lands *)
(* behind its own removal would replay in the next session).                 *)
StoreExact ==
    /\ IsInjective(store)
    /\ hydrated => \A w \in Range(store) : w \in InMemory \union removing

(* A write that goes out directly overtakes nothing: no older write is       *)
(* queued, held or out for replay when it is sent (hasPendingWriteAhead, "a  *)
(* live write must never overtake one that is queued").                      *)
LiveBehindQueue ==
    [][\A w \in Writes : pc[w] # "sent" /\ pc'[w] = "sent" => InMemory = {}]_vars

(* A queued write settles in the end, be it live, of a direct send that was  *)
(* lost, or of a page that was reloaded, unless the page goes before the     *)
(* record is written.                                                        *)
QueuedSettles == \A w \in Writes : pc[w] = "queued" ~> pc[w] \in {"done", "gone"}

(* A write that has landed is not dropped for a precondition which its own   *)
(* commit made false: "Re-running it before the retry would fail on the very *)
(* frame the write's own commit pushed, and reject a write that landed"      *)
(* (lunora-client.ts:4570-4571, heeded there for a retried direct send).      *)
LandedNotDropped ==
    [][\A w \in Writes : <<w, "stale">> \in told' \ told => Applied(w) = 0]_vars
=============================================================================
