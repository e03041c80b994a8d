---------------------------- MODULE ShardDispatch ----------------------------
(* The dispatch of RPCs by one shard (packages/do/src/shard-do.ts): how it   *)
(* keeps a call that is delivered many times, at the same time, before and   *)
(* after a restart, from taking effect more than once.  A mutation carries   *)
(* an id and leaves a receipt row in the transaction of its writes; an       *)
(* action leaves its row after it has run and is guarded by a claim in       *)
(* memory until then; a custom-mutator push carries no id but a sequence     *)
(* number that a watermark orders.  The request's identity sits in fields of *)
(* the object that every concurrent dispatch overwrites and clears.          *)
EXTENDS Naturals, FiniteSets

CONSTANTS Mutations,     \* calls of a mutation, by mutation id
          Actions,       \* calls of an action, by mutation id
          MaxSeq,        \* pushes of one client carry the numbers 1..MaxSeq
          Slots,         \* requests the shard has in hand at once
          Host,          \* "gate": input gate (Cloudflare); "lock": a lock only (Node)
          Aging,         \* calls whose receipt may grow past its retention
          None,          \* no slot, no call, no result
          NoId,          \* the mutation id of a request that has none
          MaxRestarts,   \* bound: restarts of the instance
          MaxTakeovers,  \* bound: claims that outlive their ceiling
          MaxRuns        \* bound: an action or push that ran this often comes no more

Pushes == 1..MaxSeq
Keyed == Mutations \union Actions
Calls == Keyed \union Pushes

ASSUME CallsAssumption ==
    /\ Mutations \intersect Actions = {}
    /\ Keyed \intersect Nat = {}
    /\ None \notin Calls /\ None \notin Slots /\ NoId \notin Calls /\ NoId # None
ASSUME BoundsAssumption ==
    /\ MaxSeq \in Nat /\ MaxRestarts \in Nat /\ MaxTakeovers \in Nat /\ MaxRuns \in Nat
    /\ Aging \subseteq Keyed /\ Host \in {"gate", "lock"}

VARIABLES
    rows,       \* receipts: the result stored under each id, durable
    aged,       \* ids whose receipt is past its retention
    watermark,  \* highest push applied, durable
    applied,    \* how often each call's effect was committed
    pc,         \* where each slot's request stands
    call,       \* the call each slot serves
    class,      \* how the push was classified when it came in
    result,     \* the result the slot will answer with
    scope,      \* the slot whose request the instance's fields describe
    stamp,      \* mutationBookkeeping: the id whose rows are committed
    claim,      \* in-flight claims: the slot that runs the action
    overdue,    \* actions whose claim is past its ceiling
    heard,      \* history: answers of success, as <<call, result>>
    late,       \* history: slots whose claim was taken over
    lapsed,     \* history: ids whose receipt ever passed its retention
    restarts, takeovers   \* history, bounded

durable == <<rows, aged, watermark, applied>>
instance == <<scope, stamp, claim, overdue>>
request == <<pc, call, class, result>>
history == <<heard, late, lapsed, restarts, takeovers>>
vars == <<durable, request, instance, history>>

Init ==
    /\ rows = [k \in Keyed |-> None] /\ aged = {} /\ watermark = 0
    /\ applied = [c \in Calls |-> 0]
    /\ pc = [d \in Slots |-> "idle"] /\ call = [d \in Slots |-> None]
    /\ class = [d \in Slots |-> "unclassified"] /\ result = [d \in Slots |-> None]
    /\ scope = None /\ stamp = None
    /\ claim = [a \in Actions |-> None] /\ overdue = {}
    /\ heard = {} /\ late = {} /\ lapsed = {} /\ restarts = 0 /\ takeovers = 0

-----------------------------------------------------------------------------
(* The host.  Under the input gate a request that has come in runs up to the *)
(* gate, and through it, before any other event of the object is delivered.  *)
(* Under the lock other requests go on, but the transaction of one refuses   *)
(* the SQL of the others.                                                    *)

Delivered(d) == Host = "gate" => \A e \in Slots \ {d} : pc[e] \notin {"begun", "queued", "running"}
Refused(d) == Host = "lock" /\ \E e \in Slots \ {d} : pc[e] = "running"

NotPinned(d) == IF scope = None THEN d ELSE scope                    \* mutant

\* restoreRequestScope: whose fields are read after this dispatch re-pinned its own.
Pinned(d) == d

\* The id in the fields, if the slot they belong to carries one.
IdIn(s) == IF s # None /\ call[s] \in Keyed THEN call[s] ELSE NoId

-----------------------------------------------------------------------------
(* Receipts and watermark.                                                   *)

\* A refused read is taken for a missing table, which counts as a miss.
readIdempotentResult(d, s) == IF IdIn(s) = NoId \/ Refused(d) THEN None ELSE rows[IdIn(s)]

NoReceipt(d, s) == UNCHANGED <<rows, aged>>                          \* mutant

\* INSERT OR IGNORE, and now and then the rows past their retention go.
persistIdempotentResult(d, s) ==
    IF IdIn(s) = NoId \/ Refused(d) THEN UNCHANGED <<rows, aged>>
    ELSE LET stored == [rows EXCEPT ![IdIn(s)] = IF @ = None THEN call[d] ELSE @] IN
         \/ rows' = stored /\ UNCHANGED aged
         \/ rows' = [k \in Keyed |-> IF k \in aged THEN None ELSE stored[k]] /\ aged' = {}

ClassifiedLoosely(d, c) ==                                           \* mutant
    CASE c \notin Pushes \/ Refused(d) -> "unclassified"
      [] c \in Pushes /\ ~Refused(d) /\ c < watermark -> "already"
      [] c \in Pushes /\ ~Refused(d) /\ c > watermark + 1 -> "gap"
      [] OTHER -> "next"

classifyClientMutation(d, c) ==
    CASE c \notin Pushes \/ Refused(d) -> "unclassified"
      [] c \in Pushes /\ ~Refused(d) /\ c <= watermark -> "already"
      [] c \in Pushes /\ ~Refused(d) /\ c = watermark + 1 -> "next"
      [] OTHER -> "gap"

advanceClientMutationWatermark(d, s) ==
    watermark' = IF class[s] = "next" /\ ~Refused(d) /\ call[s] > watermark THEN call[s] ELSE watermark

-----------------------------------------------------------------------------
(* One dispatch.                                                             *)

NothingCleared == UNCHANGED <<scope, stamp>>                         \* mutant

\* endDispatch clears the fields, whoever they belong to by then.
endDispatch == scope' = None /\ stamp' = None

\* A push that was applied is acknowledged, one that is ahead is refused: at once.
rejectNonNextMutation(d, c) ==
    /\ classifyClientMutation(d, c) \in {"already", "gap"}
    /\ heard' = IF classifyClientMutation(d, c) = "already" THEN heard \union {<<c, c>>} ELSE heard
    /\ endDispatch
    /\ UNCHANGED <<durable, request, claim, overdue, late, lapsed, restarts, takeovers>>

\* beginDispatch writes the fields, and the push is classified.
beginDispatch(d, c) ==
    /\ classifyClientMutation(d, c) \in {"unclassified", "next"}
    /\ pc' = [pc EXCEPT ![d] = "begun"]
    /\ call' = [call EXCEPT ![d] = c]
    /\ class' = [class EXCEPT ![d] = classifyClientMutation(d, c)]
    /\ scope' = d /\ stamp' = None
    /\ UNCHANGED <<durable, result, claim, overdue, history>>

Arrive(d, c) ==
    /\ pc[d] = "idle" /\ Delivered(d)
    /\ c \notin Mutations => applied[c] < MaxRuns
    /\ rejectNonNextMutation(d, c) \/ beginDispatch(d, c)

\* The module may have to load first (prepareFunction).  Mutations and pushes wait for the gate.
EnterGated(d) ==
    /\ pc[d] = "begun" /\ call[d] \notin Actions /\ Delivered(d)
    /\ scope' = Pinned(d)
    /\ pc' = [pc EXCEPT ![d] = "queued"]
    /\ UNCHANGED <<durable, call, class, result, stamp, claim, overdue, history>>

EnterCached(d) ==
    /\ pc[d] = "begun" /\ call[d] \in Actions /\ Delivered(d)
    /\ readIdempotentResult(d, Pinned(d)) # None
    /\ scope' = Pinned(d)
    /\ result' = [result EXCEPT ![d] = readIdempotentResult(d, Pinned(d))]
    /\ pc' = [pc EXCEPT ![d] = "cached"]
    /\ UNCHANGED <<durable, call, class, stamp, claim, overdue, history>>

EnterDeclined(d) ==
    /\ pc[d] = "begun" /\ call[d] \in Actions /\ Delivered(d)
    /\ readIdempotentResult(d, Pinned(d)) = None
    /\ claim[call[d]] # None /\ call[d] \notin overdue
    /\ scope' = Pinned(d)
    /\ pc' = [pc EXCEPT ![d] = "flush"]
    /\ UNCHANGED <<durable, call, class, result, stamp, claim, overdue, history>>

EnterClaims(d) ==
    /\ pc[d] = "begun" /\ call[d] \in Actions /\ Delivered(d)
    /\ readIdempotentResult(d, Pinned(d)) = None
    /\ claim[call[d]] = None \/ call[d] \in overdue
    /\ scope' = Pinned(d)
    /\ claim' = [claim EXCEPT ![call[d]] = d] /\ overdue' = overdue \ {call[d]}
    /\ pc' = [pc EXCEPT ![d] = "acting"]
    /\ late' = late \union ({claim[call[d]]} \ {None})
    /\ UNCHANGED <<durable, call, class, result, stamp, heard, lapsed, restarts, takeovers>>

\* The gate admits the request: a mutation reads its receipt inside it.
Admitted(d) == pc[d] = "queued" /\ Delivered(d) /\ \A e \in Slots : pc[e] # "running"

AdmitCached(d) ==
    /\ Admitted(d) /\ call[d] \in Mutations
    /\ readIdempotentResult(d, Pinned(d)) # None
    /\ scope' = Pinned(d)
    /\ result' = [result EXCEPT ![d] = readIdempotentResult(d, Pinned(d))]
    /\ pc' = [pc EXCEPT ![d] = "cached"]
    /\ UNCHANGED <<durable, call, class, stamp, claim, overdue, history>>

EnterRuns(d) ==                                                      \* mutant
    /\ pc[d] = "queued" /\ Delivered(d) /\ \A e \in Slots : pc[e] # "running"
    /\ scope' = d
    /\ pc' = [pc EXCEPT ![d] = "running"]
    /\ UNCHANGED <<durable, call, class, result, stamp, claim, overdue, history>>

AdmitRuns(d) ==
    /\ Admitted(d)
    /\ call[d] \in Mutations => readIdempotentResult(d, Pinned(d)) = None
    /\ scope' = Pinned(d)
    /\ pc' = [pc EXCEPT ![d] = "running"]
    /\ UNCHANGED <<durable, call, class, result, stamp, claim, overdue, history>>

\* The handler returns: commitMutationBookkeeping and the commit of its writes.
Commit(d) ==
    /\ pc[d] = "running" /\ Delivered(d)
    /\ persistIdempotentResult(d, Pinned(d))
    /\ advanceClientMutationWatermark(d, Pinned(d))
    /\ applied' = [applied EXCEPT ![call[d]] = @ + 1]
    /\ scope' = Pinned(d) /\ stamp' = IdIn(Pinned(d))
    /\ result' = [result EXCEPT ![d] = call[d]]
    /\ pc' = [pc EXCEPT ![d] = "ran"]
    /\ UNCHANGED <<call, class, claim, overdue, history>>

Acts(d) ==
    /\ pc[d] = "acting" /\ Delivered(d)
    /\ applied' = [applied EXCEPT ![call[d]] = @ + 1]
    /\ result' = [result EXCEPT ![d] = call[d]]
    /\ pc' = [pc EXCEPT ![d] = "ran"]
    /\ UNCHANGED <<rows, aged, watermark, call, class, instance, history>>

\* The handler throws: a transaction rolls back, an action leaves what it did.
Throws(d) ==
    /\ pc[d] \in {"running", "acting"} /\ Delivered(d)
    /\ scope' = Pinned(d)
    /\ pc' = [pc EXCEPT ![d] = "flush"]
    /\ UNCHANGED <<durable, call, class, result, stamp, claim, overdue, history>>

StampOnly(d) ==                                                      \* mutant
    /\ IF stamp # None THEN UNCHANGED <<rows, aged>> ELSE persistIdempotentResult(d, Pinned(d))
    /\ advanceClientMutationWatermark(d, Pinned(d))

\* The tail of a success: recordPostDispatchBookkeeping, unless the rows are committed.
recordPostDispatchBookkeeping(d) ==
    /\ IF stamp # None /\ stamp = IdIn(Pinned(d))
         THEN UNCHANGED <<rows, aged>>
         ELSE persistIdempotentResult(d, Pinned(d))
    /\ advanceClientMutationWatermark(d, Pinned(d))

Tail(d) ==
    /\ pc[d] = "ran" /\ Delivered(d)
    /\ recordPostDispatchBookkeeping(d)
    /\ scope' = Pinned(d)
    /\ pc' = [pc EXCEPT ![d] = "flush"]
    /\ UNCHANGED <<applied, call, class, result, stamp, claim, overdue, history>>

respondFromIdempotencyCache(d) ==
    /\ pc[d] = "cached" /\ Delivered(d)
    /\ scope' = Pinned(d)
    /\ pc' = [pc EXCEPT ![d] = "flush"]
    /\ UNCHANGED <<durable, call, class, result, stamp, claim, overdue, history>>

ReleasesAnyones(d) ==                                                \* mutant
    IF call[d] \in Actions
      THEN claim' = [claim EXCEPT ![call[d]] = None] /\ overdue' = overdue \ {call[d]}
      ELSE UNCHANGED <<claim, overdue>>
ReleasesOnSuccess(d) ==                                              \* mutant
    IF call[d] \in Actions /\ claim[call[d]] = d /\ result[d] # None
      THEN claim' = [claim EXCEPT ![call[d]] = None] /\ overdue' = overdue \ {call[d]}
      ELSE UNCHANGED <<claim, overdue>>

\* InFlightClaims.release: only the holder's claim is dropped.
release(d) ==
    IF call[d] \in Actions /\ claim[call[d]] = d
      THEN claim' = [claim EXCEPT ![call[d]] = None] /\ overdue' = overdue \ {call[d]}
      ELSE UNCHANGED <<claim, overdue>>

\* The changed tables are flushed: the answer goes out, the claim and the fields go.
End(d) ==
    /\ pc[d] = "flush" /\ Delivered(d)
    /\ heard' = IF result[d] = None THEN heard ELSE heard \union {<<call[d], result[d]>>}
    /\ release(d)
    /\ endDispatch
    /\ pc' = [pc EXCEPT ![d] = "idle"] /\ call' = [call EXCEPT ![d] = None]
    /\ class' = [class EXCEPT ![d] = "unclassified"] /\ result' = [result EXCEPT ![d] = None]
    /\ late' = late \ {d}
    /\ UNCHANGED <<durable, lapsed, restarts, takeovers>>

-----------------------------------------------------------------------------
(* Time and failure.                                                         *)

\* IN_FLIGHT_CLAIM_CEILING_MS passes while the handler hangs.
CeilingPasses(a) ==
    /\ claim[a] # None /\ a \notin overdue /\ takeovers < MaxTakeovers
    /\ overdue' = overdue \union {a} /\ takeovers' = takeovers + 1
    /\ UNCHANGED <<durable, request, scope, stamp, claim, heard, late, lapsed, restarts>>

\* IDEMPOTENCY_RETENTION_MS, a day, passes over a receipt; no request lasts that long.
RetentionPasses(k) ==
    /\ k \in Aging \ lapsed /\ rows[k] # None /\ \A d \in Slots : call[d] # k
    /\ aged' = aged \union {k} /\ lapsed' = lapsed \union {k}
    /\ UNCHANGED <<rows, watermark, applied, request, instance, heard, late, restarts, takeovers>>

\* The instance goes and takes its requests along; what was committed stays.
Restart ==
    /\ restarts < MaxRestarts /\ restarts' = restarts + 1
    /\ \E d \in Slots : pc[d] # "idle"
    /\ pc' = [d \in Slots |-> "idle"] /\ call' = [d \in Slots |-> None]
    /\ class' = [d \in Slots |-> "unclassified"] /\ result' = [d \in Slots |-> None]
    /\ scope' = None /\ stamp' = None
    /\ claim' = [a \in Actions |-> None] /\ overdue' = {}
    /\ late' = {}
    /\ UNCHANGED <<durable, heard, lapsed, takeovers>>

Enter(d) == EnterGated(d) \/ EnterCached(d) \/ EnterDeclined(d) \/ EnterClaims(d)
Admit(d) == AdmitCached(d) \/ AdmitRuns(d)
Answer(d) == Tail(d) \/ respondFromIdempotencyCache(d) \/ End(d)
Handle(d) == Enter(d) \/ Admit(d) \/ Commit(d) \/ Acts(d) \/ Throws(d) \/ Answer(d)

Next ==
    \/ \E d \in Slots : Handle(d) \/ \E c \in Calls : Arrive(d, c)
    \/ \E a \in Actions : CeilingPasses(a)
    \/ \E k \in Keyed : RetentionPasses(k)
    \/ Restart

\* The events of the object are delivered in the order in which they come, so no request
\* is passed over for ever; a call is sent again and again, and its handler does not
\* throw every time.
Fairness ==
    /\ \A d \in Slots : SF_vars(Handle(d))
    /\ \A c \in Calls : SF_vars(\E d \in Slots : Arrive(d, c))
    /\ \A c \in Calls : SF_vars(\E d \in Slots : call[d] = c /\ (Commit(d) \/ Acts(d)))

Spec == Init /\ [][Next]_vars
FairSpec == Spec /\ Fairness

-----------------------------------------------------------------------------
(* Properties.                                                               *)

Steps == {"idle", "begun", "queued", "running", "acting", "cached", "ran", "flush"}

(* Every variable keeps to its values, and only a slot that serves a call is *)
(* described by the fields or holds a claim.                                 *)
TypeOK ==
    /\ rows \in [Keyed -> Keyed \union {None}] /\ aged \subseteq lapsed /\ lapsed \subseteq Aging
    /\ watermark \in 0..MaxSeq /\ applied \in [Calls -> Nat]
    /\ pc \in [Slots -> Steps] /\ call \in [Slots -> Calls \union {None}]
    /\ class \in [Slots -> {"unclassified", "next"}] /\ result \in [Slots -> Calls \union {None}]
    /\ scope \in Slots \union {None} /\ stamp \in Keyed \union {None, NoId}
    /\ claim \in [Actions -> Slots \union {None}] /\ overdue \subseteq Actions
    /\ heard \subseteq Calls \X Calls /\ late \subseteq Slots
    /\ restarts \in 0..MaxRestarts /\ takeovers \in 0..MaxTakeovers
    /\ \A d \in Slots : call[d] = None <=> pc[d] = "idle"
    /\ scope # None => pc[scope] # "idle"

Lapses(k) == IF k \in lapsed THEN 1 ELSE 0

(* A mutation takes effect once, however many deliveries of it overlap, fail *)
(* after their commit, or come back after a restart; only a delivery after   *)
(* the retention of its receipt may run it again (the dedup read and the     *)
(* handler share one runSerialized span, shard-do.ts:9317-9325).             *)
MutationOnce == \A m \in Mutations : applied[m] <= 1 + Lapses(m)

(* A receipt is the call's own and proves that the call took effect, and     *)
(* every mutation that did has one: the row is written in the transaction    *)
(* of the writes and under the identity of that dispatch (6266-6281).        *)
ReceiptsTrue ==
    /\ \A k \in Keyed : rows[k] # None => rows[k] = k /\ applied[k] > 0
    /\ \A m \in Mutations : applied[m] > 0 => rows[m] = m \/ m \in lapsed

(* The watermark is the exact account of the pushes: each one up to it has   *)
(* been applied once and none above it (the contract in                      *)
(* ctx-db-client-watermark.ts:24-33 and 91, "never ... double-applying").    *)
WatermarkExact == \A p \in Pushes : applied[p] = IF p <= watermark THEN 1 ELSE 0

(* An action completes again only when an instance that ran it went away,    *)
(* its claim outlived the ceiling, or its receipt outlived the retention.    *)
ActionSparse == \A a \in Actions : applied[a] <= 1 + Lapses(a) + restarts + takeovers

Running(a) == {d \in Slots : call[d] = a /\ pc[d] = "acting"}

(* Two runs of one action overlap only while the earlier one's claim is past *)
(* its ceiling and has been taken over: a late holder does not free the      *)
(* claim of its successor (in-flight-claims.ts:115-126).                     *)
ActionAlone == \A a \in Actions : Cardinality(Running(a) \ late) <= 1

(* Success is answered with the call's own result, and only for a call that  *)
(* took effect, whichever dispatch wrote the shared fields last.             *)
AnswerOwn == \A h \in heard : h[1] = h[2] /\ applied[h[1]] > 0

(* A client that keeps sending is answered in the end: a decline is          *)
(* temporary, a gap closes, the gate comes free, also when handlers throw    *)
(* (in-flight-claims.ts:56-59, "A decline must be temporary").               *)
EveryCallHeard == <>(\A c \in Calls : \E v \in Calls : <<c, v>> \in heard)

-----------------------------------------------------------------------------
(* What the shard promises about its mutations and pushes: WriteOnce.        *)

Promised == IF Host = "gate" THEN Mutations \union Pushes ELSE Mutations
Promise == INSTANCE WriteOnce WITH
    Writes <- Promised,
    Forgettable <- Aging \intersect Mutations,
    open <- {w \in Promised : IF w \in Mutations THEN rows[w] = None ELSE w > watermark},
    count <- [w \in Promised |-> applied[w]],
    heard <- {w \in Promised : \E v \in Calls : <<w, v>> \in heard}

(* The shard implements WriteOnce: a write takes effect only while it is     *)
(* open, in the very step that closes it, and success is told of it only     *)
(* after that.                                                               *)
KeepsPromise == Promise!Spec

=============================================================================
