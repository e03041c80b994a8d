------------------------- MODULE ShardDispatchProofs -------------------------
(* What ShardDispatch keeps for any numbers of calls, slots, restarts and    *)
(* takeovers, and under either host unless the theorem says otherwise.       *)
EXTENDS ShardDispatch, FiniteSetTheorems, TLAPS

(* Where a request stands that the input gate keeps alone.                   *)
Waiting == {"begun", "queued", "running"}

(* What the place of a slot says of its call, its class and its result.      *)
Linked ==
    \A d \in Slots :
        /\ pc[d] \in {"queued", "running"} => call[d] \notin Actions
        /\ pc[d] = "acting" => call[d] \in Actions
        /\ class[d] = "next" => call[d] \in Pushes
        /\ result[d] # None => result[d] = call[d]
        /\ pc[d] = "ran" => result[d] # None

(* The gate admits one transaction, the input gate one request up to there.  *)
OneRuns == \A d, e \in Slots : pc[d] = "running" /\ pc[e] = "running" => d = e
GateAlone ==
    Host = "gate" => \A d, e \in Slots : pc[d] \in Waiting /\ pc[e] \in Waiting => d = e

(* A mutation that runs has no receipt yet; one that ran has a young one.    *)
Fresh == \A d \in Slots : pc[d] = "running" /\ call[d] \in Mutations => rows[call[d]] = None
Kept ==
    \A d \in Slots : pc[d] = "ran" /\ call[d] \in Mutations
        => rows[call[d]] # None /\ call[d] \notin aged

(* What a receipt, or its absence, says of how often its mutation ran.       *)
AgedKept == \A k \in aged : rows[k] # None
AgedOnce == \A m \in Mutations \intersect aged : applied[m] <= 1
Closed == \A m \in Mutations : rows[m] = None => applied[m] <= Lapses(m)
Receipts == /\ Fresh /\ Kept /\ AgedKept /\ AgedOnce /\ Closed
            /\ MutationOnce /\ ReceiptsTrue

(* A result is held only of a call that took effect.                         *)
Effective == \A d \in Slots : result[d] # None => applied[call[d]] > 0

(* The watermark and the pushes in hand.                                     *)
Behind == \A d \in Slots : class[d] = "next" => call[d] <= watermark + 1
Accounted == \A p \in Pushes : p <= watermark => applied[p] > 0
GatePush ==
    Host = "gate" =>
        \A d \in Slots : call[d] \in Pushes =>
            /\ pc[d] \in Waiting => class[d] = "next" /\ call[d] = watermark + 1
            /\ pc[d] = "ran" => call[d] <= watermark
GateExact == Host = "gate" => WatermarkExact
PushInv == Behind /\ Accounted /\ GatePush /\ GateExact

(* The inductive invariant: what the theorems but the last ones rest on.     *)
IInv == /\ TypeOK /\ Linked /\ OneRuns /\ GateAlone
        /\ Receipts /\ Effective /\ AnswerOwn /\ PushInv

-----------------------------------------------------------------------------
(* Facts about the constants and the operators.                              *)

(* None is no call and no slot, NoId is neither, and the kinds of calls      *)
(* share no member: the consequences of the assumptions that steps use.      *)
LEMMA Kinds ==
    /\ Mutations \subseteq Keyed /\ Actions \subseteq Keyed /\ Keyed \subseteq Calls
    /\ Pushes \subseteq Calls /\ Pushes \intersect Keyed = {} /\ Mutations \intersect Actions = {}
    /\ None \notin Calls /\ None \notin Slots /\ NoId \notin Calls /\ NoId # None
    /\ Pushes \subseteq Nat /\ Calls = Mutations \union Actions \union Pushes
  <1>1. Pushes \subseteq Nat
    BY BoundsAssumption DEF Pushes
  <1>2. QED
    BY <1>1, CallsAssumption DEF Keyed, Calls

(* persistIdempotentResult changes a row only to fill the missing one of the *)
(* call with the call, or to collect one that is past its retention; refused *)
(* it changes nothing (shard-do.ts, persistIdempotentResult).                *)
LEMMA Persisting ==
    ASSUME TypeOK, NEW d \in Slots, call[d] \in Calls, persistIdempotentResult(d, d)
    PROVE  /\ rows' \in [Keyed -> Keyed \union {None}]
           /\ aged' = aged \/ aged' = {}
           /\ \A k \in Keyed : \/ rows'[k] = rows[k] /\ (k \in aged => aged' = aged \/ rows[k] = None)
                               \/ k = call[d] /\ rows[k] = None /\ rows'[k] = k
                               \/ k \in aged /\ rows'[k] = None /\ aged' = {}
           /\ Refused(d) \/ call[d] \notin Keyed => rows' = rows /\ aged' = aged
           /\ ~Refused(d) /\ call[d] \in Keyed /\ call[d] \notin aged => rows'[call[d]] # None
  <1> USE Kinds
  <1> DEFINE k0 == call[d]
             stored == [rows EXCEPT ![k0] = IF @ = None THEN k0 ELSE @]
  <1>1. rows \in [Keyed -> Keyed \union {None}] /\ d # None
    BY DEF TypeOK
  <1>2. CASE Refused(d) \/ k0 \notin Keyed
    <2>1. rows' = rows /\ aged' = aged
      BY <1>1, <1>2 DEF persistIdempotentResult, IdIn
    <2>2. QED
      BY <1>1, <1>2, <2>1
  <1>3. CASE ~Refused(d) /\ k0 \in Keyed
    <2>1. IdIn(d) = k0 /\ k0 # NoId
      BY <1>1, <1>3 DEF IdIn
    <2>2. \/ rows' = stored /\ aged' = aged
          \/ rows' = [k \in Keyed |-> IF k \in aged THEN None ELSE stored[k]] /\ aged' = {}
      BY <1>3, <2>1 DEF persistIdempotentResult
    <2>3. stored \in [Keyed -> Keyed \union {None}] /\ stored[k0] # None
      BY <1>1, <1>3
    <2>4. \A k \in Keyed : stored[k] = rows[k] \/ (k = k0 /\ rows[k] = None /\ stored[k] = k)
      BY <1>1, <1>3
    <2>5. CASE rows' = stored /\ aged' = aged
      BY <1>3, <2>3, <2>4, <2>5
    <2>6. CASE rows' = [k \in Keyed |-> IF k \in aged THEN None ELSE stored[k]] /\ aged' = {}
      <3>1. rows' \in [Keyed -> Keyed \union {None}]
        BY <2>3, <2>6
      <3>2. \A k \in Keyed : rows'[k] = IF k \in aged THEN None ELSE stored[k]
        BY <2>6
      <3>3. QED
        BY <1>3, <2>3, <2>4, <2>6, <3>1, <3>2
    <2>7. QED
      BY <2>2, <2>5, <2>6
  <1>4. QED
    BY <1>2, <1>3

(* advanceClientMutationWatermark moves the watermark, if at all, by one, to *)
(* the push it is called for.                                                *)
LEMMA Advancing ==
    ASSUME TypeOK, Linked, Behind, NEW d \in Slots, advanceClientMutationWatermark(d, d)
    PROVE  /\ watermark' \in 0..MaxSeq
           /\ \/ watermark' = watermark
              \/ /\ watermark' = call[d] /\ call[d] = watermark + 1
                 /\ class[d] = "next" /\ call[d] \in Pushes
           /\ ~Refused(d) /\ class[d] = "next" => call[d] <= watermark'
  <1>1. watermark \in Nat /\ watermark <= MaxSeq /\ MaxSeq \in Nat
    BY BoundsAssumption DEF TypeOK
  <1>2. class[d] = "next" => call[d] \in 1..MaxSeq /\ call[d] <= watermark + 1
    BY DEF Linked, Behind, Pushes
  <1>3. watermark' = IF class[d] = "next" /\ ~Refused(d) /\ call[d] > watermark THEN call[d] ELSE watermark
    BY DEF advanceClientMutationWatermark
  <1>4. CASE class[d] = "next"
    BY <1>1, <1>2, <1>3, <1>4 DEF Pushes
  <1>5. CASE class[d] # "next"
    BY <1>1, <1>3, <1>5
  <1>6. QED
    BY <1>4, <1>5

-----------------------------------------------------------------------------
(* Type correctness.                                                         *)

(* The step of a dispatch keeps the types: bookkeeping writes only receipts  *)
(* and pushes, fields are cleared or set to a slot that serves a call.       *)
LEMMA HandleTyped ==
    ASSUME TypeOK, Linked, Behind, NEW d \in Slots, Handle(d)
    PROVE  TypeOK'
  <1> USE Kinds, BoundsAssumption
  <1>0. /\ \A c \in Calls : applied[c] + 1 \in Nat
        /\ rows \in [Keyed -> Keyed \union {None}] /\ d # None
        /\ pc[d] # "idle" => call[d] \in Calls
    BY DEF TypeOK
  <1>1. CASE EnterGated(d)
    BY <1>0, <1>1 DEF EnterGated, Pinned, TypeOK, Steps, durable, history
  <1>2. CASE EnterCached(d)
    <2>1. readIdempotentResult(d, d) \in Keyed
      BY <1>0, <1>2 DEF EnterCached, Pinned, readIdempotentResult, IdIn
    <2>2. result' \in [Slots -> Calls \union {None}]
      BY <1>2, <2>1 DEF EnterCached, Pinned, TypeOK
    <2>3. QED
      BY <1>0, <1>2, <2>2 DEF EnterCached, Pinned, TypeOK, Steps, Admitted, durable, history
  <1>3. CASE EnterDeclined(d)
    BY <1>0, <1>3 DEF EnterDeclined, Pinned, TypeOK, Steps, durable, history
  <1>4. CASE EnterClaims(d)
    <2>1. claim' = [claim EXCEPT ![call[d]] = d] /\ call[d] \in Actions
      BY <1>4 DEF EnterClaims
    <2>2. claim' \in [Actions -> Slots \union {None}]
      BY <2>1 DEF TypeOK
    <2>3. overdue' \subseteq Actions
      BY <1>4 DEF EnterClaims, TypeOK
    <2>4. claim[call[d]] \in Slots \union {None}
      BY <2>1 DEF TypeOK
    <2>5. late' \subseteq Slots
      BY <1>4, <2>4 DEF EnterClaims, TypeOK
    <2>6. QED
      BY <1>0, <1>4, <2>2, <2>3, <2>5 DEF EnterClaims, Pinned, TypeOK, Steps, durable
  <1>5. CASE AdmitCached(d)
    <2>1. readIdempotentResult(d, d) \in Keyed
      BY <1>0, <1>5 DEF AdmitCached, Pinned, readIdempotentResult, IdIn
    <2>2. result' \in [Slots -> Calls \union {None}]
      BY <1>5, <2>1 DEF AdmitCached, Pinned, TypeOK
    <2>3. QED
      BY <1>0, <1>5, <2>2 DEF AdmitCached, Pinned, TypeOK, Steps, Admitted, durable, history
  <1>6. CASE AdmitRuns(d)
    BY <1>0, <1>6 DEF AdmitRuns, Pinned, readIdempotentResult, IdIn, Admitted, TypeOK, Steps, durable, history
  <1>7. CASE Commit(d)
    <2>1. persistIdempotentResult(d, d) /\ advanceClientMutationWatermark(d, d) /\ pc[d] = "running"
      BY <1>7 DEF Commit, Pinned
    <2>2. rows' \in [Keyed -> Keyed \union {None}] /\ aged' \subseteq aged /\ watermark' \in 0..MaxSeq
      BY <1>0, <2>1, Persisting, Advancing
    <2>3. stamp' \in Keyed \union {NoId}
      BY <1>7 DEF Commit, IdIn, Pinned
    <2>4. applied' \in [Calls -> Nat]
      BY <1>0, <1>7, <2>1 DEF Commit, TypeOK
    <2>5. QED
      BY <1>0, <1>7, <2>2, <2>3, <2>4 DEF Commit, Pinned, TypeOK, Steps, history
  <1>8. CASE Acts(d)
    <2>1. applied' \in [Calls -> Nat]
      BY <1>0, <1>8 DEF Acts, TypeOK
    <2>2. QED
      BY <1>0, <1>8, <2>1 DEF Acts, TypeOK, Steps, history, instance
  <1>9. CASE Throws(d)
    BY <1>0, <1>9 DEF Throws, Pinned, TypeOK, Steps, durable, history
  <1>10. CASE Tail(d)
    <2>1. rows' \in [Keyed -> Keyed \union {None}] /\ aged' \subseteq aged /\ watermark' \in 0..MaxSeq
      BY <1>0, <1>10, Persisting, Advancing DEF Tail, recordPostDispatchBookkeeping, Pinned
    <2>2. QED
      BY <1>0, <1>10, <2>1 DEF Tail, Pinned, TypeOK, Steps, history
  <1>11. CASE respondFromIdempotencyCache(d)
    BY <1>0, <1>11 DEF respondFromIdempotencyCache, Pinned, TypeOK, Steps, durable, history
  <1>12. CASE End(d)
    <2>1. claim' \in [Actions -> Slots \union {None}] /\ overdue' \subseteq Actions
      <3>1. \/ claim' = [claim EXCEPT ![call[d]] = None] /\ overdue' = overdue \ {call[d]}
            \/ claim' = claim /\ overdue' = overdue
        BY <1>12 DEF End, release
      <3>2. [claim EXCEPT ![call[d]] = None] \in [Actions -> Slots \union {None}]
        BY DEF TypeOK
      <3>3. claim \in [Actions -> Slots \union {None}] /\ overdue \subseteq Actions
        BY DEF TypeOK
      <3>4. QED
        BY <3>1, <3>2, <3>3
    <2>2. heard' \subseteq Calls \X Calls
      BY <1>0, <1>12 DEF End, TypeOK
    <2>3. QED
      BY <1>0, <1>12, <2>1, <2>2 DEF End, endDispatch, TypeOK, Steps, durable
  <1>13. QED
    BY <1>1, <1>2, <1>3, <1>4, <1>5, <1>6, <1>7, <1>8, <1>9, <1>10, <1>11, <1>12 DEF Handle, Enter, Admit, Answer

(* So do the arrival of a request, the passing of time and a restart.        *)
LEMMA OthersTyped ==
    ASSUME TypeOK, [Next]_vars, \A d \in Slots : ~Handle(d)
    PROVE  TypeOK'
  <1> USE Kinds, BoundsAssumption
  <1>1. CASE \E d \in Slots, c \in Calls : Arrive(d, c)
    <2>1. PICK d \in Slots, c \in Calls : Arrive(d, c)
      BY <1>1
    <2>2. CASE rejectNonNextMutation(d, c)
      BY <2>2 DEF rejectNonNextMutation, endDispatch, TypeOK, Steps, durable, request
    <2>3. CASE beginDispatch(d, c)
      BY <2>3 DEF beginDispatch, TypeOK, Steps, durable, history
    <2>4. QED
      BY <2>1, <2>2, <2>3 DEF Arrive
  <1>2. CASE \E a \in Actions : CeilingPasses(a)
    BY <1>2 DEF CeilingPasses, TypeOK, Steps, durable, request
  <1>3. CASE \E k \in Keyed : RetentionPasses(k)
    BY <1>3 DEF RetentionPasses, TypeOK, Steps, request, instance
  <1>4. CASE Restart
    BY <1>4 DEF Restart, TypeOK, Steps, durable
  <1>5. CASE UNCHANGED vars
    BY <1>5 DEF vars, durable, request, instance, history, TypeOK, Steps
  <1>6. QED
    BY <1>1, <1>2, <1>3, <1>4, <1>5 DEF Next

(* Every step keeps the types.                                               *)
LEMMA TypeStep ==
    ASSUME IInv, [Next]_vars
    PROVE  TypeOK'
  BY HandleTyped, OthersTyped DEF IInv, PushInv

-----------------------------------------------------------------------------
(* Where the slots stand.                                                    *)

(* A result read from a receipt is the call's own, and the call took effect. *)
LEMMA ReadsOwn ==
    ASSUME TypeOK, ReceiptsTrue, NEW d \in Slots, readIdempotentResult(d, d) # None
    PROVE  /\ readIdempotentResult(d, d) = call[d] /\ call[d] \in Keyed
           /\ applied[call[d]] > 0
  <1>1. d # None
    BY Kinds
  <1>2. IdIn(d) = call[d] /\ call[d] \in Keyed
    BY <1>1 DEF readIdempotentResult, IdIn
  <1>3. readIdempotentResult(d, d) = rows[call[d]]
    BY <1>2 DEF readIdempotentResult
  <1>4. QED
    BY <1>2, <1>3 DEF ReceiptsTrue

(* A dispatch keeps the links: only a request of a mutation or a push enters *)
(* the gate, alone where there is an input gate, and the gate admits one.    *)
LEMMA HandleLinked ==
    ASSUME TypeOK, Linked, OneRuns, GateAlone, ReceiptsTrue, NEW d \in Slots, Handle(d)
    PROVE  (Linked /\ OneRuns /\ GateAlone)'
  <1> USE Kinds
  <1>0. /\ pc \in [Slots -> Steps] /\ call \in [Slots -> Calls \union {None}]
        /\ class \in [Slots -> {"unclassified", "next"}] /\ result \in [Slots -> Calls \union {None}]
        /\ pc[d] # "idle" => call[d] \in Calls
    BY DEF TypeOK
  <1>1. CASE EnterGated(d)
    BY <1>0, <1>1 DEF EnterGated, Linked, OneRuns, GateAlone, Waiting, Delivered
  <1>2. CASE EnterCached(d)
    <2>1. readIdempotentResult(d, d) = call[d]
      BY <1>2, ReadsOwn DEF EnterCached, Pinned
    <2>2. QED
      BY <1>0, <1>2, <2>1 DEF EnterCached, Admitted, Pinned, Linked, OneRuns, GateAlone, Waiting, Delivered
  <1>3. CASE EnterDeclined(d)
    BY <1>0, <1>3 DEF EnterDeclined, Linked, OneRuns, GateAlone, Waiting, Delivered
  <1>4. CASE EnterClaims(d)
    BY <1>0, <1>4 DEF EnterClaims, Linked, OneRuns, GateAlone, Waiting, Delivered
  <1>5. CASE AdmitCached(d)
    <2>1. readIdempotentResult(d, d) = call[d]
      BY <1>5, ReadsOwn DEF AdmitCached, Pinned
    <2>2. QED
      BY <1>0, <1>5, <2>1 DEF AdmitCached, Admitted, Pinned, Linked, OneRuns, GateAlone, Waiting, Delivered
  <1>6. CASE AdmitRuns(d)
    BY <1>0, <1>6 DEF AdmitRuns, Admitted, Linked, OneRuns, GateAlone, Waiting, Delivered
  <1>7. CASE Commit(d)
    BY <1>0, <1>7 DEF Commit, Linked, OneRuns, GateAlone, Waiting, Delivered
  <1>8. CASE Acts(d)
    BY <1>0, <1>8 DEF Acts, Linked, OneRuns, GateAlone, Waiting, Delivered
  <1>9. CASE Throws(d)
    BY <1>0, <1>9 DEF Throws, Linked, OneRuns, GateAlone, Waiting, Delivered
  <1>10. CASE Tail(d)
    BY <1>0, <1>10 DEF Tail, Linked, OneRuns, GateAlone, Waiting, Delivered
  <1>11. CASE respondFromIdempotencyCache(d)
    BY <1>0, <1>11 DEF respondFromIdempotencyCache, Linked, OneRuns, GateAlone, Waiting, Delivered
  <1>12. CASE End(d)
    BY <1>0, <1>12 DEF End, Linked, OneRuns, GateAlone, Waiting, Delivered
  <1>13. QED
    BY <1>1, <1>2, <1>3, <1>4, <1>5, <1>6, <1>7, <1>8, <1>9, <1>10, <1>11, <1>12 DEF Handle, Enter, Admit, Answer

(* An arrival, time and a restart keep the links, and the host admits one.   *)
LEMMA OthersLinked ==
    ASSUME TypeOK, Linked, OneRuns, GateAlone, [Next]_vars, \A d \in Slots : ~Handle(d)
    PROVE  (Linked /\ OneRuns /\ GateAlone)'
  <1> USE Kinds
  <1>0. /\ pc \in [Slots -> Steps] /\ call \in [Slots -> Calls \union {None}]
        /\ class \in [Slots -> {"unclassified", "next"}] /\ result \in [Slots -> Calls \union {None}]
        /\ \A d \in Slots : pc[d] = "idle" => call[d] = None
    BY DEF TypeOK
  <1>1. CASE \E d \in Slots, c \in Calls : beginDispatch(d, c) /\ Arrive(d, c)
    <2>1. PICK d \in Slots, c \in Calls : beginDispatch(d, c) /\ Arrive(d, c)
      BY <1>1
    <2>2. classifyClientMutation(d, c) = "next" => c \in Pushes
      BY DEF classifyClientMutation
    <2>3. QED
      BY <1>0, <2>1, <2>2 DEF beginDispatch, Arrive, Linked, OneRuns, GateAlone, Waiting, Delivered
  <1>2. CASE UNCHANGED request
    BY <1>2 DEF request, Linked, OneRuns, GateAlone, Waiting
  <1>3. CASE Restart
    BY <1>3 DEF Restart, Linked, OneRuns, GateAlone, Waiting
  <1>4. QED
    BY <1>1, <1>2, <1>3 DEF Next, Arrive, rejectNonNextMutation, CeilingPasses, RetentionPasses, vars

(* So does every step.                                                       *)
LEMMA LinkStep ==
    ASSUME IInv, [Next]_vars
    PROVE  (Linked /\ OneRuns /\ GateAlone)'
  BY HandleLinked, OthersLinked DEF IInv, Receipts

-----------------------------------------------------------------------------
(* Receipts.                                                                 *)

(* No transaction but its own is open when a dispatch commits.               *)
LEMMA NotRefused ==
    ASSUME OneRuns, NEW d \in Slots, pc[d] = "running" \/ \A e \in Slots : pc[e] # "running"
    PROVE  ~Refused(d)
  BY DEF OneRuns, Refused

(* Bookkeeping fills the one missing row it is for, collects aged rows, and  *)
(* leaves every young one alone.                                             *)
LEMMA Collecting ==
    ASSUME TypeOK, AgedKept, NEW d \in Slots, call[d] \in Calls, persistIdempotentResult(d, d)
    PROVE  /\ AgedKept' /\ aged' \subseteq aged
           /\ \A k \in Keyed : \/ rows'[k] = rows[k]
                               \/ k = call[d] /\ rows[k] = None /\ rows'[k] = k
                               \/ k \in aged /\ rows'[k] = None
           /\ \A k \in Keyed : rows[k] # None /\ k \notin aged => rows'[k] = rows[k] /\ k \notin aged'
  <1> USE Kinds
  <1>1. \A k \in aged : rows[k] # None /\ k \in Keyed
    BY BoundsAssumption DEF AgedKept, TypeOK
  <1>2. aged' = aged \/ aged' = {}
    BY Persisting
  <1>3. \A k \in Keyed : \/ rows'[k] = rows[k] /\ (k \in aged => aged' = aged \/ rows[k] = None)
                         \/ k = call[d] /\ rows[k] = None /\ rows'[k] = k
                         \/ k \in aged /\ rows'[k] = None /\ aged' = {}
    BY Persisting
  <1>4. QED
    BY <1>1, <1>2, <1>3 DEF AgedKept

(* A step that touches neither receipts nor effects keeps Receipts, if it    *)
(* lets a mutation run only while its receipt is missing.                    *)
LEMMA QuietReceipts ==
    ASSUME Receipts, UNCHANGED <<rows, aged, applied, lapsed>>,
           \A e \in Slots : pc'[e] = "ran" => pc[e] = "ran" /\ call'[e] = call[e],
           \A e \in Slots : pc'[e] = "running" /\ call'[e] \in Mutations => rows[call'[e]] = None
    PROVE  Receipts'
  <1>1. Fresh' /\ Kept'
    BY DEF Receipts, Fresh, Kept
  <1>2. (AgedKept /\ AgedOnce /\ Closed /\ MutationOnce /\ ReceiptsTrue)'
    BY DEF Receipts, AgedKept, AgedOnce, Closed, MutationOnce, ReceiptsTrue, Lapses
  <1>3. QED
    BY <1>1, <1>2 DEF Receipts

(* A commit fills the row of the mutation it applies in the same step.       *)
LEMMA CommitReceipts ==
    ASSUME TypeOK, Linked, OneRuns, Receipts, NEW d \in Slots, Commit(d)
    PROVE  Receipts'
  <1> USE Kinds
  <1> DEFINE m0 == call[d]
  <1>1. /\ pc[d] = "running" /\ m0 \in Calls /\ m0 \notin Actions /\ lapsed' = lapsed
        /\ applied \in [Calls -> Nat] /\ applied' = [applied EXCEPT ![m0] = @ + 1]
        /\ pc \in [Slots -> Steps] /\ pc' = [pc EXCEPT ![d] = "ran"] /\ call' = call
    BY DEF Commit, history, TypeOK, Linked
  <1>2. persistIdempotentResult(d, d) /\ ~Refused(d)
    BY <1>1, NotRefused DEF Commit, Pinned
  <1>3. /\ AgedKept' /\ aged' \subseteq aged
        /\ \A k \in Keyed : \/ rows'[k] = rows[k]
                            \/ k = m0 /\ rows[k] = None /\ rows'[k] = k
                            \/ k \in aged /\ rows'[k] = None
        /\ \A k \in Keyed : rows[k] # None /\ k \notin aged => rows'[k] = rows[k] /\ k \notin aged'
    BY <1>1, <1>2, Collecting DEF Receipts
  <1>4. m0 \in Mutations => rows[m0] = None /\ m0 \notin aged /\ rows'[m0] = m0 /\ applied[m0] <= Lapses(m0)
    <2>1. m0 \in Mutations => rows[m0] = None /\ m0 \notin aged
      BY <1>1 DEF Receipts, Fresh, AgedKept
    <2>2. m0 \in Mutations => rows'[m0] # None
      BY <1>1, <1>2, <2>1, Persisting
    <2>3. QED
      BY <1>3, <2>1, <2>2 DEF Receipts, Closed
  <1>5. \A c \in Calls : applied'[c] = IF c = m0 THEN applied[c] + 1 ELSE applied[c]
    BY <1>1
  <1>6. Lapses(m0) \in Nat /\ Lapses(m0)' = Lapses(m0) /\ \A m \in Mutations : Lapses(m)' = Lapses(m) /\ Lapses(m) \in {0, 1}
    BY <1>1 DEF Lapses
  <1>7. \A m \in aged : Lapses(m) = 1
    BY DEF TypeOK, Lapses
  <1>8. Fresh'
    BY <1>1 DEF Fresh, OneRuns
  <1>9. Kept'
    BY ZenonT(30), <1>1, <1>3, <1>4 DEF Kept, Receipts
  <1>10. AgedOnce'
    BY <1>3, <1>4, <1>5 DEF AgedOnce, Receipts
  <1>11. Closed'
    <2> SUFFICES ASSUME NEW m \in Mutations, rows'[m] = None
                 PROVE  applied'[m] <= Lapses(m)
      BY <1>6 DEF Closed
    <2>1. m # m0 /\ applied'[m] = applied[m]
      BY <1>4, <1>5
    <2>2. rows[m] = None \/ m \in aged
      BY <1>3
    <2>3. QED
      BY <1>7, <2>1, <2>2 DEF Receipts, Closed, AgedOnce
  <1>12. MutationOnce'
    <2> SUFFICES ASSUME NEW m \in Mutations
                 PROVE  applied'[m] <= 1 + Lapses(m)
      BY <1>6 DEF MutationOnce
    <2>1. applied[m] \in Nat /\ Lapses(m) \in Nat /\ applied[m] <= 1 + Lapses(m)
      BY <1>1, <1>6 DEF Receipts, MutationOnce
    <2>2. QED
      BY <1>4, <1>5, <2>1
  <1>13. ReceiptsTrue'
    <2>1. ASSUME NEW k \in Keyed, rows'[k] # None
          PROVE  rows'[k] = k /\ applied'[k] > 0
      <3>1. applied[k] \in Nat /\ (rows[k] # None => rows[k] = k /\ applied[k] > 0)
        BY <1>1 DEF Receipts, ReceiptsTrue
      <3>2. QED
        BY <1>3, <1>5, <2>1, <3>1
    <2>2. ASSUME NEW m \in Mutations, applied'[m] > 0
          PROVE  rows'[m] = m \/ m \in lapsed'
      <3>1. m # m0 => rows[m] = m \/ m \in lapsed
        BY <1>5, <2>2 DEF Receipts, ReceiptsTrue
      <3>2. m \in aged => m \in lapsed
        BY DEF TypeOK
      <3>3. QED
        BY <1>1, <1>3, <1>4, <3>1, <3>2
    <2>3. QED
      BY <2>1, <2>2 DEF ReceiptsTrue
  <1>14. QED
    BY <1>3, <1>8, <1>9, <1>10, <1>11, <1>12, <1>13 DEF Receipts

(* The tail of a dispatch fills no row of a mutation and no row of a call    *)
(* that had no effect.                                                       *)
LEMMA TailReceipts ==
    ASSUME TypeOK, Linked, Receipts, Effective, NEW d \in Slots, Tail(d)
    PROVE  Receipts'
  <1> USE Kinds
  <1> DEFINE k0 == call[d]
  <1>1. /\ pc[d] = "ran" /\ k0 \in Calls /\ lapsed' = lapsed /\ applied' = applied
        /\ applied \in [Calls -> Nat] /\ applied[k0] > 0
        /\ pc \in [Slots -> Steps] /\ pc' = [pc EXCEPT ![d] = "flush"] /\ call' = call
    BY DEF Tail, history, TypeOK, Linked, Effective
  <1>2. CASE UNCHANGED <<rows, aged>>
    <2>1. \A e \in Slots : pc'[e] \in {"ran", "running"} => pc'[e] = pc[e] /\ call'[e] = call[e]
      BY <1>1
    <2>2. QED
      BY <1>1, <1>2, <2>1, QuietReceipts DEF Receipts, Fresh
  <1>3. CASE persistIdempotentResult(d, d)
    <2>1. /\ AgedKept' /\ aged' \subseteq aged
          /\ \A k \in Keyed : \/ rows'[k] = rows[k]
                              \/ k = k0 /\ rows[k] = None /\ rows'[k] = k
                              \/ k \in aged /\ rows'[k] = None
          /\ \A k \in Keyed : rows[k] # None /\ k \notin aged => rows'[k] = rows[k] /\ k \notin aged'
      BY <1>1, <1>3, Collecting DEF Receipts
    <2>2. \A m \in Mutations : Lapses(m)' = Lapses(m)
      BY <1>1 DEF Lapses
    <2>3. \A m \in aged : Lapses(m) = 1 /\ m \in lapsed
      BY DEF TypeOK, Lapses
    <2>4. k0 \in Mutations => rows[k0] # None
      BY <1>1 DEF Receipts, Kept
    <2>5. Fresh'
      <3> SUFFICES ASSUME NEW e \in Slots, pc'[e] = "running", call'[e] \in Mutations
                   PROVE  rows'[call'[e]] = None
        BY DEF Fresh
      <3>1. e # d /\ pc[e] = "running" /\ call'[e] = call[e]
        BY <1>1
      <3>2. Refused(d)
        BY <3>1, BoundsAssumption DEF Tail, Delivered, Refused
      <3>3. rows' = rows
        BY <1>1, <1>3, <3>2, Persisting
      <3>4. QED
        BY <3>1, <3>3 DEF Receipts, Fresh
    <2>6. Kept'
      BY <1>1, <2>1 DEF Kept, Receipts
    <2>7. AgedOnce'
      BY <1>1, <2>1 DEF AgedOnce, Receipts
    <2>8. Closed'
      <3> SUFFICES ASSUME NEW m \in Mutations, rows'[m] = None
                   PROVE  applied[m] <= Lapses(m)
        BY <1>1, <2>2 DEF Closed
      <3>1. rows[m] = None \/ m \in aged
        BY <2>1
      <3>2. QED
        BY <2>3, <3>1 DEF Receipts, Closed, AgedOnce
    <2>9. MutationOnce'
      BY <1>1, <2>2 DEF MutationOnce, Receipts
    <2>10. ReceiptsTrue'
      <3>1. ASSUME NEW k \in Keyed, rows'[k] # None
            PROVE  rows'[k] = k /\ applied[k] > 0
        BY <1>1, <2>1, <3>1 DEF Receipts, ReceiptsTrue
      <3>2. ASSUME NEW m \in Mutations, applied[m] > 0
            PROVE  rows'[m] = m \/ m \in lapsed
        BY <2>1, <2>3, <2>4, <3>2 DEF Receipts, ReceiptsTrue
      <3>3. QED
        BY <1>1, <3>1, <3>2 DEF ReceiptsTrue
    <2>11. QED
      BY <2>1, <2>5, <2>6, <2>7, <2>8, <2>9, <2>10 DEF Receipts
  <1>4. QED
    BY <1>2, <1>3 DEF Tail, recordPostDispatchBookkeeping, Pinned

(* The other steps of a dispatch leave the receipts alone, and the gate lets *)
(* a mutation run only if it reads none.                                     *)
LEMMA HandleReceipts ==
    ASSUME TypeOK, Linked, OneRuns, Receipts, Effective, NEW d \in Slots, Handle(d)
    PROVE  Receipts'
  <1> USE Kinds
  <1>0. pc \in [Slots -> Steps] /\ call \in [Slots -> Calls \union {None}] /\ d # None
    BY DEF TypeOK
  <1>1. CASE Commit(d)
    BY <1>1, CommitReceipts
  <1>2. CASE Tail(d)
    BY <1>2, TailReceipts
  <1>3. CASE Acts(d)
    <2>1. /\ call[d] \in Actions /\ UNCHANGED <<rows, aged, call, lapsed>>
          /\ pc' = [pc EXCEPT ![d] = "ran"] /\ applied' = [applied EXCEPT ![call[d]] = @ + 1]
          /\ applied \in [Calls -> Nat]
      BY <1>3 DEF Acts, Linked, history, TypeOK
    <2>2. /\ \A c \in Calls : applied'[c] = IF c = call[d] THEN applied[c] + 1 ELSE applied[c]
          /\ \A c \in Calls : applied[c] \in Nat
      BY <2>1
    <2>3. Fresh' /\ Kept' /\ AgedKept'
      BY <1>0, <2>1 DEF Receipts, Fresh, Kept, AgedKept
    <2>4. (AgedOnce /\ Closed /\ MutationOnce)'
      BY <2>1, <2>2 DEF Receipts, AgedOnce, Closed, MutationOnce, Lapses
    <2>5. ReceiptsTrue'
      BY <2>1, <2>2 DEF Receipts, ReceiptsTrue
    <2>6. QED
      BY <2>3, <2>4, <2>5 DEF Receipts
  <1>4. CASE AdmitRuns(d)
    <2>1. call[d] \in Mutations => rows[call[d]] = None
      BY <1>0, <1>4 DEF AdmitRuns, Admitted, Pinned, readIdempotentResult, IdIn, Refused
    <2>2. UNCHANGED <<rows, aged, applied, lapsed, call>> /\ pc' = [pc EXCEPT ![d] = "running"]
      BY <1>4 DEF AdmitRuns, durable, history
    <2>3. /\ \A e \in Slots : pc'[e] = "ran" => pc[e] = "ran" /\ call'[e] = call[e]
          /\ \A e \in Slots : pc'[e] = "running" /\ call'[e] \in Mutations => rows[call'[e]] = None
      BY <1>0, <2>1, <2>2 DEF Receipts, Fresh
    <2>4. QED
      BY <2>2, <2>3, QuietReceipts
  <1>5. CASE Enter(d) \/ AdmitCached(d) \/ Throws(d) \/ respondFromIdempotencyCache(d) \/ End(d)
    <2>1. UNCHANGED <<rows, aged, applied, lapsed>>
      BY <1>5 DEF Enter, EnterGated, EnterCached, EnterDeclined, EnterClaims, AdmitCached, Throws,
                  respondFromIdempotencyCache, End, durable, history
    <2>2. \A e \in Slots : pc'[e] \in {"ran", "running"} => pc'[e] = pc[e] /\ call'[e] = call[e]
      BY <1>0, <1>5 DEF Enter, EnterGated, EnterCached, EnterDeclined, EnterClaims, AdmitCached, Throws,
                        respondFromIdempotencyCache, End
    <2>3. QED
      BY <2>1, <2>2, QuietReceipts DEF Receipts, Fresh
  <1>6. QED
    BY <1>1, <1>2, <1>3, <1>4, <1>5 DEF Handle, Enter, Admit, Answer

(* A receipt grows past its retention once, and never under a request.       *)
LEMMA OthersReceipts ==
    ASSUME TypeOK, Receipts, [Next]_vars, \A d \in Slots : ~Handle(d)
    PROVE  Receipts'
  <1> USE Kinds
  <1>0. pc \in [Slots -> Steps] /\ call \in [Slots -> Calls \union {None}]
    BY DEF TypeOK
  <1>1. CASE \E k \in Keyed : RetentionPasses(k)
    <2>1. PICK k \in Keyed : RetentionPasses(k)
      BY <1>1
    <2>2. /\ UNCHANGED <<rows, applied, pc, call>> /\ aged' = aged \union {k} /\ lapsed' = lapsed \union {k}
          /\ rows[k] # None /\ k \notin lapsed /\ \A e \in Slots : call[e] # k
          /\ applied \in [Calls -> Nat]
      BY <2>1 DEF RetentionPasses, request, TypeOK
    <2>3. \A m \in Mutations : Lapses(m)' = (IF m = k THEN 1 ELSE Lapses(m)) /\ Lapses(m) \in {0, 1}
      BY <2>2 DEF Lapses
    <2>4. Lapses(k) = 0 /\ \A m \in Mutations : applied[m] \in Nat
      BY <2>2 DEF Lapses
    <2>5. (Fresh /\ Kept /\ AgedKept)'
      BY <2>2 DEF Receipts, Fresh, Kept, AgedKept
    <2>6. (AgedOnce /\ Closed /\ MutationOnce)'
      BY <2>2, <2>3, <2>4 DEF Receipts, AgedOnce, Closed, MutationOnce
    <2>7. ReceiptsTrue'
      BY <2>2 DEF Receipts, ReceiptsTrue
    <2>8. QED
      BY <2>5, <2>6, <2>7 DEF Receipts
  <1>2. CASE \E d \in Slots, c \in Calls : beginDispatch(d, c)
    <2>1. PICK d \in Slots, c \in Calls : beginDispatch(d, c)
      BY <1>2
    <2>2. UNCHANGED <<rows, aged, applied, lapsed>>
      BY <2>1 DEF beginDispatch, durable, history
    <2>3. \A e \in Slots : pc'[e] \in {"ran", "running"} => pc'[e] = pc[e] /\ call'[e] = call[e]
      BY <1>0, <2>1 DEF beginDispatch
    <2>4. QED
      BY <2>2, <2>3, QuietReceipts DEF Receipts, Fresh
  <1>3. CASE Restart
    <2>1. UNCHANGED <<rows, aged, applied, lapsed>> /\ \A e \in Slots : pc'[e] = "idle"
      BY <1>3 DEF Restart, durable
    <2>2. QED
      BY <2>1, QuietReceipts
  <1>4. CASE UNCHANGED <<rows, aged, applied, lapsed, pc, call>>
    BY <1>4, QuietReceipts DEF Receipts, Fresh
  <1>5. QED
    BY <1>1, <1>2, <1>3, <1>4
       DEF Next, Arrive, rejectNonNextMutation, CeilingPasses, vars, durable, request, history

(* Every step keeps receipts and effects in agreement.                       *)
LEMMA ReceiptStep ==
    ASSUME IInv, [Next]_vars
    PROVE  Receipts'
  BY HandleReceipts, OthersReceipts DEF IInv

-----------------------------------------------------------------------------
(* Effects.                                                                  *)

(* Effects are never taken back, so a result stays one of a call that had    *)
(* its effect; it is got by running the call or from the call's receipt.     *)
LEMMA EffectStep ==
    ASSUME IInv, [Next]_vars
    PROVE  Effective' /\ AnswerOwn'
  <1> USE Kinds DEF IInv
  <1>0. /\ applied \in [Calls -> Nat] /\ call \in [Slots -> Calls \union {None}]
        /\ result \in [Slots -> Calls \union {None}] /\ heard \subseteq Calls \X Calls
        /\ \A d \in Slots : (call[d] = None <=> pc[d] = "idle") /\ (call[d] = None => result[d] = None)
    BY DEF TypeOK, Linked
  <1>1. CASE \E d \in Slots : Commit(d) \/ Acts(d)
    <2>1. PICK d \in Slots : Commit(d) \/ Acts(d)
      BY <1>1
    <2>2. /\ applied' = [applied EXCEPT ![call[d]] = @ + 1] /\ result' = [result EXCEPT ![d] = call[d]]
          /\ call' = call /\ heard' = heard /\ call[d] \in Calls
      BY <1>0, <2>1 DEF Commit, Acts, history
    <2>3. \A c \in Calls : applied'[c] \in Nat /\ (applied[c] > 0 => applied'[c] > 0)
      BY <1>0, <2>2
    <2>4. applied'[call[d]] > 0
      <3>1. applied[call[d]] \in Nat /\ applied'[call[d]] = applied[call[d]] + 1
        BY <1>0, <2>2
      <3>2. QED
        BY <3>1
    <2>5. Effective'
      BY <1>0, <2>2, <2>3, <2>4 DEF Effective
    <2>6. AnswerOwn'
      BY <1>0, <2>2, <2>3 DEF AnswerOwn
    <2>7. QED
      BY <2>5, <2>6
  <1>2. CASE \E d \in Slots : EnterCached(d) \/ AdmitCached(d)
    <2>1. PICK d \in Slots : EnterCached(d) \/ AdmitCached(d)
      BY <1>2
    <2>2. readIdempotentResult(d, d) # None /\ result' = [result EXCEPT ![d] = readIdempotentResult(d, d)]
      BY <2>1 DEF EnterCached, AdmitCached, Pinned
    <2>3. applied[call[d]] > 0
      BY <2>2, ReadsOwn DEF Receipts
    <2>4. applied' = applied /\ call' = call /\ heard' = heard
      BY <2>1 DEF EnterCached, AdmitCached, durable, history
    <2>5. QED
      BY <1>0, <2>2, <2>3, <2>4 DEF Effective, AnswerOwn
  <1>3. CASE \E d \in Slots : End(d)
    <2>1. PICK d \in Slots : End(d)
      BY <1>3
    <2>2. /\ heard' = IF result[d] = None THEN heard ELSE heard \union {<<call[d], result[d]>>}
          /\ applied' = applied /\ call' = [call EXCEPT ![d] = None] /\ result' = [result EXCEPT ![d] = None]
      BY <2>1 DEF End, durable
    <2>3. Effective'
      BY <1>0, <2>2 DEF Effective
    <2>4. AnswerOwn'
      BY <1>0, <2>2 DEF AnswerOwn, Effective, Linked
    <2>5. QED
      BY <2>3, <2>4
  <1>4. CASE \E d \in Slots, c \in Calls : rejectNonNextMutation(d, c)
    <2>1. PICK d \in Slots, c \in Calls : rejectNonNextMutation(d, c)
      BY <1>4
    <2>2. classifyClientMutation(d, c) = "already" => c \in Pushes /\ c <= watermark
      BY DEF classifyClientMutation
    <2>3. heard' = heard \/ (heard' = heard \union {<<c, c>>} /\ applied[c] > 0)
      BY <2>1, <2>2 DEF rejectNonNextMutation, PushInv, Accounted
    <2>4. applied' = applied /\ call' = call /\ result' = result
      BY <2>1 DEF rejectNonNextMutation, durable, request
    <2>5. QED
      BY <2>3, <2>4 DEF Effective, AnswerOwn
  <1>5. CASE \E d \in Slots, c \in Calls : beginDispatch(d, c) /\ Arrive(d, c)
    <2>1. PICK d \in Slots, c \in Calls : beginDispatch(d, c) /\ Arrive(d, c)
      BY <1>5
    <2>2. applied' = applied /\ heard' = heard /\ result' = result /\ call' = [call EXCEPT ![d] = c] /\ result[d] = None
      BY <1>0, <2>1 DEF beginDispatch, Arrive, durable, history
    <2>3. QED
      BY <1>0, <2>2 DEF Effective, AnswerOwn
  <1>6. CASE Restart
    BY <1>6 DEF Restart, durable, Effective, AnswerOwn
  <1>7. CASE UNCHANGED <<applied, call, result, heard>>
    BY <1>7 DEF Effective, AnswerOwn
  <1>8. ASSUME NEW d \in Slots, Handle(d)
        PROVE  \/ Commit(d) \/ Acts(d) \/ EnterCached(d) \/ AdmitCached(d) \/ End(d)
               \/ UNCHANGED <<applied, call, result, heard>>
    BY <1>8 DEF Handle, Enter, Admit, Answer, EnterGated, EnterDeclined, EnterClaims, AdmitRuns, Throws,
                Tail, respondFromIdempotencyCache, durable, history
  <1>9. QED
    BY <1>1, <1>2, <1>3, <1>4, <1>5, <1>6, <1>7, <1>8
       DEF Next, Arrive, CeilingPasses, RetentionPasses, vars, durable, request, history

-----------------------------------------------------------------------------
(* Pushes.                                                                   *)

(* A push that is classified is at most the next one, however old the        *)
(* classification has become, so the watermark never skips a push; under the *)
(* input gate a push is still the next one when it commits.                  *)
LEMMA HandlePushes ==
    ASSUME TypeOK, Linked, OneRuns, GateAlone, Effective, PushInv, NEW d \in Slots, Handle(d)
    PROVE  PushInv'
  <1> USE Kinds
  <1>0. /\ pc \in [Slots -> Steps] /\ call \in [Slots -> Calls \union {None}] /\ d # None
        /\ class \in [Slots -> {"unclassified", "next"}] /\ applied \in [Calls -> Nat]
        /\ watermark \in Nat /\ (pc[d] # "idle" => call[d] \in Calls)
        /\ \A e \in Slots : call[e] = None <=> pc[e] = "idle"
    BY BoundsAssumption DEF TypeOK
  <1>1. CASE Commit(d)
    <2>1. /\ pc[d] = "running" /\ pc' = [pc EXCEPT ![d] = "ran"] /\ call' = call /\ class' = class
          /\ advanceClientMutationWatermark(d, d) /\ ~Refused(d) /\ call[d] \in Calls
          /\ applied' = [applied EXCEPT ![call[d]] = @ + 1]
      BY <1>0, <1>1, NotRefused DEF Commit, Pinned
    <2>2. /\ watermark' \in Nat
          /\ \/ watermark' = watermark
             \/ /\ watermark' = call[d] /\ call[d] = watermark + 1
                /\ class[d] = "next" /\ call[d] \in Pushes
          /\ class[d] = "next" => call[d] <= watermark'
      BY <2>1, Advancing, BoundsAssumption DEF PushInv
    <2>3. \A c \in Calls : applied'[c] = IF c = call[d] THEN applied[c] + 1 ELSE applied[c]
      BY <1>0, <2>1
    <2>4. \A c \in Calls : applied[c] \in Nat
      BY <1>0
    <2>5. Behind'
      <3>1. \A e \in Slots : class[e] = "next" => call[e] \in Nat /\ call[e] <= watermark + 1
        BY DEF Linked, PushInv, Behind
      <3>2. watermark <= watermark'
        BY <1>0, <2>2
      <3>3. QED
        BY <1>0, <2>1, <2>2, <3>1, <3>2 DEF Behind
    <2>6. Accounted'
      <3> SUFFICES ASSUME NEW p \in Pushes, p <= watermark'
                   PROVE  applied'[p] > 0
        BY DEF Accounted
      <3>1. p \in Nat /\ (p <= watermark \/ p = call[d])
        BY <1>0, <2>2
      <3>2. p <= watermark => applied[p] > 0
        BY DEF PushInv, Accounted
      <3>3. QED
        BY <2>3, <2>4, <3>1, <3>2
    <2>7. GatePush'
      <3> SUFFICES ASSUME Host = "gate", NEW e \in Slots, call[e] \in Pushes
                   PROVE  /\ pc'[e] \in Waiting => class[e] = "next" /\ call[e] = watermark' + 1
                          /\ pc'[e] = "ran" => call[e] <= watermark'
        BY <2>1 DEF GatePush
      <3>1. CASE e = d
        BY <1>0, <2>1, <2>2, <3>1 DEF PushInv, GatePush, Waiting
      <3>2. CASE e # d
        <4>1. pc'[e] = pc[e] /\ pc[e] \notin Waiting
          BY <1>0, <2>1, <3>2 DEF GateAlone, Waiting
        <4>2. pc[e] = "ran" => call[e] <= watermark /\ call[e] \in Nat
          BY DEF PushInv, GatePush
        <4>3. QED
          BY <1>0, <2>2, <4>1, <4>2
      <3>3. QED
        BY <3>1, <3>2
    <2>8. GateExact'
      <3> SUFFICES ASSUME Host = "gate", NEW p \in Pushes
                   PROVE  applied'[p] = IF p <= watermark' THEN 1 ELSE 0
        BY DEF GateExact, WatermarkExact
      <3>1. p \in Nat /\ applied[p] = IF p <= watermark THEN 1 ELSE 0
        BY DEF PushInv, GateExact, WatermarkExact
      <3>2. call[d] \in Pushes => class[d] = "next" /\ call[d] = watermark + 1 /\ watermark' = call[d]
        BY <1>0, <2>1, <2>2 DEF PushInv, GatePush, Waiting
      <3>3. call[d] \notin Pushes => watermark' = watermark
        BY <2>2
      <3>4. QED
        BY <1>0, <2>3, <3>1, <3>2, <3>3
    <2>9. QED
      BY <2>5, <2>6, <2>7, <2>8 DEF PushInv
  <1>2. CASE Tail(d)
    <2>1. /\ pc[d] = "ran" /\ pc' = [pc EXCEPT ![d] = "flush"] /\ UNCHANGED <<call, class, applied>>
          /\ advanceClientMutationWatermark(d, d) /\ applied[call[d]] > 0
      BY <1>0, <1>2 DEF Tail, Pinned, recordPostDispatchBookkeeping, Effective, Linked
    <2>2. /\ watermark' \in Nat
          /\ \/ watermark' = watermark
             \/ watermark' = call[d] /\ call[d] = watermark + 1 /\ call[d] \in Pushes
      BY <2>1, Advancing, BoundsAssumption DEF PushInv
    <2>3. Host = "gate" => watermark' = watermark
      BY <1>0, <2>1, <2>2 DEF PushInv, GatePush
    <2>4. Behind'
      <3>1. \A e \in Slots : class[e] = "next" => call[e] \in Nat /\ call[e] <= watermark + 1
        BY DEF Linked, PushInv, Behind
      <3>2. watermark <= watermark'
        BY <1>0, <2>2
      <3>3. QED
        BY <1>0, <2>1, <2>2, <3>1, <3>2 DEF Behind
    <2>5. Accounted'
      BY <1>0, <2>1, <2>2 DEF Accounted, PushInv
    <2>6. GatePush'
      BY <1>0, <2>1, <2>3 DEF PushInv, GatePush, Waiting
    <2>7. GateExact'
      BY <2>1, <2>3 DEF PushInv, GateExact, WatermarkExact
    <2>8. QED
      BY <2>4, <2>5, <2>6, <2>7 DEF PushInv
  <1>3. CASE Acts(d)
    <2>1. /\ call[d] \in Actions /\ UNCHANGED <<watermark, call, class>>
          /\ pc' = [pc EXCEPT ![d] = "ran"] /\ applied' = [applied EXCEPT ![call[d]] = @ + 1]
      BY <1>3 DEF Acts, Linked
    <2>2. \A p \in Pushes : applied'[p] = applied[p]
      BY <1>0, <2>1
    <2>3. Behind' /\ Accounted' /\ GateExact'
      BY <2>1, <2>2 DEF PushInv, Behind, Accounted, GateExact, WatermarkExact
    <2>4. GatePush'
      BY <1>0, <2>1 DEF PushInv, GatePush, Waiting
    <2>5. QED
      BY <2>3, <2>4 DEF PushInv
  <1>4. CASE End(d)
    <2>1. /\ UNCHANGED <<watermark, applied>> /\ pc' = [pc EXCEPT ![d] = "idle"]
          /\ call' = [call EXCEPT ![d] = None] /\ class' = [class EXCEPT ![d] = "unclassified"]
      BY <1>4 DEF End, durable
    <2>2. QED
      BY <1>0, <2>1 DEF PushInv, Behind, Accounted, GatePush, GateExact, WatermarkExact, Waiting
  <1>5. CASE Enter(d) \/ Admit(d) \/ Throws(d) \/ respondFromIdempotencyCache(d)
    <2>1. UNCHANGED <<watermark, applied, call, class>>
      BY <1>5 DEF Enter, Admit, EnterGated, EnterCached, EnterDeclined, EnterClaims, AdmitCached, AdmitRuns,
                  Throws, respondFromIdempotencyCache, durable
    <2>2. /\ \A e \in Slots : pc'[e] \in Waiting => pc[e] \in Waiting
          /\ \A e \in Slots : pc'[e] = "ran" => pc[e] = "ran"
      BY <1>0, <1>5 DEF Enter, Admit, EnterGated, EnterCached, EnterDeclined, EnterClaims, AdmitCached, AdmitRuns,
                        Throws, respondFromIdempotencyCache, Admitted, Waiting
    <2>3. Behind' /\ Accounted' /\ GateExact'
      BY <2>1 DEF PushInv, Behind, Accounted, GateExact, WatermarkExact
    <2>4. GatePush'
      <3> SUFFICES ASSUME Host = "gate", NEW e \in Slots, call[e] \in Pushes
                   PROVE  /\ pc'[e] \in Waiting => class[e] = "next" /\ call[e] = watermark + 1
                          /\ pc'[e] = "ran" => call[e] <= watermark
        BY <2>1 DEF GatePush
      <3>1. /\ pc[e] \in Waiting => class[e] = "next" /\ call[e] = watermark + 1
            /\ pc[e] = "ran" => call[e] <= watermark
        BY DEF PushInv, GatePush
      <3>2. (pc'[e] \in Waiting => pc[e] \in Waiting) /\ (pc'[e] = "ran" => pc[e] = "ran")
        BY <2>2
      <3>3. QED
        BY <3>1, <3>2
    <2>5. QED
      BY <2>3, <2>4 DEF PushInv
  <1>6. QED
    BY <1>1, <1>2, <1>3, <1>4, <1>5 DEF Handle, Answer

(* An arrival is classified by the watermark; time and a restart leave it.   *)
LEMMA OthersPushes ==
    ASSUME TypeOK, Linked, PushInv, [Next]_vars, \A d \in Slots : ~Handle(d)
    PROVE  PushInv'
  <1> USE Kinds
  <1>0. /\ pc \in [Slots -> Steps] /\ call \in [Slots -> Calls \union {None}] /\ watermark \in Nat
        /\ class \in [Slots -> {"unclassified", "next"}]
    BY BoundsAssumption DEF TypeOK
  <1>1. CASE \E d \in Slots, c \in Calls : beginDispatch(d, c)
    <2>1. PICK d \in Slots, c \in Calls : beginDispatch(d, c)
      BY <1>1
    <2>2. /\ UNCHANGED <<watermark, applied>> /\ pc' = [pc EXCEPT ![d] = "begun"]
          /\ call' = [call EXCEPT ![d] = c] /\ class' = [class EXCEPT ![d] = classifyClientMutation(d, c)]
      BY <2>1 DEF beginDispatch, durable
    <2>3. /\ classifyClientMutation(d, c) = "next" => c = watermark + 1
          /\ Host = "gate" /\ c \in Pushes => classifyClientMutation(d, c) = "next"
      BY <2>1 DEF beginDispatch, classifyClientMutation, Refused
    <2>4. QED
      BY <1>0, <2>2, <2>3 DEF PushInv, Behind, Accounted, GatePush, GateExact, WatermarkExact, Waiting
  <1>2. CASE Restart
    BY <1>2 DEF Restart, durable, PushInv, Behind, Accounted, GatePush, GateExact, WatermarkExact
  <1>3. CASE UNCHANGED <<watermark, applied, pc, call, class>>
    BY <1>3 DEF PushInv, Behind, Accounted, GatePush, GateExact, WatermarkExact
  <1>4. QED
    BY <1>1, <1>2, <1>3 DEF Next, Arrive, rejectNonNextMutation, CeilingPasses, RetentionPasses,
                            vars, durable, request

(* Every step keeps the watermark and the pushes in hand in agreement.       *)
LEMMA PushStep ==
    ASSUME IInv, [Next]_vars
    PROVE  PushInv'
  BY HandlePushes, OthersPushes DEF IInv

-----------------------------------------------------------------------------
(* The invariant and what it gives.                                          *)

LEMMA InitInv == Init => IInv
  <1> USE Kinds, BoundsAssumption
  <1> SUFFICES ASSUME Init PROVE IInv
    OBVIOUS
  <1>1. TypeOK
    BY DEF Init, TypeOK, Steps
  <1>2. Linked /\ OneRuns /\ GateAlone
    BY DEF Init, Linked, OneRuns, GateAlone, Waiting
  <1>3. Receipts
    BY DEF Init, Receipts, Fresh, Kept, AgedKept, AgedOnce, Closed, MutationOnce, ReceiptsTrue, Lapses
  <1>4. Effective /\ AnswerOwn
    BY DEF Init, Effective, AnswerOwn
  <1>5. PushInv
    <2>1. \A p \in Pushes : p \in Nat /\ p > 0 /\ applied[p] = 0
      BY DEF Init, Pushes
    <2>2. QED
      BY <2>1 DEF Init, PushInv, Behind, Accounted, GatePush, GateExact, WatermarkExact, Waiting
  <1>6. QED
    BY <1>1, <1>2, <1>3, <1>4, <1>5 DEF IInv

(* Every reachable state satisfies the invariant.                            *)
LEMMA Invariance == Spec => []IInv
  <1>1. IInv /\ [Next]_vars => IInv'
    BY TypeStep, LinkStep, ReceiptStep, EffectStep, PushStep DEF IInv
  <1>2. QED
    BY <1>1, InitInv, PTL DEF Spec

(* Every reachable state of the dispatch is well-typed.                      *)
THEOREM TypeCorrect == Spec => []TypeOK
  <1>1. IInv => TypeOK
    BY DEF IInv
  <1>2. QED
    BY <1>1, Invariance, PTL

(* However many deliveries of a mutation overlap, are retried or come back   *)
(* after a restart, it takes effect once, and once more at most after its    *)
(* receipt has lapsed: on either host.                                       *)
THEOREM MutationsOnce == Spec => []MutationOnce
  <1>1. IInv => MutationOnce
    BY DEF IInv, Receipts
  <1>2. QED
    BY <1>1, Invariance, PTL

(* A receipt is the call's own, proves its effect and is never missing while *)
(* it is young: no dispatch books its result under the identity of another.  *)
THEOREM ReceiptsAreTrue == Spec => []ReceiptsTrue
  <1>1. IInv => ReceiptsTrue
    BY DEF IInv, Receipts
  <1>2. QED
    BY <1>1, Invariance, PTL

(* Success is answered only for a call that took effect, with its result.    *)
THEOREM AnswersAreOwn == Spec => []AnswerOwn
  <1>1. IInv => AnswerOwn
    BY DEF IInv
  <1>2. QED
    BY <1>1, Invariance, PTL

(* Under the input gate the watermark accounts exactly for the pushes.       *)
THEOREM WatermarkIsExact == Host = "gate" /\ Spec => []WatermarkExact
  <1>1. CASE Host = "gate"
    <2>1. IInv => WatermarkExact
      BY <1>1 DEF IInv, PushInv, GateExact
    <2>2. QED
      BY <2>1, Invariance, PTL
  <1>2. CASE Host # "gate"
    BY <1>2
  <1>3. QED
    BY <1>1, <1>2

-----------------------------------------------------------------------------
(* Actions: the claim.                                                       *)

(* A run that was not taken over holds the claim of its action.              *)
ClaimHeld == \A d \in Slots : pc[d] = "acting" /\ d \notin late => claim[call[d]] = d

(* Every step leaves the claim with a run that is not late.                  *)
LEMMA ClaimStep ==
    ASSUME IInv, ClaimHeld, [Next]_vars
    PROVE  ClaimHeld'
  <1> USE Kinds
  <1>0. /\ pc \in [Slots -> Steps] /\ call \in [Slots -> Calls \union {None}]
        /\ claim \in [Actions -> Slots \union {None}]
        /\ \A d \in Slots : pc[d] = "acting" => call[d] \in Actions
    BY DEF IInv, TypeOK, Linked
  <1>1. ASSUME NEW d \in Slots, EnterClaims(d)
        PROVE  ClaimHeld'
    <2>1. /\ pc' = [pc EXCEPT ![d] = "acting"] /\ call' = call /\ call[d] \in Actions
          /\ claim' = [claim EXCEPT ![call[d]] = d] /\ late' = late \union ({claim[call[d]]} \ {None})
      BY <1>1 DEF EnterClaims
    <2>2. ASSUME NEW e \in Slots, pc'[e] = "acting", e \notin late', e # d
          PROVE  claim'[call[e]] = e
      <3>1. pc[e] = "acting" /\ e \notin late /\ claim[call[e]] = e /\ call[e] \in Actions
        BY <1>0, <2>1, <2>2 DEF ClaimHeld
      <3>2. call[e] # call[d]
        BY <2>1, <2>2, <3>1
      <3>3. QED
        BY <1>0, <2>1, <3>1, <3>2
    <2>3. claim'[call[d]] = d
      BY <1>0, <2>1
    <2>4. QED
      BY <2>1, <2>2, <2>3 DEF ClaimHeld
  <1>2. ASSUME NEW d \in Slots, End(d)
        PROVE  ClaimHeld'
    <2>1. /\ pc[d] = "flush" /\ pc' = [pc EXCEPT ![d] = "idle"] /\ call' = [call EXCEPT ![d] = None]
          /\ late' = late \ {d}
          /\ \/ call[d] \in Actions /\ claim[call[d]] = d /\ claim' = [claim EXCEPT ![call[d]] = None]
             \/ claim' = claim
      BY <1>2 DEF End, release
    <2>2. ASSUME NEW e \in Slots, pc'[e] = "acting", e \notin late'
          PROVE  claim'[call'[e]] = e
      <3>1. e # d /\ pc[e] = "acting" /\ call'[e] = call[e] /\ claim[call[e]] = e /\ call[e] \in Actions
        BY <1>0, <2>1, <2>2 DEF ClaimHeld
      <3>2. QED
        BY <1>0, <2>1, <3>1
    <2>3. QED
      BY <2>2 DEF ClaimHeld
  <1>3. ASSUME NEW d \in Slots, Handle(d)
        PROVE  \/ EnterClaims(d) \/ End(d)
               \/ UNCHANGED <<claim, late, call>> /\ \A e \in Slots : pc'[e] = "acting" => pc[e] = "acting"
    BY <1>0, <1>3 DEF Handle, Enter, Admit, Answer, EnterGated, EnterCached, EnterDeclined, AdmitCached, AdmitRuns,
                      Admitted, Commit, Acts, Throws, Tail, respondFromIdempotencyCache, instance, history
  <1>4. ASSUME NEW d \in Slots, NEW c \in Calls, Arrive(d, c)
        PROVE  ClaimHeld'
    <2>1. CASE beginDispatch(d, c)
      BY <1>0, <2>1 DEF beginDispatch, history, ClaimHeld
    <2>2. CASE rejectNonNextMutation(d, c)
      BY <2>2 DEF rejectNonNextMutation, request, ClaimHeld
    <2>3. QED
      BY <1>4, <2>1, <2>2 DEF Arrive
  <1>5. CASE UNCHANGED <<claim, late, call>> /\ \A e \in Slots : pc'[e] = "acting" => pc[e] = "acting"
    BY <1>5 DEF ClaimHeld
  <1>6. CASE Restart
    BY <1>6 DEF Restart, ClaimHeld
  <1>7. QED
    BY <1>1, <1>2, <1>3, <1>4, <1>5, <1>6
       DEF Next, CeilingPasses, RetentionPasses, vars, request, instance, history

(* Runs of one action that overlap are runs that were taken over, and one    *)
(* more at most: a late holder never frees the claim of its successor.       *)
THEOREM ActionsAlone == Spec => []ActionAlone
  <1> DEFINE Held == IInv /\ ClaimHeld
  <1>1. Init => Held
    BY InitInv DEF Init, ClaimHeld
  <1>2. Held /\ [Next]_vars => Held'
    BY ClaimStep, TypeStep, LinkStep, ReceiptStep, EffectStep, PushStep DEF IInv
  <1>3. Held => ActionAlone
    <2> SUFFICES ASSUME Held, NEW a \in Actions
                 PROVE  Cardinality(Running(a) \ late) <= 1
      BY DEF ActionAlone
    <2>1. Running(a) \ late \subseteq {claim[a]}
      BY DEF Running, ClaimHeld
    <2>2. IsFiniteSet({claim[a]}) /\ Cardinality({claim[a]}) = 1
      BY FS_Singleton
    <2>3. Cardinality(Running(a) \ late) <= Cardinality({claim[a]})
      BY <2>1, <2>2, FS_Subset
    <2>4. QED
      BY <2>2, <2>3
  <1>4. QED
    BY <1>1, <1>2, <1>3, PTL DEF Spec

-----------------------------------------------------------------------------
(* Actions: how often they run.                                              *)

(* Who holds the claim of an action runs it, has run it or is about to free  *)
(* it; a receipt past its retention is that of an action nobody runs; and no *)
(* committed bookkeeping is taken for that of an action.                     *)
Ledgered(a) ==
    /\ claim[a] # None => call[claim[a]] = a /\ pc[claim[a]] \in {"acting", "ran", "flush"}
    /\ a \in aged => claim[a] = None /\ \A d \in Slots : call[d] = a => pc[d] \notin {"acting", "ran"}
    /\ stamp # a
Ledger == \A a \in Actions : Ledgered(a)

(* Nobody who holds the claim has yet to leave the receipt.                  *)
Spare(a) == claim[a] = None \/ pc[claim[a]] = "flush"
(* So a delivery may run the action, now or once the claim is dropped.       *)
Free(a)  == (rows[a] = None \/ a \in aged) /\ Spare(a)

(* The runs of an action that count, those under way among them, and a claim *)
(* past its ceiling as the run that will take it over; and the runs allowed. *)
Spent(a) == applied[a] + Cardinality(Running(a)) + (IF a \in overdue THEN 1 ELSE 0)
Room(a)  == 1 + Lapses(a) + restarts + takeovers

(* A run is left for whoever may start one.                                  *)
Thrifty(a) ==
    /\ IsFiniteSet(Running(a))
    /\ Spent(a) <= Room(a)
    /\ Free(a) => Spent(a) + 1 <= Room(a)
Thrift == \A a \in Actions : Thrifty(a)

(* Bookkeeping collects receipts and lets none age.                          *)
LEMMA AgedShrinks ==
    ASSUME IInv, NEW d \in Slots, Commit(d) \/ Tail(d)
    PROVE  aged' \subseteq aged
  <1>1. call[d] \in Calls
    BY DEF IInv, TypeOK, Commit, Tail
  <1>2. persistIdempotentResult(d, d) \/ aged' = aged
    BY DEF Commit, Tail, recordPostDispatchBookkeeping, Pinned
  <1>3. QED
    BY <1>1, <1>2, Collecting DEF IInv, Receipts

(* The steps of a dispatch that neither start, end nor book a run.           *)
Passing(d) ==
    \/ EnterGated(d) \/ EnterCached(d) \/ EnterDeclined(d) \/ AdmitCached(d) \/ AdmitRuns(d)
    \/ respondFromIdempotencyCache(d)

(* What they leave alone.                                                    *)
LEMMA PassingKeeps ==
    ASSUME TypeOK, NEW d \in Slots, Passing(d)
    PROVE  /\ UNCHANGED <<durable, call, stamp, claim, overdue, history>>
           /\ pc[d] \notin {"acting", "ran", "flush"} /\ pc'[d] \notin {"acting", "ran"}
           /\ \A e \in Slots \ {d} : pc'[e] = pc[e]
  BY DEF TypeOK, Passing, EnterGated, EnterCached, EnterDeclined, AdmitCached, AdmitRuns, Admitted,
         respondFromIdempotencyCache

(* The claim, the receipt and the bookkeeping of an action stay together.    *)
LEMMA LedgerStep ==
    ASSUME IInv, Host = "gate", Ledger, [Next]_vars
    PROVE  Ledger'
  <1> USE Kinds
  <1>0. /\ pc \in [Slots -> Steps] /\ call \in [Slots -> Calls \union {None}]
        /\ claim \in [Actions -> Slots \union {None}] /\ \A d \in Slots : call[d] = None <=> pc[d] = "idle"
        /\ \A d \in Slots : pc[d] = "running" => call[d] \notin Actions
        /\ \A k \in aged : rows[k] # None
    BY DEF IInv, TypeOK, Linked, Receipts, AgedKept
  <1>l. \A a \in Actions : Ledgered(a)
    BY DEF Ledger
  <1>1. ASSUME NEW d \in Slots, EnterClaims(d)
        PROVE  Ledger'
    <2>1. /\ pc' = [pc EXCEPT ![d] = "acting"] /\ call' = call /\ call[d] \in Actions /\ aged' = aged /\ stamp' = stamp
          /\ claim' = [claim EXCEPT ![call[d]] = d]
      BY <1>1 DEF EnterClaims, durable
    <2>2. rows[call[d]] = None
      BY <1>1, <2>1 DEF EnterClaims, readIdempotentResult, Pinned, IdIn, Refused
    <2>3. ASSUME NEW a \in Actions PROVE Ledgered(a)'
      <3>1. CASE a = call[d]
        BY <1>0, <1>l, <2>1, <2>2, <3>1 DEF Ledgered
      <3>2. CASE a # call[d]
        BY <1>0, <1>l, <2>1, <3>2 DEF Ledgered
      <3>3. QED
        BY <3>1, <3>2
    <2>4. QED
      BY <2>3 DEF Ledger
  <1>2. ASSUME NEW d \in Slots, End(d)
        PROVE  Ledger'
    <2>1. /\ pc[d] = "flush" /\ pc' = [pc EXCEPT ![d] = "idle"] /\ call' = [call EXCEPT ![d] = None]
          /\ aged' = aged /\ stamp' = None
          /\ claim' = IF call[d] \in Actions /\ claim[call[d]] = d THEN [claim EXCEPT ![call[d]] = None] ELSE claim
      BY <1>2 DEF End, release, durable, endDispatch
    <2>2. ASSUME NEW a \in Actions PROVE Ledgered(a)'
      <3>1. claim'[a] = (IF claim[a] = d THEN None ELSE claim[a])
        BY <1>0, <1>l, <2>1 DEF Ledgered
      <3>2. QED
        BY <1>0, <1>l, <2>1, <3>1 DEF Ledgered
    <2>3. QED
      BY <2>2 DEF Ledger
  <1>3. ASSUME NEW d \in Slots, NEW c \in Calls, Arrive(d, c)
        PROVE  Ledger'
    <2>1. CASE beginDispatch(d, c)
      <3>1. /\ pc[d] = "idle" /\ pc' = [pc EXCEPT ![d] = "begun"] /\ call' = [call EXCEPT ![d] = c]
            /\ stamp' = None /\ UNCHANGED <<aged, claim>>
        BY <1>3, <2>1 DEF Arrive, beginDispatch, durable
      <3>2. QED
        BY <1>0, <1>l, <3>1 DEF Ledgered, Ledger
    <2>2. CASE rejectNonNextMutation(d, c)
      BY <1>l, <2>2 DEF rejectNonNextMutation, durable, request, endDispatch, Ledgered, Ledger
    <2>3. QED
      BY <1>3, <2>1, <2>2 DEF Arrive
  <1>4. ASSUME NEW d \in Slots, Acts(d) \/ Throws(d)
        PROVE  Ledger'
    <2>1. /\ pc[d] \in {"running", "acting"} /\ UNCHANGED <<aged, claim, stamp, call>>
          /\ \/ pc[d] = "acting" /\ pc' = [pc EXCEPT ![d] = "ran"]
             \/ pc' = [pc EXCEPT ![d] = "flush"]
      BY <1>4 DEF Acts, Throws, durable, instance
    <2>2. QED
      BY <1>0, <1>l, <2>1 DEF Ledgered, Ledger
  <1>5. ASSUME NEW d \in Slots, Tail(d)
        PROVE  Ledger'
    <2>1. /\ pc[d] = "ran" /\ pc' = [pc EXCEPT ![d] = "flush"] /\ UNCHANGED <<claim, stamp, call>>
      BY <1>5 DEF Tail
    <2>2. QED
      BY <1>0, <1>l, <1>5, <2>1, AgedShrinks DEF Ledgered, Ledger
  <1>6. ASSUME NEW d \in Slots, Commit(d)
        PROVE  Ledger'
    <2>1. /\ pc[d] = "running" /\ pc' = [pc EXCEPT ![d] = "ran"] /\ UNCHANGED <<claim, call>>
          /\ stamp' = IdIn(d)
      BY <1>6 DEF Commit, Pinned
    <2>2. stamp' \notin Actions
      BY <1>0, <2>1 DEF IdIn
    <2>3. QED
      BY <1>0, <1>l, <1>6, <2>1, <2>2, AgedShrinks DEF Ledgered, Ledger
  <1>7. ASSUME NEW d \in Slots, Passing(d)
        PROVE  Ledger'
    BY <1>0, <1>l, <1>7, PassingKeeps DEF IInv, durable, Ledgered, Ledger
  <1>8. ASSUME NEW k \in Keyed, RetentionPasses(k)
        PROVE  Ledger'
    <2>1. /\ \A d \in Slots : call[d] # k
          /\ aged' = aged \union {k} /\ UNCHANGED <<pc, call, claim, stamp>>
      BY <1>8 DEF RetentionPasses, request, instance
    <2>2. ASSUME NEW a \in Actions PROVE Ledgered(a)'
      <3>1. a = k => claim[a] = None
        BY <1>0, <1>l, <2>1 DEF Ledgered
      <3>2. QED
        BY <1>0, <1>l, <2>1, <3>1 DEF Ledgered
    <2>3. QED
      BY <2>2 DEF Ledger
  <1>9. CASE Restart
    <2>1. /\ \A d \in Slots : call'[d] = None
          /\ \A a \in Actions : claim'[a] = None
          /\ stamp' = None
      BY <1>9 DEF Restart
    <2>2. QED
      BY <2>1 DEF Ledgered, Ledger
  <1>10. CASE UNCHANGED <<pc, call, claim, stamp, aged>>
    BY <1>l, <1>10 DEF Ledgered, Ledger
  <1>11. QED
    BY <1>1, <1>2, <1>3, <1>4, <1>5, <1>6, <1>7, <1>8, <1>9, <1>10
       DEF Next, Handle, Enter, Admit, Answer, Passing, CeilingPasses, vars, durable, request, instance

(* What is counted are numbers, before a step and after it.                  *)
LEMMA Counting ==
    ASSUME NEW a \in Actions, TypeOK, IsFiniteSet(Running(a))
    PROVE  /\ Cardinality(Running(a)) \in Nat /\ applied[a] \in Nat /\ Lapses(a) \in {0, 1}
           /\ restarts \in Nat /\ takeovers \in Nat /\ Spent(a) \in Nat /\ Room(a) \in Nat
  <1>1. Cardinality(Running(a)) \in Nat
    BY FS_CardinalityType
  <1>2. applied[a] \in Nat /\ restarts \in Nat /\ takeovers \in Nat
    BY Kinds, BoundsAssumption DEF TypeOK
  <1>3. Lapses(a) \in {0, 1} /\ (IF a \in overdue THEN 1 ELSE 0) \in {0, 1}
    BY DEF Lapses
  <1>4. Spent(a) \in Nat
    <2> SUFFICES applied[a] + Cardinality(Running(a)) + (IF a \in overdue THEN 1 ELSE 0) \in Nat
      BY DEF Spent
    <2> HIDE DEF Running
    <2>1. QED
      BY <1>1, <1>2
  <1>5. Room(a) \in Nat
    BY <1>2, <1>3 DEF Room
  <1>6. QED
    BY <1>1, <1>2, <1>3, <1>4, <1>5

(* The same for the values after the step.                                   *)
LEMMA CountingNext ==
    ASSUME NEW a \in Actions, TypeOK', IsFiniteSet(Running(a)')
    PROVE  /\ Cardinality(Running(a)') \in Nat /\ applied'[a] \in Nat /\ Lapses(a)' \in {0, 1}
           /\ Spent(a)' \in Nat /\ Room(a)' \in Nat
  <1>1. Cardinality(Running(a)') \in Nat
    BY FS_CardinalityType
  <1>2. applied'[a] \in Nat /\ restarts' \in Nat /\ takeovers' \in Nat
    BY Kinds, BoundsAssumption DEF TypeOK
  <1>3. Lapses(a)' \in {0, 1}
    BY DEF Lapses
  <1>4. Spent(a)' \in Nat
    <2> SUFFICES applied'[a] + Cardinality(Running(a)') + (IF a \in overdue' THEN 1 ELSE 0) \in Nat
      BY DEF Spent
    <2>1. QED
      BY <1>1, <1>2
  <1>5. Room(a)' \in Nat
    BY <1>2, <1>3 DEF Room
  <1>6. QED
    BY <1>1, <1>2, <1>3, <1>4, <1>5

(* A step that starts no run and makes no room leaves as much of it as it    *)
(* takes.                                                                    *)
LEMMA ThriftKeeps ==
    ASSUME NEW a \in Actions, Thrifty(a), TypeOK, TypeOK', IsFiniteSet(Running(a)'),
           Spent(a)' + Room(a) <= Spent(a) + Room(a)',
           Free(a)' => Free(a) \/ Spent(a)' + Room(a) + 1 <= Spent(a) + Room(a)'
    PROVE  Thrifty(a)'
  <1> USE Kinds
  <1>3. Spent(a) \in Nat /\ Spent(a)' \in Nat /\ Room(a) \in Nat /\ Room(a)' \in Nat
    BY Counting, CountingNext DEF Thrifty
  <1> HIDE DEF Spent, Room, Free
  <1>4. QED
    BY <1>3 DEF Thrifty

(* The same where nothing that counts changes for the action.                *)
LEMMA ThriftRests ==
    ASSUME NEW a \in Actions, Thrifty(a), TypeOK, TypeOK', Running(a)' = Running(a), applied'[a] = applied[a],
           a \in overdue' => a \in overdue, a \in lapsed => a \in lapsed',
           restarts' = restarts, takeovers' = takeovers \/ takeovers' = takeovers + 1, Free(a)' => Free(a)
    PROVE  Thrifty(a)'
  <1> USE Kinds
  <1>1. IsFiniteSet(Running(a)') /\ Cardinality(Running(a)) \in Nat /\ Cardinality(Running(a)') = Cardinality(Running(a))
    BY FS_CardinalityType DEF Thrifty
  <1>2. applied[a] \in Nat /\ restarts \in Nat /\ takeovers \in Nat
    BY BoundsAssumption DEF TypeOK
  <1>3. Spent(a)' + Room(a) <= Spent(a) + Room(a)'
    BY <1>1, <1>2 DEF Spent, Room, Lapses
  <1> HIDE DEF Spent, Room, Free
  <1>4. QED
    BY <1>1, <1>3, ThriftKeeps

(* Under the input gate every run of an action is paid for: the first, one   *)
(* per restart, takeover and lapse (in-flight-claims.ts, runClaimedAction).  *)
LEMMA ThriftStep ==
    ASSUME IInv, TypeOK', Host = "gate", Ledger, Thrift, [Next]_vars
    PROVE  Thrift'
  <1> USE Kinds
  <1>0. /\ pc \in [Slots -> Steps] /\ call \in [Slots -> Calls \union {None}]
        /\ claim \in [Actions -> Slots \union {None}] /\ applied \in [Calls -> Nat]
        /\ \A d \in Slots : call[d] = None <=> pc[d] = "idle"
        /\ \A d \in Slots : pc[d] = "running" => call[d] \notin Actions
        /\ \A k \in aged : rows[k] # None
        /\ TypeOK /\ TypeOK' /\ restarts \in Nat /\ takeovers \in Nat
    BY BoundsAssumption DEF IInv, TypeOK, Linked, Receipts, AgedKept
  <1>l. \A a \in Actions : Ledgered(a) /\ Thrifty(a)
    BY DEF Ledger, Thrift
  <1>c. \A a \in Actions : /\ Cardinality(Running(a)) \in Nat /\ IsFiniteSet(Running(a)) /\ applied[a] \in Nat
                           /\ Lapses(a) \in {0, 1} /\ Spent(a) \in Nat /\ Room(a) \in Nat
    BY <1>0, <1>l, Counting DEF Thrifty
  <1>1. ASSUME NEW d \in Slots, EnterClaims(d)
        PROVE  Thrift'
    <2>0. PICK b \in Actions : b = call[d]
      BY <1>1 DEF EnterClaims
    <2>1. /\ pc[d] = "begun" /\ pc' = [pc EXCEPT ![d] = "acting"] /\ call' = call
          /\ claim' = [claim EXCEPT ![b] = d] /\ overdue' = overdue \ {b}
          /\ claim[b] = None \/ b \in overdue
          /\ UNCHANGED <<rows, aged, applied, lapsed, restarts, takeovers>>
      BY <1>1, <2>0 DEF EnterClaims, durable
    <2>2. rows[b] = None
      BY <1>1, <2>0 DEF EnterClaims, readIdempotentResult, Pinned, IdIn, Refused
    <2>3. Thrifty(b)'
      <3>1. Running(b)' = Running(b) \union {d} /\ d \notin Running(b)
        BY <1>0, <2>0, <2>1 DEF Running
      <3>2. IsFiniteSet(Running(b)') /\ Cardinality(Running(b)') = Cardinality(Running(b)) + 1
        BY <1>c, <3>1, FS_AddElement
      <3>3. ~Free(b)'
        BY <1>0, <2>1 DEF Free, Spare
      <3>4. Room(b)' = Room(b) /\ Lapses(b)' = Lapses(b)
        BY <2>1 DEF Room, Lapses
      <3>5. Spent(b)' = applied[b] + (Cardinality(Running(b)) + 1) + 0
        BY <2>1, <3>2 DEF Spent
      <3>6. Spent(b)' <= Room(b)'
        <4>1. CASE b \in overdue
          <5>1. Spent(b) = applied[b] + Cardinality(Running(b)) + 1 /\ Spent(b) <= Room(b)
            BY <1>l, <4>1 DEF Thrifty, Spent
          <5>2. QED
            BY <1>c, <3>4, <3>5, <5>1
        <4>2. CASE b \notin overdue
          <5>1. Spent(b) = applied[b] + Cardinality(Running(b)) + 0
            BY <4>2 DEF Spent
          <5>2. Spent(b) + 1 <= Room(b)
            BY <1>l, <2>1, <2>2, <4>2 DEF Thrifty, Free, Spare
          <5>3. QED
            BY <1>c, <3>4, <3>5, <5>1, <5>2
        <4>3. QED
          BY <4>1, <4>2
      <3>7. QED
        BY <3>2, <3>3, <3>6 DEF Thrifty
    <2>4. ASSUME NEW a \in Actions, a # b PROVE Thrifty(a)'
      <3>1. Running(a)' = Running(a)
        BY <1>0, <2>0, <2>1, <2>4 DEF Running
      <3>2. Free(a)' => Free(a)
        BY <1>0, <1>l, <2>0, <2>1, <2>4 DEF Free, Spare, Ledgered
      <3>3. QED
        BY <1>0, <1>l, <2>1, <2>4, <3>1, <3>2, ThriftRests
    <2>5. ASSUME NEW a \in Actions PROVE Thrifty(a)'
      BY <2>3, <2>4
    <2>6. QED
      BY <2>5 DEF Thrift
  <1>2. ASSUME NEW d \in Slots, End(d)
        PROVE  Thrift'
    <2>1. /\ pc[d] = "flush" /\ pc' = [pc EXCEPT ![d] = "idle"] /\ call' = [call EXCEPT ![d] = None]
          /\ UNCHANGED <<rows, aged, applied, lapsed, restarts, takeovers>>
          /\ claim' = IF call[d] \in Actions /\ claim[call[d]] = d THEN [claim EXCEPT ![call[d]] = None] ELSE claim
          /\ overdue' \subseteq overdue
      BY <1>2 DEF End, release, durable
    <2>2. ASSUME NEW a \in Actions PROVE Thrifty(a)'
      <3>1. Running(a)' = Running(a)
        BY <1>0, <2>1 DEF Running
      <3>2. Spare(a)' => Spare(a)
        BY <1>0, <1>l, <2>1 DEF Spare, Ledgered
      <3>3. QED
        BY <1>0, <1>l, <2>1, <3>1, <3>2, ThriftRests DEF Free
    <2>3. QED
      BY <2>2 DEF Thrift
  <1>3. ASSUME NEW d \in Slots, NEW c \in Calls, Arrive(d, c)
        PROVE  Thrift'
    <2>1. /\ pc[d] = "idle" /\ \A e \in Slots \ {d} : pc'[e] = pc[e] /\ call'[e] = call[e]
          /\ pc'[d] \in {"idle", "begun"} /\ UNCHANGED <<durable, claim, overdue, lapsed, restarts, takeovers>>
      BY <1>0, <1>3 DEF Arrive, beginDispatch, rejectNonNextMutation, request, history
    <2>2. ASSUME NEW a \in Actions PROVE Thrifty(a)'
      <3>1. Running(a)' = Running(a)
        BY <1>0, <2>1 DEF Running
      <3>2. Free(a)' => Free(a)
        BY <1>0, <1>l, <2>1 DEF Free, Spare, Ledgered, durable
      <3>3. QED
        BY <1>0, <1>l, <2>1, <3>1, <3>2, ThriftRests DEF durable
    <2>3. QED
      BY <2>2 DEF Thrift
  <1>4. ASSUME NEW d \in Slots, Acts(d)
        PROVE  Thrift'
    <2>0. PICK b \in Actions : b = call[d]
      BY <1>4 DEF Acts, IInv, Linked
    <2>1. /\ pc[d] = "acting" /\ pc' = [pc EXCEPT ![d] = "ran"]
          /\ applied' = [applied EXCEPT ![b] = @ + 1]
          /\ UNCHANGED <<rows, aged, call, claim, overdue, lapsed, restarts, takeovers>>
      BY <1>4, <2>0 DEF Acts, instance, history, IInv, Linked
    <2>2. ASSUME NEW a \in Actions PROVE Free(a)' => Free(a)
      BY <1>0, <1>l, <2>1 DEF Free, Spare
    <2>3. Thrifty(b)'
      <3>1. Running(b)' = Running(b) \ {d} /\ d \in Running(b)
        BY <1>0, <2>0, <2>1 DEF Running
      <3>2. IsFiniteSet(Running(b)') /\ Cardinality(Running(b)') = Cardinality(Running(b)) - 1
            /\ Cardinality(Running(b)') \in Nat
        BY <1>c, <3>1, FS_RemoveElement, FS_CardinalityType
      <3>3. Room(b)' = Room(b) /\ applied'[b] = applied[b] + 1
        BY <1>0, <2>1 DEF Room, Lapses
      <3>4. Spent(b)' = Spent(b)
        <4> HIDE DEF Running
        <4>1. QED
          BY <1>c, <2>1, <3>2, <3>3 DEF Spent
      <3>5. Spent(b)' + Room(b) <= Spent(b) + Room(b)'
        BY <1>c, <3>3, <3>4
      <3>6. QED
        BY <1>0, <1>l, <2>2, <3>2, <3>5, ThriftKeeps
    <2>4. ASSUME NEW a \in Actions, a # b PROVE Thrifty(a)'
      <3>1. Running(a)' = Running(a) /\ applied'[a] = applied[a]
        BY <1>0, <2>0, <2>1, <2>4 DEF Running
      <3>2. QED
        BY <1>0, <1>l, <2>1, <2>2, <3>1, ThriftRests
    <2>5. ASSUME NEW a \in Actions PROVE Thrifty(a)'
      BY <2>3, <2>4
    <2>6. QED
      BY <2>5 DEF Thrift
  <1>5. ASSUME NEW d \in Slots, Throws(d)
        PROVE  Thrift'
    <2>1. /\ pc[d] \in {"running", "acting"} /\ pc' = [pc EXCEPT ![d] = "flush"]
          /\ UNCHANGED <<rows, aged, applied, call, claim, overdue, lapsed, restarts, takeovers>>
      BY <1>5 DEF Throws, durable, history
    <2>2. ASSUME NEW a \in Actions, a # call[d] \/ pc[d] = "running" PROVE Thrifty(a)'
      <3>1. Running(a)' = Running(a)
        BY <1>0, <2>1, <2>2 DEF Running
      <3>2. Free(a)' => Free(a)
        BY <1>0, <1>l, <2>1, <2>2 DEF Free, Spare, Ledgered
      <3>3. QED
        BY <1>0, <1>l, <2>1, <3>1, <3>2, ThriftRests
    <2>3. ASSUME NEW b \in Actions, b = call[d], pc[d] = "acting" PROVE Thrifty(b)'
      <3>1. Running(b)' = Running(b) \ {d} /\ d \in Running(b)
        BY <1>0, <2>1, <2>3 DEF Running
      <3>2. IsFiniteSet(Running(b)') /\ Cardinality(Running(b)') = Cardinality(Running(b)) - 1
            /\ Cardinality(Running(b)') \in Nat
        BY <1>c, <3>1, FS_RemoveElement, FS_CardinalityType
      <3>3. Room(b)' = Room(b) /\ applied'[b] = applied[b]
        BY <2>1 DEF Room, Lapses
      <3>4. Spent(b)' + 1 = Spent(b)
        BY <1>c, <2>1, <3>2, <3>3 DEF Spent
      <3>n. Spent(b) \in Nat /\ Spent(b)' \in Nat /\ Room(b) \in Nat
        BY <1>0, <1>c, <3>2, CountingNext
      <3>5. Spent(b)' + Room(b) + 1 <= Spent(b) + Room(b)'
        BY <3>n, <3>3, <3>4
      <3>6. Spent(b)' + Room(b) <= Spent(b) + Room(b)'
        BY <3>n, <3>3, <3>4
      <3>7. QED
        BY <1>0, <1>l, <3>2, <3>5, <3>6, ThriftKeeps
    <2>4. QED
      <3>1. ASSUME NEW a \in Actions PROVE Thrifty(a)'
        BY <2>1, <2>2, <2>3
      <3>2. QED
        BY <3>1 DEF Thrift
  <1>6. ASSUME NEW d \in Slots, Commit(d) \/ Tail(d)
        PROVE  Thrift'
    <2>1. /\ call[d] \in Calls /\ UNCHANGED <<call, claim, overdue, lapsed, restarts, takeovers>>
          /\ \A e \in Slots \ {d} : pc'[e] = pc[e]
          /\ \A a \in Actions : applied'[a] = applied[a]
          /\ pc[d] \in {"running", "ran"} /\ pc'[d] \in {"ran", "flush"}
          /\ pc[d] = "running" => pc'[d] = "ran"
      BY <1>0, <1>6 DEF Commit, Tail, history
    <2>2. /\ aged' \subseteq aged
          /\ \A k \in Keyed : rows'[k] = None => rows[k] = None \/ k \in aged
      <3>1. persistIdempotentResult(d, d) \/ UNCHANGED <<rows, aged>>
        BY <1>6 DEF Commit, Tail, recordPostDispatchBookkeeping, Pinned
      <3>2. QED
        BY <1>0, <2>1, <3>1, Collecting DEF IInv, Receipts
    <2>3. ASSUME NEW a \in Actions PROVE Thrifty(a)'
      <3>1. Running(a)' = Running(a)
        BY <1>0, <2>1 DEF Running
      <3>2. CASE claim[a] # d
        <4>1. Spare(a)' => Spare(a)
          BY <1>0, <2>1, <3>2 DEF Spare
        <4>2. QED
          BY <1>0, <1>l, <2>1, <2>2, <3>1, <4>1, ThriftRests DEF Free
      <3>3. CASE claim[a] = d
        <4>1. call[d] = a /\ pc[d] = "ran" /\ a \notin aged /\ stamp # a
          BY <1>0, <1>l, <2>1, <3>3 DEF Ledgered
        <4>2. persistIdempotentResult(d, d)
          BY <1>0, <1>6, <4>1 DEF Commit, Tail, recordPostDispatchBookkeeping, Pinned, IdIn
        <4>3. rows'[a] # None
          BY <1>0, <2>1, <4>1, <4>2, Persisting DEF Refused
        <4>4. ~Free(a)'
          BY <2>2, <4>1, <4>3 DEF Free
        <4>5. QED
          BY <1>0, <1>l, <2>1, <3>1, <4>4, ThriftRests
      <3>4. QED
        BY <3>2, <3>3
    <2>4. QED
      BY <2>3 DEF Thrift
  <1>7. ASSUME NEW d \in Slots, Passing(d)
        PROVE  Thrift'
    <2>1. /\ UNCHANGED <<durable, call, claim, overdue, history>>
          /\ pc[d] \notin {"acting", "ran", "flush"} /\ pc'[d] \notin {"acting", "ran"}
          /\ \A e \in Slots \ {d} : pc'[e] = pc[e]
      BY <1>0, <1>7, PassingKeeps
    <2>2. ASSUME NEW a \in Actions PROVE Thrifty(a)'
      <3>1. Running(a)' = Running(a)
        BY <1>0, <2>1 DEF Running
      <3>2. Free(a)' => Free(a)
        BY <1>0, <1>l, <2>1 DEF Free, Spare, Ledgered, durable
      <3>3. QED
        BY <1>0, <1>l, <2>1, <3>1, <3>2, ThriftRests DEF durable, history
    <2>3. QED
      BY <2>2 DEF Thrift
  <1>8. ASSUME NEW b \in Actions, CeilingPasses(b)
        PROVE  Thrift'
    <2>1. /\ b \notin overdue /\ overdue' = overdue \union {b} /\ takeovers' = takeovers + 1
          /\ UNCHANGED <<durable, request, claim, lapsed, restarts>>
      BY <1>8 DEF CeilingPasses
    <2>2. ASSUME NEW a \in Actions PROVE Running(a)' = Running(a) /\ Free(a)' = Free(a) /\ applied'[a] = applied[a]
      BY <2>1 DEF Running, Free, Spare, durable, request
    <2>3. Thrifty(b)'
      <3>1. Spent(b)' = Spent(b) + 1 /\ Room(b)' = Room(b) + 1
        BY <1>0, <1>c, <2>1, <2>2 DEF Spent, Room, Lapses
      <3>2. Spent(b) \in Nat /\ Room(b) \in Nat
        BY <1>0, <1>c DEF Room, Spent
      <3>3. IsFiniteSet(Running(b)') /\ (Free(b)' => Free(b))
        BY <1>c, <2>2
      <3>4. QED
        BY <1>0, <1>l, <3>1, <3>2, <3>3, ThriftKeeps
    <2>4. ASSUME NEW a \in Actions, a # b PROVE Thrifty(a)'
      BY <1>0, <1>l, <2>1, <2>2, <2>4, ThriftRests
    <2>5. QED
      BY <2>3, <2>4 DEF Thrift
  <1>9. ASSUME NEW k \in Keyed, RetentionPasses(k)
        PROVE  Thrift'
    <2>1. /\ k \notin lapsed /\ aged' = aged \union {k} /\ lapsed' = lapsed \union {k}
          /\ UNCHANGED <<rows, applied, request, claim, overdue, restarts, takeovers>>
      BY <1>9 DEF RetentionPasses, instance
    <2>2. ASSUME NEW a \in Actions, a = k PROVE Thrifty(a)'
      <3>1. IsFiniteSet(Running(a)') /\ Spent(a)' = Spent(a) /\ Room(a)' = Room(a) + 1
        BY SMTT(30), <1>0, <1>c, <2>1, <2>2 DEF Spent, Room, Lapses, Running, request
      <3>2. Spent(a) \in Nat /\ Room(a) \in Nat
        BY <1>0, <1>c DEF Room, Spent
      <3>3. QED
        BY <1>0, <1>l, <3>1, <3>2, ThriftKeeps
    <2>3. ASSUME NEW a \in Actions, a # k PROVE Thrifty(a)'
      <3>1. Running(a)' = Running(a) /\ (Free(a)' => Free(a))
        BY <2>1, <2>3 DEF Running, Free, Spare, request
      <3>2. QED
        BY <1>0, <1>l, <2>1, <3>1, ThriftRests
    <2>4. QED
      BY <2>2, <2>3 DEF Thrift
  <1>10. CASE Restart
    <2>1. /\ restarts' = restarts + 1 /\ overdue' = {} /\ \A d \in Slots : pc'[d] = "idle"
          /\ UNCHANGED <<applied, lapsed, takeovers>>
      BY <1>10 DEF Restart, durable
    <2>2. ASSUME NEW a \in Actions PROVE Thrifty(a)'
      <3>1. Running(a)' = {} /\ IsFiniteSet(Running(a)') /\ Cardinality(Running(a)') = 0
        BY <2>1, FS_EmptySet DEF Running
      <3>2. Spent(a)' \in Nat /\ Room(a) \in Nat /\ Room(a)' = Room(a) + 1 /\ Spent(a) \in Nat /\ Spent(a)' <= Spent(a)
        BY <1>0, <1>c, <2>1, <3>1 DEF Spent, Room, Lapses
      <3>3. Spent(a)' + Room(a) <= Spent(a) + Room(a)' /\ Spent(a)' + Room(a) + 1 <= Spent(a) + Room(a)'
        BY <3>2
      <3>4. QED
        BY <1>0, <1>l, <3>1, <3>3, ThriftKeeps
    <2>3. QED
      BY <2>2 DEF Thrift
  <1>11. CASE UNCHANGED vars
    <2>1. UNCHANGED <<durable, request, instance, history>>
      BY <1>11 DEF vars
    <2>2. ASSUME NEW a \in Actions PROVE Running(a)' = Running(a) /\ Free(a)' = Free(a) /\ applied'[a] = applied[a]
      BY <2>1 DEF Running, Free, Spare, durable, request, instance
    <2>3. QED
      BY <1>0, <1>l, <2>1, <2>2, ThriftRests DEF Thrift, instance, history
  <1>12. QED
    BY <1>1, <1>2, <1>3, <1>4, <1>5, <1>6, <1>7, <1>8, <1>9, <1>10, <1>11
       DEF Next, Handle, Enter, Admit, Answer, Passing

(* Under the input gate an action completes again only after a restart, a    *)
(* takeover or the lapse of its receipt, once for each: between them neither *)
(* a failed run nor a late holder leaves room for one more.                  *)
THEOREM ActionsSparse == Host = "gate" /\ Spec => []ActionSparse
  <1> SUFFICES ASSUME Host = "gate" PROVE Spec => []ActionSparse
    OBVIOUS
  <1> DEFINE Held == IInv /\ Ledger /\ Thrift
  <1>1. Init => Held
    <2>1. Init => Ledger
      BY Kinds DEF Init, Ledger, Ledgered
    <2>2. ASSUME Init, NEW a \in Actions PROVE Thrifty(a)
      <3>1. Running(a) = {} /\ IsFiniteSet(Running(a)) /\ Cardinality(Running(a)) = 0
        BY <2>2, FS_EmptySet DEF Init, Running
      <3>2. applied[a] = 0 /\ overdue = {} /\ restarts = 0 /\ takeovers = 0 /\ lapsed = {}
        BY <2>2, Kinds DEF Init
      <3>3. QED
        BY <3>1, <3>2 DEF Thrifty, Spent, Room, Lapses
    <2>3. QED
      BY InitInv, <2>1, <2>2 DEF Thrift
  <1>2. Held /\ [Next]_vars => Held'
    BY LedgerStep, ThriftStep, TypeStep, LinkStep, ReceiptStep, EffectStep, PushStep DEF IInv
  <1>3. Held => ActionSparse
    <2> SUFFICES ASSUME Held, NEW a \in Actions PROVE applied[a] <= 1 + Lapses(a) + restarts + takeovers
      BY DEF ActionSparse
    <2>1. Cardinality(Running(a)) \in Nat /\ Thrifty(a)
      BY FS_CardinalityType DEF Thrift, Thrifty
    <2>2. applied[a] \in Nat /\ restarts \in Nat /\ takeovers \in Nat
      BY BoundsAssumption, Kinds DEF IInv, TypeOK
    <2>3. QED
      BY <2>1, <2>2 DEF Thrifty, Spent, Room, Lapses
  <1>4. QED
    BY <1>1, <1>2, <1>3, PTL DEF Spec

-----------------------------------------------------------------------------
(* The refinement.                                                           *)

Open == {w \in Promised : IF w \in Mutations THEN rows[w] = None ELSE w > watermark}
Count == [w \in Promised |-> applied[w]]
Heard == {w \in Promised : \E v \in Calls : <<w, v>> \in heard}

(* A step that closes at most the one write w, and for the rest collects     *)
(* receipts past their retention, opens nothing but forgettable writes.      *)
LEMMA Reopening ==
    ASSUME TypeOK, NEW w, w \notin Open',
           \A p \in Promised \ Mutations : p # w => (p > watermark' <=> p > watermark),
           \A m \in Mutations \ {w} : rows'[m] = rows[m] \/ (m \in aged /\ rows'[m] = None)
    PROVE  \E gone \in SUBSET (Aging \intersect Mutations) : Open' = (Open \ {w}) \union gone
  <1> USE Kinds
  <1> DEFINE gone == {m \in Mutations \ {w} : m \in aged /\ rows'[m] = None}
  <1>1. gone \in SUBSET (Aging \intersect Mutations)
    BY DEF TypeOK
  <1>2. \A v : v \in Open' <=> v \in Promised /\ IF v \in Mutations THEN rows'[v] = None ELSE v > watermark'
    BY DEF Open, Promised
  <1>3. \A v : v \in Open <=> v \in Promised /\ IF v \in Mutations THEN rows[v] = None ELSE v > watermark
    BY DEF Open
  <1>4. \A m \in Mutations : m # w => m \in Promised /\ (rows'[m] = None <=> rows[m] = None \/ m \in gone)
    BY DEF Promised
  <1>5. \A v : v # w => (v \in Open' <=> v \in Open \/ v \in gone)
    <2> SUFFICES ASSUME NEW v, v # w PROVE v \in Open' <=> v \in Open \/ v \in gone
      OBVIOUS
    <2>1. CASE v \in Mutations
      BY <1>2, <1>3, <1>4, <2>1
    <2>2. CASE v \notin Mutations
      BY <1>2, <1>3, <2>2
    <2>3. QED
      BY <2>1, <2>2
  <1>6. w \notin gone
    OBVIOUS
  <1>7. Open' = (Open \ {w}) \union gone
    <2>1. \A v : v \in Open' <=> v \in (Open \ {w}) \union gone
      BY <1>5, <1>6
    <2>2. QED
      BY <2>1
  <1>8. QED
    BY <1>1, <1>7

(* At the start every write is open, and nobody has heard of one.            *)
LEMMA InitPromise == Init => Promise!Init
  <1> USE Kinds
  <1> SUFFICES ASSUME Init PROVE Promise!Init
    OBVIOUS
  <1>1. \A p \in Pushes : p > watermark
    BY DEF Init, Pushes
  <1>2. \A w \in Promised : w \in Mutations \/ w \in Pushes
    BY DEF Promised
  <1>3. Open = Promised
    BY <1>1, <1>2 DEF Init, Open
  <1>4. Count = [w \in Promised |-> 0]
    BY <1>2 DEF Init, Count
  <1>5. Heard = {}
    BY DEF Init, Heard
  <1>6. QED
    BY <1>3, <1>4, <1>5 DEF Promise!Init, Open, Count, Heard

(* A commit is the application of its write; a push under a lock is none of  *)
(* those promised, and its commit may only collect receipts.                 *)
LEMMA CommitPromise ==
    ASSUME IInv, NEW d \in Slots, Commit(d)
    PROVE  Promise!Next
  <1> USE Kinds
  <1> DEFINE w == call[d]
  <1>1. /\ pc[d] = "running" /\ w \in Calls /\ w \notin Actions /\ applied \in [Calls -> Nat]
        /\ applied' = [applied EXCEPT ![w] = @ + 1] /\ heard' = heard /\ watermark \in Nat
        /\ persistIdempotentResult(d, d) /\ advanceClientMutationWatermark(d, d)
    BY BoundsAssumption DEF Commit, Pinned, history, IInv, TypeOK, Linked
  <1>2. ~Refused(d)
    BY <1>1, NotRefused DEF IInv
  <1>3. \A k \in Keyed : \/ rows'[k] = rows[k]
                         \/ k = w /\ rows[k] = None /\ rows'[k] = k
                         \/ k \in aged /\ rows'[k] = None
    BY <1>1, Collecting DEF IInv, Receipts
  <1>4. \/ watermark' = watermark
        \/ watermark' = w /\ w = watermark + 1 /\ class[d] = "next" /\ w \in Pushes
    BY <1>1, Advancing DEF IInv, PushInv
  <1>5. Heard' = Heard
    BY <1>1 DEF Heard, Promised
  <1>6. CASE w \in Promised
    <2>1. w \in Open
      <3>1. CASE w \in Mutations
        BY <1>1, <1>6, <3>1 DEF Open, IInv, Receipts, Fresh
      <3>2. CASE w \notin Mutations
        <4>1. w \in Pushes /\ Host = "gate"
          BY <1>6, <3>2 DEF Promised
        <4>2. w = watermark + 1
          BY <1>1, <4>1 DEF IInv, PushInv, GatePush, Waiting
        <4>3. QED
          BY <1>1, <1>6, <3>2, <4>2 DEF Open
      <3>3. QED
        BY <3>1, <3>2
    <2>2. w \notin Open'
      <3>1. CASE w \in Mutations
        <4>1. rows[w] = None /\ w \notin aged
          BY <1>1, <3>1 DEF IInv, Receipts, Fresh, AgedKept
        <4>2. rows'[w] # None
          BY <1>1, <1>2, <3>1, <4>1, Persisting DEF IInv
        <4>3. QED
          BY <3>1, <4>2 DEF Open
      <3>2. CASE w \notin Mutations
        <4>1. w \in Pushes /\ Host = "gate"
          BY <1>6, <3>2 DEF Promised
        <4>2. class[d] = "next" /\ w \in Nat
          BY <1>1, <4>1 DEF IInv, PushInv, GatePush, Waiting
        <4>3. w <= watermark' /\ watermark' \in Nat
          BY <1>1, <1>2, <4>2, Advancing, BoundsAssumption DEF IInv, PushInv
        <4>4. QED
          BY <3>2, <4>2, <4>3 DEF Open
      <3>3. QED
        BY <3>1, <3>2
    <2>3. \A p \in Promised \ Mutations : p # w => (p > watermark' <=> p > watermark)
      BY <1>1, <1>4 DEF Promised
    <2>4. \E gone \in SUBSET (Aging \intersect Mutations) : Open' = (Open \ {w}) \union gone
      BY <1>3, <2>2, <2>3, Reopening DEF IInv
    <2>5. Count' = [Count EXCEPT ![w] = @ + 1]
      BY <1>1, <1>6 DEF Count, Promised
    <2>6. PICK u \in Promised : u = w
      BY <1>6
    <2>7. Promise!Apply(u)
      BY <1>5, <2>1, <2>4, <2>5, <2>6 DEF Promise!Apply, Promise!Reopened, Open, Count, Heard
    <2>8. QED
      BY <2>7 DEF Promise!Next
  <1>7. CASE w \notin Promised
    <2>1. w \in Pushes /\ Promised = Mutations
      BY <1>1, <1>7 DEF Promised
    <2>2. \E gone \in SUBSET (Aging \intersect Mutations) : Open' = (Open \ {w}) \union gone
      <3>1. w \notin Open'
        BY <1>7 DEF Open, Promised
      <3>2. QED
        BY <1>3, <2>1, <3>1, Reopening DEF IInv
    <2>3. Open \ {w} = Open
      BY <1>7 DEF Open
    <2>4. Count' = Count
      BY <1>1, <1>7 DEF Count, Promised
    <2>5. Promise!Forget
      BY <1>5, <2>2, <2>3, <2>4 DEF Promise!Forget, Promise!Reopened, Open, Count, Heard
    <2>6. QED
      BY <2>5 DEF Promise!Next
  <1>8. QED
    BY <1>6, <1>7

(* A tail closes nothing that was open: what it books was booked before.     *)
LEMMA TailPromise ==
    ASSUME IInv, NEW d \in Slots, Tail(d)
    PROVE  Promise!Next
  <1> USE Kinds
  <1> DEFINE w == call[d]
  <1>1. /\ pc[d] = "ran" /\ w \in Calls /\ UNCHANGED <<applied, heard>> /\ watermark \in Nat
        /\ (UNCHANGED <<rows, aged>> \/ persistIdempotentResult(d, d)) /\ advanceClientMutationWatermark(d, d)
    BY BoundsAssumption DEF Tail, recordPostDispatchBookkeeping, Pinned, history, IInv, TypeOK
  <1>2. \A k \in Keyed : \/ rows'[k] = rows[k]
                         \/ k = w /\ rows[k] = None
                         \/ k \in aged /\ rows'[k] = None
    BY <1>1, Collecting DEF IInv, Receipts
  <1>3. \A m \in Mutations : rows'[m] = rows[m] \/ (m \in aged /\ rows'[m] = None)
    BY <1>1, <1>2 DEF IInv, Receipts, Kept
  <1>4. Host = "gate" => watermark' = watermark
    <2>1. \/ watermark' = watermark
          \/ watermark' = w /\ w = watermark + 1 /\ class[d] = "next" /\ w \in Pushes
      BY <1>1, Advancing DEF IInv, PushInv
    <2>2. Host = "gate" /\ w \in Pushes => w <= watermark
      BY <1>1 DEF IInv, PushInv, GatePush
    <2>3. QED
      BY <1>1, <2>1, <2>2
  <1>5. \A p \in Promised \ Mutations : watermark' = watermark
    BY <1>4 DEF Promised
  <1>6. \E gone \in SUBSET (Aging \intersect Mutations) : Open' = Open \union gone
    <2>1. None \notin Open' /\ None \notin Open /\ Open \ {None} = Open
      BY DEF Open, Promised
    <2>2. \E gone \in SUBSET (Aging \intersect Mutations) : Open' = (Open \ {None}) \union gone
      BY <1>3, <1>5, <2>1, Reopening DEF IInv
    <2>3. QED
      BY <2>1, <2>2
  <1>7. Count' = Count /\ Heard' = Heard
    BY <1>1 DEF Count, Heard, Promised
  <1>8. Promise!Forget
    BY <1>6, <1>7 DEF Promise!Forget, Promise!Reopened, Open, Count, Heard
  <1>9. QED
    BY <1>8 DEF Promise!Next

(* Success is told of writes that took effect.                               *)
LEMMA AnswerPromise ==
    ASSUME IInv, NEW c \in Calls, NEW v \in Calls, UNCHANGED <<rows, watermark, applied>>,
           heard' = heard \union {<<c, v>>}, applied[c] > 0
    PROVE  Promise!Next
  <1>1. Open' = Open /\ Count' = Count
    BY DEF Open, Count, Promised
  <1>2. Heard' = Heard \union ({c} \intersect Promised)
    BY DEF Heard, Promised
  <1>3. {c} \intersect Promised \in SUBSET {w \in Promised : Count[w] > 0}
    BY DEF Count
  <1>4. Promise!Answer
    BY <1>1, <1>2, <1>3 DEF Promise!Answer, Open, Count, Heard
  <1>5. QED
    BY <1>4 DEF Promise!Next

(* Every step is one of the promise, or none.                                *)
LEMMA StepPromise ==
    ASSUME IInv, [Next]_vars
    PROVE  [Promise!Next]_(Promise!vars)
  <1> USE Kinds
  <1>0. /\ applied \in [Calls -> Nat] /\ result \in [Slots -> Calls \union {None}]
        /\ \A d \in Slots : pc[d] = "acting" => call[d] \in Actions
        /\ \A d \in Slots : pc[d] # "idle" => call[d] \in Calls
    BY DEF IInv, TypeOK, Linked
  <1>1. CASE UNCHANGED <<rows, watermark, applied, heard>>
    <2>1. Open' = Open /\ Count' = Count /\ Heard' = Heard
      BY <1>1 DEF Open, Count, Heard, Promised
    <2>2. QED
      BY <2>1 DEF Promise!vars, Open, Count, Heard
  <1>2. ASSUME NEW d \in Slots, Acts(d)
        PROVE  [Promise!Next]_(Promise!vars)
    <2>1. /\ call[d] \in Actions /\ applied' = [applied EXCEPT ![call[d]] = @ + 1]
          /\ UNCHANGED <<rows, watermark, heard>>
      BY <1>0, <1>2 DEF Acts, history
    <2>2. \A w \in Promised : applied'[w] = applied[w]
      BY <1>0, <2>1 DEF Promised
    <2>3. Open' = Open /\ Count' = Count /\ Heard' = Heard
      BY <2>1, <2>2 DEF Open, Count, Heard, Promised
    <2>4. QED
      BY <2>3 DEF Promise!vars, Open, Count, Heard
  <1>3. ASSUME NEW d \in Slots, End(d)
        PROVE  [Promise!Next]_(Promise!vars)
    <2>1. /\ call[d] \in Calls /\ UNCHANGED <<rows, watermark, applied>>
          /\ heard' = IF result[d] = None THEN heard ELSE heard \union {<<call[d], result[d]>>}
      BY <1>0, <1>3 DEF End, durable
    <2>2. result[d] # None => applied[call[d]] > 0 /\ result[d] \in Calls
      BY <1>0 DEF IInv, Effective
    <2>3. QED
      BY <1>1, <2>1, <2>2, AnswerPromise
  <1>4. ASSUME NEW d \in Slots, NEW c \in Calls, rejectNonNextMutation(d, c)
        PROVE  [Promise!Next]_(Promise!vars)
    <2>1. classifyClientMutation(d, c) = "already" => c \in Pushes /\ c <= watermark
      BY DEF classifyClientMutation
    <2>2. /\ UNCHANGED <<rows, watermark, applied>>
          /\ heard' = heard \/ (heard' = heard \union {<<c, c>>} /\ applied[c] > 0)
      BY <1>4, <2>1 DEF rejectNonNextMutation, durable, IInv, PushInv, Accounted
    <2>3. QED
      BY <1>1, <2>2, AnswerPromise
  <1>5. ASSUME NEW d \in Slots, Handle(d)
        PROVE  Commit(d) \/ Tail(d) \/ Acts(d) \/ End(d) \/ UNCHANGED <<rows, watermark, applied, heard>>
    BY <1>5 DEF Handle, Enter, Admit, Answer, EnterGated, EnterCached, EnterDeclined, EnterClaims,
                AdmitCached, AdmitRuns, Throws, respondFromIdempotencyCache, durable, history
  <1>6. ASSUME NEW d \in Slots, NEW c \in Calls, Arrive(d, c)
        PROVE  rejectNonNextMutation(d, c) \/ UNCHANGED <<rows, watermark, applied, heard>>
    BY <1>6 DEF Arrive, beginDispatch, durable, history
  <1>7. QED
    BY <1>1, <1>2, <1>3, <1>4, <1>5, <1>6, CommitPromise, TailPromise
       DEF Next, CeilingPasses, RetentionPasses, Restart, vars, durable, history

(* The shard implements WriteOnce for its mutations, and under the input     *)
(* gate for its pushes: each is applied only while it is open and closed by  *)
(* that very step, and success is told only of what was applied.             *)
THEOREM Implements == Spec => KeepsPromise
  <1>1. IInv /\ [Next]_vars => [Promise!Next]_(Promise!vars)
    BY StepPromise
  <1>2. QED
    BY <1>1, InitPromise, Invariance, PTL DEF Spec, KeepsPromise, Promise!Spec
=============================================================================
