------------------------ MODULE OfflineReplayPromise ------------------------
(* The client and the shard keep WriteOnce end to end; and every variable    *)
(* keeps to its values, for which an entry whose sends are counted must be   *)
(* in one place only, or a write could be tried more often than is allowed.  *)
EXTENDS OfflineReplayProofs

\* The key of an issued write, under the client that issued it: the only one it ever has.
Known(k) == k[2] \in Issued /\ k = KeyOf(k[2])

\* The shard applies an id once, and it is the id of an issued write; whoever heard of a
\* commit, or is about to, heard the truth.
Counted ==
    /\ session \in Sessions /\ client \in [Writes -> Sessions]
    /\ count \in [Keys -> Nat] /\ open \subseteq Keys
    /\ \A k \in Keys : count[k] = IF k \in open THEN 0 ELSE 1
    /\ \A k \in Keys : k \notin open => Known(k)
    /\ stray \subseteq Keys /\ \A k \in stray : Known(k)
    /\ \A w \in Writes : pc[w] = "landed" => KeyOf(w) \notin open
    /\ \A i \in DOMAIN slots : slots[i] = "committed" => KeyOf(chunk[i].w) \notin open
    /\ \A w \in Writes : <<w, "committed">> \in told => KeyOf(w) \notin open

\* The id of a write is one the shard may know.
LEMMA KeyTyped == ASSUME Counted, NEW w \in Writes PROVE KeyOf(w) \in Keys
  BY DEF Counted, KeyOf, Keys

\* The id of an issued write is known.
LEMMA KnownKey == ASSUME NEW w \in Issued PROVE Known(KeyOf(w))
  BY DEF Known, KeyOf

\* What a step may do to the shard, and to what is known about it.
Learns ==
    /\ session' \in Sessions /\ client' \in [Writes -> Sessions]
    /\ Issued \subseteq Issued' /\ \A w \in Issued : client'[w] = client[w]
    /\ \A k \in stray' : k \in stray \/ \E w \in Issued : k = KeyOf(w)
    /\ \A w \in Writes : pc'[w] = "landed" => pc[w] = "landed" \/ (w \in Issued /\ KeyOf(w) \notin open')
    /\ \A i \in DOMAIN slots' : slots'[i] = "committed" =>
          chunk'[i].w \in Issued /\ KeyOf(chunk'[i].w) \notin open'
    /\ \A w \in Writes : <<w, "committed">> \in told' =>
          <<w, "committed">> \in told \/ (w \in Issued /\ KeyOf(w) \notin open')
    /\ \/ UNCHANGED shard /\ told \subseteq told'
       \/ \E k \in Keys : Known(k) /\ Shard!Apply(k) /\ UNCHANGED told

\* To apply an id is to count it and to close it.
LEMMA ApplyTakes ==
    ASSUME NEW k, Shard!Apply(k)
    PROVE  k \in open /\ open' = open \ {k} /\ count' = [count EXCEPT ![k] = @ + 1]
  BY DEF Shard!Apply, Shard!Reopened

\* Issued writes keep their ids, known ids stay known, closed ids stay closed.
LEMMA KeysStay ==
    ASSUME Counted, Learns
    PROVE  /\ \A w \in Issued : KeyOf(w)' = KeyOf(w)
           /\ \A k : Known(k) => Known(k)'
           /\ open' \subseteq open
           /\ \A w \in Writes : KeyOf(w) \notin open => w \in Issued
<1>1. \A w \in Issued : KeyOf(w)' = KeyOf(w)
  BY DEF Learns, KeyOf
<1>2. \A k : Known(k) => Known(k)'
  BY <1>1 DEF Learns, Known
<1>3. open' \subseteq open
  BY ApplyTakes DEF Learns, shard
<1>4. ASSUME NEW w \in Writes, KeyOf(w) \notin open PROVE w \in Issued
  BY <1>4, KeyTyped DEF Counted, Known, KeyOf
<1> QED
  BY <1>1, <1>2, <1>3, <1>4

\* Applied ids are counted once, and are known.
ShardSound ==
    /\ count \in [Keys -> Nat] /\ open \subseteq Keys
    /\ \A k \in Keys : count[k] = IF k \in open THEN 0 ELSE 1
    /\ \A k \in Keys : k \notin open => Known(k)

\* The shard counts every id once, and only ids that are known.
LEMMA ShardSoundKept == ASSUME Counted, Learns PROVE ShardSound'
<1>1. \A k : Known(k) => Known(k)'
  BY KeysStay
<1>2. CASE UNCHANGED shard
  BY <1>1, <1>2 DEF Counted, ShardSound, shard
<1>3. ASSUME NEW k \in Keys, Known(k), Shard!Apply(k) PROVE ShardSound'
  <2>1. k \in open /\ open' = open \ {k} /\ count' = [count EXCEPT ![k] = @ + 1]
    BY <1>3, ApplyTakes
  <2>2. count' \in [Keys -> Nat] /\ open' \subseteq Keys
    BY <2>1 DEF Counted
  <2>3. \A j \in Keys : count'[j] = IF j \in open' THEN 0 ELSE 1
    BY <2>1 DEF Counted
  <2>4. \A j \in Keys : j \notin open' => Known(j)
    BY <1>3, <2>1 DEF Counted
  <2> QED
    BY <1>1, <2>2, <2>3, <2>4 DEF ShardSound
<1> QED
  BY <1>2, <1>3 DEF Learns

\* Such a step keeps what is known about the shard.
LEMMA CountedKept == ASSUME Counted, Learns PROVE Counted'
<1>1. /\ \A w \in Issued : KeyOf(w)' = KeyOf(w)
      /\ \A k : Known(k) => Known(k)'
      /\ open' \subseteq open
      /\ \A w \in Writes : KeyOf(w) \notin open => w \in Issued
  BY KeysStay
<1>2. stray' \subseteq Keys /\ \A k \in stray' : Known(k)'
  <2> SUFFICES ASSUME NEW k \in stray' PROVE k \in Keys /\ Known(k)'
    OBVIOUS
  <2>1. CASE k \in stray
    BY <1>1, <2>1 DEF Counted
  <2>2. ASSUME NEW w \in Issued, k = KeyOf(w) PROVE k \in Keys /\ Known(k)'
    <3>1. w \in Writes
      BY DEF Issued
    <3> QED
      BY <1>1, <2>2, <3>1, KeyTyped, KnownKey
  <2> QED
    BY <2>1, <2>2 DEF Learns
<1>3. \A w \in Writes : pc'[w] = "landed" => KeyOf(w)' \notin open'
  BY <1>1 DEF Counted, Learns
<1>4. \A i \in DOMAIN slots' : slots'[i] = "committed" => KeyOf(chunk[i].w)' \notin open'
  <2>1. ASSUME NEW w \in Issued, KeyOf(w) \notin open' PROVE KeyOf(w)' \notin open'
    BY <1>1, <2>1
  <2>2. \A w : KeyOf(w)' = <<client'[w], w>> /\ KeyOf(w) = <<client[w], w>>
    BY DEF KeyOf
  <2> QED
    BY <1>1, <2>1, <2>2 DEF Learns, KeyOf
<1>5. \A w \in Writes : <<w, "committed">> \in told' => KeyOf(w)' \notin open'
  BY <1>1 DEF Counted, Learns
<1> QED
  BY <1>2, <1>3, <1>4, <1>5, ShardSoundKept DEF Counted, Learns, ShardSound

-----------------------------------------------------------------------------

\* Issued writes keep their client.
Keeps == client' \in [Writes -> Sessions] /\ \A w \in Issued : client'[w] = client[w]

\* A step that issues nothing keeps the clients of the writes.
LEMMA SameClient == Counted /\ UNCHANGED client => Keeps
  BY DEF Counted, Keeps

\* No step of the page makes a write new again, and Turn lands none.
LEMMA TurnLearns ==
    ASSUME IInv, Memory, Counted,
           NEW q, NEW verdicts, NEW queued, NEW fresh, Turn(q, verdicts, queued, fresh),
           \A w \in Writes : <<w, "committed">> \in verdicts => KeyOf(w) \notin open,
           UNCHANGED <<shard, session>>, Keeps,
           \A k \in stray' : k \in stray \/ \E w \in Issued : k = KeyOf(w),
           slots' = <<>> \/ UNCHANGED <<slots, chunk>>
    PROVE  Learns
<1>1. Issued \subseteq Issued' /\ \A w \in Writes : pc'[w] = "landed" => pc[w] = "landed"
  BY DEF Turn, Issued, IInv, Passes
<1>2. told' = told \union verdicts
  BY DEF Turn
<1>3. \A w \in Writes : KeyOf(w) \notin open => w \in Issued
  BY KeyTyped DEF Counted, Known, KeyOf
<1>4. ASSUME NEW i \in DOMAIN slots', slots'[i] = "committed"
      PROVE  chunk'[i].w \in Issued /\ KeyOf(chunk'[i].w) \notin open'
  <2>1. slots' = slots /\ chunk' = chunk
    BY <1>4
  <2>2. i \in DOMAIN chunk
    BY <1>4, <2>1 DEF Memory
  <2>3. chunk[i].w \in Issued
    BY <2>2 DEF Memory, InMemory, WritesOf
  <2> QED
    BY <1>4, <2>1, <2>3 DEF Counted, shard
<1>5. \A w \in Writes : <<w, "committed">> \in told' =>
        <<w, "committed">> \in told \/ (w \in Issued /\ KeyOf(w) \notin open')
  BY <1>2, <1>3 DEF shard
<1> QED
  BY <1>1, <1>2, <1>4, <1>5 DEF Learns, Counted, Keeps

\* A new entry, or an eviction, reports no commit.
LEMMA EnqueueLearns ==
    ASSUME IInv, Memory, Counted, NEW w \in Writes, NEW kind \in Kinds, enqueue(Entry(w, kind)),
           UNCHANGED <<shard, session, pass>>, Keeps,
           \A k \in stray' : k \in stray \/ \E v \in Issued : k = KeyOf(v)
    PROVE  Learns
<1>1. PICK q, n, queued, fresh : Turn(q, {<<Inserted(items, Entry(w, kind))[i].w, "evicted">> : i \in 1..n}, queued, fresh)
  BY DEF enqueue, TurnCapped
<1> DEFINE verdicts == {<<Inserted(items, Entry(w, kind))[i].w, "evicted">> : i \in 1..n}
<1>2. \A v \in Writes : <<v, "committed">> \notin verdicts
  OBVIOUS
<1> HIDE DEF verdicts
<1> QED
  BY <1>1, <1>2, TurnLearns DEF pass, verdicts

\* A step that leaves the shard, the batch and the verdicts alone, and lands no write.
LEMMA QuietLearns ==
    ASSUME IInv, Memory, Counted, Keeps, UNCHANGED <<shard, session, pass>>, told \subseteq told',
           \A w \in Writes : <<w, "committed">> \in told' => <<w, "committed">> \in told,
           Issued \subseteq Issued', \A w \in Writes : pc'[w] = "landed" => pc[w] = "landed",
           \A k \in stray' : k \in stray \/ \E w \in Issued : k = KeyOf(w)
    PROVE  Learns
<1>1. ASSUME NEW i \in DOMAIN slots', slots'[i] = "committed"
      PROVE  chunk'[i].w \in Issued /\ KeyOf(chunk'[i].w) \notin open'
  <2>1. slots' = slots /\ chunk' = chunk /\ open' = open
    BY DEF pass, shard
  <2>2. chunk[i].w \in Issued
    BY <1>1, <2>1 DEF Memory, InMemory, WritesOf
  <2> QED
    BY <1>1, <2>1, <2>2 DEF Counted
<1> QED
  BY <1>1 DEF Learns, Counted, Keeps

\* A write is queued, or sent and not yet landed.
LEMMA RouteLearns ==
    ASSUME IInv, Memory, Counted, Keeps, NEW w \in Writes, Route(w),
           UNCHANGED <<shard, session, pass, stray>>
    PROVE  Learns
<1>1. CASE GoesToQueue
  BY <1>1, EnqueueLearns DEF Route, Kinds
<1>2. CASE ~GoesToQueue
  <2>1. pc' = [pc EXCEPT ![w] = "sent"] /\ UNCHANGED told
    BY <1>2 DEF Route
  <2>2. Issued \subseteq Issued' /\ \A v \in Writes : pc'[v] = "landed" => pc[v] = "landed"
    BY <2>1 DEF Issued, IInv, Passes
  <2> QED
    BY <2>1, <2>2, QuietLearns
<1> QED
  BY <1>1, <1>2

\* A new write gets the session that issues it for ever.
LEMMA IssueLearns ==
    ASSUME IInv, Memory, Counted, Issue PROVE Learns
<1> DEFINE fresh == {v \in Writes : pc[v] = "new"}
           x == Min(fresh)
<1>1. x \in fresh
  BY OldestIsOne DEF Issue
<1>2. x \in Writes /\ pc[x] = "new"
  BY <1>1
<1>3. /\ client' = [client EXCEPT ![x] = session]
      /\ \/ pc' = [pc EXCEPT ![x] = "waiting"] /\ UNCHANGED told
         \/ Route(x)
      /\ UNCHANGED <<shard, session, pass, stray>>
  BY DEF Issue
<1> HIDE DEF x
<1>4. Keeps
  BY <1>2, <1>3 DEF Keeps, Issued, Counted
<1>5. CASE pc' = [pc EXCEPT ![x] = "waiting"] /\ UNCHANGED told
  <2>1. Issued \subseteq Issued' /\ \A v \in Writes : pc'[v] = "landed" => pc[v] = "landed"
    BY <1>5 DEF Issued, IInv, Passes
  <2> QED
    BY <1>3, <1>4, <1>5, <2>1, QuietLearns
<1>6. CASE Route(x)
  BY <1>2, <1>3, <1>4, <1>6, RouteLearns
<1> QED
  BY <1>3, <1>5, <1>6

\* A write that has waited is routed under the id it was issued with.
LEMMA ResumeLearns ==
    ASSUME IInv, Memory, Counted, Resume PROVE Learns
<1> DEFINE x == Min(Ready)
<1>1. x \in Ready
  BY OldestIsOne DEF Resume, Ready
<1>2. x \in Writes /\ Route(x) /\ UNCHANGED <<shard, session, client, pass, stray>>
  BY <1>1 DEF Resume, Ready
<1> HIDE DEF x
<1> QED
  BY <1>2, RouteLearns, SameClient

\* A direct send applies its own id, and its answer reports what landed.
LEMMA DirectLearns ==
    ASSUME IInv, Memory, Counted, NEW w \in Writes, Direct(w) \/ DirectFails(w)
    PROVE  Learns
<1>1. UNCHANGED <<session, client, pass>> /\ pc[w] \in {"sent", "landed"} /\ w \in Issued
  BY DEF Direct, DirectLands, DirectAnswered, DirectRefused, DirectFails, sending, Issued
<1>2. Keeps
  BY <1>1, SameClient
<1>3. CASE DirectLands(w)
  <2>1. /\ pc' = [pc EXCEPT ![w] = "landed"] /\ Shard!Apply(KeyOf(w)) /\ UNCHANGED <<told, stray>>
    BY <1>3 DEF DirectLands
  <2>2. KeyOf(w) \in Keys /\ Known(KeyOf(w)) /\ KeyOf(w) \notin open' /\ open' \subseteq open
    BY <1>1, <2>1, KeyTyped, KnownKey, ApplyTakes
  <2>3. Issued \subseteq Issued' /\ \A v \in Writes : pc'[v] = "landed" => pc[v] = "landed" \/ v = w
    BY <2>1 DEF Issued, IInv, Passes
  <2>4. ASSUME NEW i \in DOMAIN slots', slots'[i] = "committed"
        PROVE  chunk'[i].w \in Issued /\ KeyOf(chunk'[i].w) \notin open'
    <3>1. slots' = slots /\ chunk' = chunk
      BY <1>1 DEF pass
    <3>2. chunk[i].w \in Issued
      BY <2>4, <3>1 DEF Memory, InMemory, WritesOf
    <3> QED
      BY <2>2, <2>4, <3>1, <3>2 DEF Counted
  <2> QED
    BY <1>1, <1>2, <2>1, <2>2, <2>3, <2>4 DEF Learns, Keeps, Counted
<1>4. CASE DirectAnswered(w)
  <2>1. /\ pc[w] = "landed" /\ pc' = [pc EXCEPT ![w] = "done"]
        /\ told' = told \union {<<w, "committed">>} /\ UNCHANGED <<shard, stray>>
    BY <1>4 DEF DirectAnswered
  <2>2. KeyOf(w) \notin open
    BY <2>1 DEF Counted
  <2>3. Issued \subseteq Issued' /\ \A v \in Writes : pc'[v] = "landed" => pc[v] = "landed"
    BY <2>1 DEF Issued, IInv, Passes
  <2>4. ASSUME NEW i \in DOMAIN slots', slots'[i] = "committed"
        PROVE  chunk'[i].w \in Issued /\ KeyOf(chunk'[i].w) \notin open'
    <3>1. slots' = slots /\ chunk' = chunk /\ open' = open
      BY <1>1, <2>1 DEF pass, shard
    <3>2. chunk[i].w \in Issued
      BY <2>4, <3>1 DEF Memory, InMemory, WritesOf
    <3> QED
      BY <2>4, <3>1, <3>2 DEF Counted
  <2>5. \A v \in Writes : <<v, "committed">> \in told' => <<v, "committed">> \in told \/ v = w
    BY <2>1
  <2> QED
    BY <1>1, <1>2, <2>1, <2>2, <2>3, <2>4, <2>5 DEF Learns, Keeps, Counted, shard
<1>5. ASSUME NEW outcome \in {"refused", "failed"},
             pc' = [pc EXCEPT ![w] = "done"], told' = told \union {<<w, outcome>>}, UNCHANGED shard,
             \A k \in stray' : k \in stray \/ \E v \in Issued : k = KeyOf(v)
      PROVE  Learns
  <2>1. Issued \subseteq Issued' /\ \A v \in Writes : pc'[v] = "landed" => pc[v] = "landed"
    BY <1>5 DEF Issued, IInv, Passes
  <2>2. \A v \in Writes : <<v, "committed">> \in told' => <<v, "committed">> \in told
    BY <1>5
  <2> QED
    BY <1>1, <1>2, <1>5, <2>1, <2>2, QuietLearns
<1>6. CASE DirectRefused(w)
  BY <1>5, <1>6 DEF DirectRefused
<1>7. CASE DirectFails(w)
  <2>1. UNCHANGED shard /\ \A k \in stray' : k \in stray \/ \E v \in Issued : k = KeyOf(v)
    BY <1>1, <1>7 DEF DirectFails
  <2>2. \/ enqueue(Entry(w, "ambiguous"))
        \/ pc' = [pc EXCEPT ![w] = "done"] /\ told' = told \union {<<w, "failed">>}
    BY <1>7 DEF DirectFails, RetriesLater
  <2> QED
    BY <1>1, <1>2, <1>5, <2>1, <2>2, EnqueueLearns DEF Kinds
<1> QED
  BY <1>3, <1>4, <1>6, <1>7 DEF Direct

\* A drain reports only the stale, and asks nothing of the shard yet.
LEMMA DrainLearns ==
    ASSUME IInv, Memory, Counted, DrainHolds \/ DrainSends PROVE Learns
<1>1. \E q, stale : Drops(q, stale)
  BY DEF DrainHolds, DrainSends
<1>2. PICK q, stale : Turn(q, {<<e.w, "stale">> : e \in stale}, {}, {})
  BY <1>1 DEF Drops
<1> DEFINE verdicts == {<<e.w, "stale">> : e \in stale}
<1>3. \A w \in Writes : <<w, "committed">> \notin verdicts
  OBVIOUS
<1> HIDE DEF verdicts
<1>4. UNCHANGED <<shard, session, client, stray>> /\ (slots' = <<>> \/ UNCHANGED <<slots, chunk>>)
  BY DEF DrainHolds, DrainSends, SendsOf, pass
<1> QED
  BY <1>2, <1>3, <1>4, TurnLearns, SameClient DEF verdicts

\* The next batch has no verdicts.
LEMMA GoesOnEmpties == GoesOn => slots' = <<>>
  BY DEF GoesOn, SendsOf

\* A refused batch reports no commit.
LEMMA WholeRefusedLearns ==
    ASSUME IInv, Memory, Counted, WholeRefused PROVE Learns
<1> DEFINE verdicts == {<<e.w, "refused">> : e \in Range(chunk)}
<1>1. Turn(items, verdicts, {}, {}) /\ slots' = <<>> /\ UNCHANGED <<shard, session, client, stray>>
  BY GoesOnEmpties DEF WholeRefused
<1>2. \A w \in Writes : <<w, "committed">> \notin verdicts
  OBVIOUS
<1> HIDE DEF verdicts
<1> QED
  BY <1>1, <1>2, TurnLearns, SameClient

\* What is in a batch has been issued.
LEMMA ChunkIssued == ASSUME Memory, NEW i \in DOMAIN chunk PROVE chunk[i].w \in Issued
  BY DEF Memory, InMemory, WritesOf

\* The verdicts of a batch are the shard's, the client's own are none of success.
LEMMA ReplyLearns ==
    ASSUME IInv, Memory, Counted, NEW unread, NEW counted, Reply(unread, counted)
    PROVE  Learns
<1> DEFINE verdict(i) == IF i > Len(slots) \/ i \in unread THEN "unanswered" ELSE slots[i]
           tried == {i \in DOMAIN chunk : verdict(i) = "unanswered" /\ chunk[i].kind = "ambiguous" /\ counted}
           spent == {i \in tried : LastAttempt(chunk[i].w)}
           again == {i \in DOMAIN chunk : verdict(i) \in {"throttled", "unanswered"}} \ spent
           kept == Within(chunk, {chunk[i] : i \in again})
           settled == {<<chunk[i].w, verdict(i)>> : i \in {j \in DOMAIN chunk : verdict(j) \in {"committed", "refused"}}}
           given_up == {<<chunk[i].w, "gaveup">> : i \in spent}
           verdicts == settled \union given_up
<1>1. \/ Turn(kept \o rest \o items, verdicts, {}, {}) /\ slots' = <<>>
      \/ Turn(items, verdicts, {}, {}) /\ GoesOn
  BY DEF Reply
<1>2. /\ stray' = stray \union {KeyOf(chunk[i].w) : i \in Len(slots) + 1 .. Len(chunk)}
      /\ UNCHANGED <<shard, session, client>>
  BY DEF Reply
<1>3. ASSUME NEW w \in Writes, <<w, "committed">> \in verdicts PROVE KeyOf(w) \notin open
  <2>1. <<w, "committed">> \in settled
    BY <1>3
  <2>2. PICK i \in DOMAIN chunk : w = chunk[i].w /\ verdict(i) = "committed"
    BY <2>1
  <2>3. i \in DOMAIN slots /\ slots[i] = "committed"
    BY <2>2 DEF Memory
  <2> QED
    BY <2>2, <2>3 DEF Counted
<1>4. \A k \in stray' : k \in stray \/ \E w \in Issued : k = KeyOf(w)
  <2>1. \A i \in Len(slots) + 1 .. Len(chunk) : i \in DOMAIN chunk
    BY DEF Memory
  <2> QED
    BY <1>2, <2>1, ChunkIssued
<1> DEFINE q == kept \o rest \o items
<1> HIDE DEF verdicts, q
<1>5. CASE Turn(q, verdicts, {}, {}) /\ slots' = <<>>
  BY <1>2, <1>3, <1>4, <1>5, TurnLearns, SameClient
<1>6. CASE Turn(items, verdicts, {}, {}) /\ GoesOn
  BY <1>2, <1>3, <1>4, <1>6, TurnLearns, SameClient, GoesOnEmpties
<1> QED
  BY <1>1, <1>5, <1>6 DEF q

\* Restored records report nothing but evictions.
LEMMA HydrateLearns ==
    ASSUME IInv, Memory, Counted, Hydrate PROVE Learns
<1>1. PICK q, queued : TurnCapped(q, queued, {})
  BY DEF Hydrate
<1> DEFINE verdicts == {<<q[i].w, "evicted">> : i \in 1..Excess(q)}
<1>2. Turn(SubSeq(q, Excess(q) + 1, Len(q)), verdicts, queued, {})
  BY <1>1 DEF TurnCapped
<1>3. \A w \in Writes : <<w, "committed">> \notin verdicts
  OBVIOUS
<1> HIDE DEF verdicts
<1>4. UNCHANGED <<shard, session, client, stray, slots, chunk>>
  BY DEF Hydrate, around, pass
<1> QED
  BY <1>2, <1>3, <1>4, TurnLearns, SameClient

\* The shard applies the id of the entry, or knows it as applied when it says so.
LEMMA ShardTakesLearns ==
    ASSUME IInv, Memory, Counted, ShardTakes PROVE Learns
<1> DEFINE n == Len(slots) + 1
           w == chunk[n].w
           k == KeyOf(w)
<1>1. /\ \/ Shard!Apply(k) /\ slots' = Append(slots, "committed")
         \/ k \notin open /\ slots' = Append(slots, "committed") /\ UNCHANGED shard
         \/ \E s \in {"refused", "throttled"} : slots' = Append(slots, s) /\ UNCHANGED shard
      /\ Len(slots) < Len(chunk)
      /\ UNCHANGED <<stray, session, client, chunk, pc, told>>
  BY DEF ShardTakes, tray
<1>2. n \in DOMAIN chunk /\ n \in Nat \ {0}
  BY <1>1 DEF Memory
<1>3. w \in Issued /\ w \in Writes /\ k \in Keys /\ Known(k)
  BY <1>2, ChunkIssued, KnownKey, KeyTyped DEF Issued
<1>4. open' \subseteq open /\ (slots' = Append(slots, "committed") => k \notin open')
  BY <1>1, ApplyTakes DEF shard
<1>5. ASSUME NEW i \in DOMAIN slots', slots'[i] = "committed"
      PROVE  chunk'[i].w \in Issued /\ KeyOf(chunk'[i].w) \notin open'
  <2>1. PICK s \in {"committed", "refused", "throttled"} : slots' = Append(slots, s)
    BY <1>1
  <2>2. slots \in Seq({"committed", "refused", "throttled"}) /\ chunk' = chunk
    BY <1>1 DEF Memory
  <2>3. CASE i \in DOMAIN slots
    <3>1. slots[i] = "committed"
      BY <1>5, <2>1, <2>2, <2>3
    <3>2. i \in DOMAIN chunk
      BY <2>3 DEF Memory
    <3>3. chunk[i].w \in Issued /\ KeyOf(chunk[i].w) \notin open
      BY <2>3, <3>1, <3>2, ChunkIssued DEF Counted
    <3> QED
      BY <1>4, <2>2, <3>3
  <2>4. CASE i \notin DOMAIN slots
    <3>1. i = n /\ slots' = Append(slots, "committed")
      BY <1>5, <2>1, <2>2, <2>4
    <3> QED
      BY <1>3, <1>4, <2>2, <3>1
  <2> QED
    BY <2>3, <2>4
<1>6. Issued' = Issued
  BY <1>1 DEF Issued
<1> HIDE DEF n, w, k
<1> QED
  BY <1>1, <1>3, <1>5, <1>6 DEF Learns, Counted

\* A late request carries a known id.
LEMMA StrayLearns ==
    ASSUME IInv, Memory, Counted, NEW k \in Keys, StrayLands(k) PROVE Learns
<1>1. /\ k \in stray /\ stray' = stray \ {k} /\ (Shard!Apply(k) \/ UNCHANGED shard)
      /\ UNCHANGED <<session, client, pass, pc, told>>
  BY DEF StrayLands, tray
<1>2. Known(k) /\ Issued' = Issued
  BY <1>1 DEF Counted, Issued
<1>3. CASE UNCHANGED shard
  BY <1>1, <1>2, <1>3, QuietLearns, SameClient
<1>4. CASE Shard!Apply(k)
  <2>1. open' \subseteq open
    BY <1>4, ApplyTakes
  <2>2. ASSUME NEW i \in DOMAIN slots', slots'[i] = "committed"
        PROVE  chunk'[i].w \in Issued /\ KeyOf(chunk'[i].w) \notin open'
    <3>1. slots' = slots /\ chunk' = chunk
      BY <1>1 DEF pass
    <3>2. i \in DOMAIN chunk
      BY <2>2, <3>1 DEF Memory
    <3> QED
      BY <2>1, <2>2, <3>1, <3>2, ChunkIssued DEF Counted
  <2> QED
    BY <1>1, <1>2, <1>4, <2>2 DEF Learns, Counted
<1> QED
  BY <1>1, <1>3, <1>4

\* The requests a reload leaves behind carry the ids of issued writes.
LEMMA ReloadLearns ==
    ASSUME IInv, Memory, Counted, Reload PROVE Learns
<1>1. /\ stray' = stray \union {KeyOf(w) : w \in {v \in Writes : pc[v] = "sent"}}
                        \union {KeyOf(chunk[i].w) : i \in Len(slots) + 1 .. Len(chunk)}
      /\ session < MaxReloads /\ session' = session + 1
      /\ slots' = <<>> /\ UNCHANGED <<shard, client, told>>
  BY DEF Reload
<1>2. Issued' = Issued /\ \A w \in Writes : pc'[w] # "landed"
  BY DEF Reload, Issued, IInv, Passes
<1>3. \A k \in stray' : k \in stray \/ \E w \in Issued : k = KeyOf(w)
  <2>1. \A i \in Len(slots) + 1 .. Len(chunk) : i \in DOMAIN chunk
    BY DEF Memory
  <2> QED
    BY <1>1, <2>1, ChunkIssued DEF Issued
<1>4. session' \in Sessions
  BY <1>1, ReplayAssumption DEF Counted, Sessions
<1> QED
  BY <1>1, <1>2, <1>3, <1>4 DEF Learns, Counted

\* A step that touches none of this.
LEMMA QuietStepLearns ==
    ASSUME IInv, Memory, Counted, UNCHANGED <<shard, session, client, pass, stray, pc, told>>
    PROVE  Learns
<1>1. Issued' = Issued
  BY DEF Issued
<1> QED
  BY <1>1, QuietLearns, SameClient

\* Every step is of the kind Learns describes.
LEMMA StepLearns == ASSUME IInv, Memory, Counted, Next PROVE Learns
<1>1. CASE Resume \/ Issue \/ \E w \in Writes : Direct(w) \/ DirectFails(w)
  BY <1>1, ResumeLearns, IssueLearns, DirectLearns
<1>2. CASE Replay \/ ShardTakes \/ WholeRefused
  BY <1>2, DrainLearns, ReplyLearns, ShardTakesLearns, WholeRefusedLearns DEF Replay
<1>3. CASE \/ TimerFires \/ Connect \/ SnapshotsAnswered \/ IdentitySettles \/ Drop \/ TokenRefreshed
  <2>1. UNCHANGED <<shard, session, client, pass, stray, pc, told>>
    BY <1>3 DEF TimerFires, Connect, SnapshotsAnswered, IdentitySettles, Drop, TokenRefreshed, around, tray
  <2> QED
    BY <2>1, QuietStepLearns
<1>4. CASE PageHides \/ \E w \in Writes : AppendLands(w) \/ RemoveLands(w) \/ AppendFails(w)
  <2>1. UNCHANGED <<shard, session, client, pass, stray, pc, told>>
    BY <1>4 DEF PageHides, AppendLands, RemoveLands, AppendFails, storage, around
  <2> QED
    BY <2>1, QuietStepLearns
<1>5. CASE Reload \/ Hydrate \/ \E k \in Keys : StrayLands(k)
  BY <1>5, ReloadLearns, HydrateLearns, StrayLearns
<1>6. CASE \E unread \in SUBSET (1..Len(slots)), counted \in BOOLEAN : Reply(unread, counted)
  BY <1>6, ReplyLearns
<1> QED
  BY <1>1, <1>2, <1>3, <1>4, <1>5, <1>6 DEF Next, Failures, Storage

\* Nothing is applied when the page starts.
LEMMA CountedInit == Init => Counted
<1> SUFFICES ASSUME Init PROVE Counted
  OBVIOUS
<1>1. 0 \in Sessions
  BY ReplayAssumption DEF Sessions
<1> QED
  BY <1>1 DEF Init, Counted

\* Every step keeps what is known about the shard.
LEMMA CountedStep == ASSUME IInv, Memory, Counted, [Next]_vars PROVE Counted'
<1>1. CASE Next
  BY <1>1, StepLearns, CountedKept
<1>2. CASE UNCHANGED vars
  <2>1. UNCHANGED <<shard, session, client, pass, stray, pc, told>>
    BY <1>2 DEF vars, tray
  <2> QED
    BY <2>1, QuietStepLearns, CountedKept
<1> QED
  BY <1>1, <1>2

AllInv == IInv /\ Memory /\ Exact /\ Counted

\* All parts of the invariant hold in every reachable state.
LEMMA AllInvariance == Spec => []AllInv
<1>1. Init => AllInv
  BY InitHolds, RecordsInit, CountedInit DEF AllInv
<1>2. AllInv /\ [Next]_vars => AllInv'
  BY StepHolds, RecordsStep, CountedStep DEF AllInv
<1> QED
  BY <1>1, <1>2, PTL DEF Spec

-----------------------------------------------------------------------------

\* Some id of the write has been applied.
Taken(w) == \E s \in Sessions : <<s, w>> \notin open

\* A write takes effect at most once, under all of its ids together.
LEMMA AppliedOnce ==
    ASSUME Counted, NEW w \in Writes
    PROVE  Applied(w) = IF Taken(w) THEN 1 ELSE 0
<1> DEFINE parts == {{s} \X (1..count[<<s, w>>]) : s \in Sessions}
           effects == UNION parts
<1>1. \A s \in Sessions : <<s, w>> \in Keys
  BY DEF Keys
<1>2. \A s \in Sessions : count[<<s, w>>] = IF <<s, w>> \in open THEN 0 ELSE 1
  BY <1>1 DEF Counted
<1>3. \A s \in Sessions : <<s, w>> \notin open => s = client[w]
  BY <1>1 DEF Counted, Known, KeyOf
<1>4. CASE ~Taken(w)
  <2>1. \A s \in Sessions : {s} \X (1..count[<<s, w>>]) = {}
    BY <1>2, <1>4 DEF Taken
  <2>2. effects = {}
    BY <2>1
  <2> QED
    BY <1>4, <2>2, FS_EmptySet DEF Applied
<1>5. CASE Taken(w)
  <2>1. PICK s \in Sessions : <<s, w>> \notin open
    BY <1>5 DEF Taken
  <2>2. count[<<s, w>>] = 1 /\ \A t \in Sessions \ {s} : count[<<t, w>>] = 0
    BY <1>2, <1>3, <2>1
  <2>3. {s} \X (1..1) = {<<s, 1>>}
    OBVIOUS
  <2>4. \A t \in Sessions \ {s} : {t} \X (1..count[<<t, w>>]) = {}
    BY <2>2
  <2>5. effects = {<<s, 1>>}
    <3>1. ASSUME NEW e \in effects PROVE e = <<s, 1>>
      <4>1. PICK t \in Sessions : e \in {t} \X (1..count[<<t, w>>])
        BY <3>1
      <4> QED
        BY <2>2, <2>3, <2>4, <4>1
    <3>2. {<<s, 1>>} \in parts
      BY <2>2, <2>3
    <3>3. <<s, 1>> \in effects
      BY <3>2
    <3> QED
      BY <3>1, <3>3
  <2> QED
    BY <1>5, <2>5, FS_Singleton DEF Applied
<1> QED
  BY <1>4, <1>5

\* The image of a state under the refinement: a write is untaken or counted once.
LEMMA Mapped ==
    ASSUME Counted
    PROVE  /\ Untaken = {w \in Writes : ~Taken(w)}
           /\ Tally = [w \in Writes |-> IF Taken(w) THEN 1 ELSE 0]
  BY AppliedOnce DEF Untaken, Tally

\* The same of the next state.
LEMMA MappedNext ==
    ASSUME Counted'
    PROVE  /\ Untaken' = {w \in Writes : ~Taken(w)'}
           /\ Tally' = [w \in Writes |-> IF Taken(w)' THEN 1 ELSE 0]
<1>1. (Counted => /\ Untaken = {w \in Writes : ~Taken(w)}
                  /\ Tally = [w \in Writes |-> IF Taken(w) THEN 1 ELSE 0])'
  BY Mapped, PTL
<1> QED
  BY <1>1

\* No write has been taken at the start.
LEMMA InitEndToEnd == Init => EndToEnd!Init
<1> SUFFICES ASSUME Init PROVE EndToEnd!Init
  OBVIOUS
<1>1. \A w \in Writes : ~Taken(w)
  BY DEF Init, Taken, Keys
<1>2. Untaken = Writes /\ Tally = [w \in Writes |-> 0]
  BY <1>1, CountedInit, Mapped
<1>3. Acknowledged = {}
  BY DEF Init, Acknowledged
<1> QED
  BY <1>2, <1>3 DEF EndToEnd!Init

\* A step that leaves the shard alone may report commits, all of them true.
LEMMA TellsEndToEnd ==
    ASSUME Counted, Counted', UNCHANGED shard, told \subseteq told'
    PROVE  EndToEnd!Answer
<1>1. \A w \in Writes : Taken(w)' <=> Taken(w)
  BY DEF Taken, shard
<1>2. Untaken' = Untaken /\ Tally' = Tally
  BY <1>1, Mapped, MappedNext
<1> DEFINE ws == {w \in Writes : <<w, "committed">> \in told'}
<1>3. ASSUME NEW w \in ws PROVE Tally[w] > 0
  <2>1. KeyOf(w)' \notin open' /\ client' \in [Writes -> Sessions]
    BY <1>3 DEF Counted
  <2>2. Taken(w)'
    BY <2>1 DEF KeyOf, Taken
  <2> QED
    BY <1>1, <2>2, Mapped
<1>4. ws \in SUBSET {w \in Writes : Tally[w] > 0}
  BY <1>3
<1>5. Acknowledged' = Acknowledged \union ws
  BY DEF Acknowledged
<1> HIDE DEF ws
<1> QED
  BY <1>2, <1>4, <1>5 DEF EndToEnd!Answer

\* What the shard applies is the first, and the only, id of its write.
LEMMA AppliesEndToEnd ==
    ASSUME Counted, Counted', NEW k \in Keys, Known(k), Shard!Apply(k), UNCHANGED told
    PROVE  \E w \in Writes : EndToEnd!Apply(w)
<1> DEFINE x == k[2]
<1>1. k \in open /\ open' = open \ {k} /\ x \in Writes /\ k = KeyOf(x)
  BY ApplyTakes DEF Known, Issued
<1>2. \A s \in Sessions, w \in Writes : <<s, w>> \in Keys
  BY DEF Keys
<1>3. \A s \in Sessions, w \in Writes : <<s, w>> \notin open => s = client[w]
  BY <1>2 DEF Counted, Known, KeyOf
<1>4. client[x] \in Sessions /\ k = <<client[x], x>>
  BY <1>1 DEF Counted, KeyOf
<1>5. ~Taken(x) /\ Taken(x)'
  BY <1>1, <1>3, <1>4 DEF Taken
<1>6. \A w \in Writes : w # x => (Taken(w)' <=> Taken(w))
  BY SMTT(30), <1>1, <1>4 DEF Taken
<1> HIDE DEF x
<1>7. x \in Untaken /\ Untaken' = Untaken \ {x}
  BY <1>1, <1>5, <1>6, Mapped, MappedNext
<1>8. Tally' = [Tally EXCEPT ![x] = @ + 1]
  BY <1>1, <1>5, <1>6, Mapped, MappedNext
<1>9. Acknowledged' = Acknowledged
  BY DEF Acknowledged
<1>10. {} \in SUBSET {} /\ EndToEnd!Reopened({}, Untaken \ {x})
  BY <1>7 DEF EndToEnd!Reopened
<1>11. EndToEnd!Apply(x)
  BY <1>7, <1>8, <1>9, <1>10 DEF EndToEnd!Apply
<1> QED
  BY <1>1, <1>11

\* A step of the client or the shard is a step of WriteOnce, or a stutter.
LEMMA StepEndToEnd ==
    ASSUME AllInv, [Next]_vars
    PROVE  [EndToEnd!Next]_(EndToEnd!vars)
<1>1. Counted /\ Counted'
  BY CountedStep DEF AllInv
<1>2. CASE UNCHANGED vars
  <2>1. UNCHANGED <<open, count, told>>
    BY <1>2 DEF vars, shard, tray
  <2>2. \A w \in Writes : Taken(w)' <=> Taken(w)
    BY <2>1 DEF Taken
  <2>3. Untaken' = Untaken /\ Tally' = Tally /\ Acknowledged' = Acknowledged
    BY <1>1, <2>1, <2>2, Mapped, MappedNext DEF Acknowledged
  <2> QED
    BY <2>3 DEF EndToEnd!vars
<1>3. CASE Next
  <2>1. Learns
    BY <1>3, StepLearns DEF AllInv
  <2>2. CASE UNCHANGED shard /\ told \subseteq told'
    BY <1>1, <2>2, TellsEndToEnd DEF EndToEnd!Next
  <2>3. CASE \E k \in Keys : Known(k) /\ Shard!Apply(k) /\ UNCHANGED told
    BY <1>1, <2>3, AppliesEndToEnd DEF EndToEnd!Next
  <2> QED
    BY <2>1, <2>2, <2>3 DEF Learns
<1> QED
  BY <1>2, <1>3

(* The client and the shard together implement WriteOnce: whatever is lost,  *)
(* retried, duplicated or reloaded, a write takes effect at most once under  *)
(* all of its ids, and a commit is reported only of a write that did.        *)
THEOREM OnceEndToEnd == Spec => WritesOnce
<1>1. AllInv /\ [Next]_vars => [EndToEnd!Next]_(EndToEnd!vars)
  BY StepEndToEnd
<1> QED
  BY <1>1, InitEndToEnd, AllInvariance, PTL DEF Spec, WritesOnce, EndToEnd!Spec

-----------------------------------------------------------------------------

\* Entries whose sends are counted.
Tried == {e \in Entries : e.kind = "ambiguous"}

\* Each of them is in one place.
Single(c, r, q) ==
    /\ OnceIn(Tried, c) /\ OnceIn(Tried, r) /\ OnceIn(Tried, q)
    /\ \A e \in Tried : /\ ~(e \in Range(c) /\ e \in Range(r))
                        /\ ~(e \in Range(c) /\ e \in Range(q))
                        /\ ~(e \in Range(r) /\ e \in Range(q))

InHand == Range(items) \union Range(chunk) \union Range(rest)

\* Who has spent the last attempt is done, and who has not and is tried is there once.
Tries ==
    /\ attempts \in [Writes -> 0..MaxAttempts]
    /\ \A w \in Writes : attempts[w] = MaxAttempts => pc[w] = "done"
    /\ Single(chunk, rest, items)
    /\ \A e \in Tried : e \in InHand => attempts[e.w] < MaxAttempts /\ pc[e.w] \notin Outside

\* No step takes a verdict back, or a write out of the queue.
Ages == \A w \in Writes : /\ pc[w] = "done" => pc'[w] = "done"
                          /\ pc[w] \notin Outside => pc'[w] \notin Outside

\* A step that counts no attempt and brings at most untried entries in hand.
LEMMA TriesKept ==
    ASSUME Tries, Ages, UNCHANGED attempts, Single(chunk', rest', items'),
           \A e \in Tried : e \in InHand' => e \in InHand \/ (attempts[e.w] < MaxAttempts /\ pc'[e.w] \notin Outside)
    PROVE  Tries'
<1>1. \A e \in Tried : e.w \in Writes
  BY DEF Tried, Entries
<1>2. \A e \in Tried : e \in InHand' => attempts'[e.w] < MaxAttempts /\ pc'[e.w] \notin Outside
  BY <1>1 DEF Tries, Ages
<1>3. \A w \in Writes : attempts'[w] = MaxAttempts => pc'[w] = "done"
  BY DEF Tries, Ages
<1> QED
  BY <1>2, <1>3 DEF Tries

\* A change of the queue settles or queues.
LEMMA TurnAges ==
    ASSUME IInv, NEW q, NEW verdicts, NEW queued, NEW fresh, Turn(q, verdicts, queued, fresh)
    PROVE  Ages
  BY DEF Turn, Ages, Outside, IInv, Passes

\* What is once in each of two sequences, and not in both, is once in them together.
LEMMA JoinedOnce ==
    ASSUME NEW S, NEW s \in Seq(S), NEW t \in Seq(S), NEW T, OnceIn(T, s), OnceIn(T, t),
           \A x \in T : ~(x \in Range(s) /\ x \in Range(t))
    PROVE  OnceIn(T, s \o t)
<1> DEFINE u == s \o t
           m == Len(s)
           n == Len(t)
<1>1. m \in Nat /\ n \in Nat /\ DOMAIN s = 1..m /\ DOMAIN t = 1..n
  OBVIOUS
<1>2. /\ DOMAIN u = 1..m + n
      /\ \A i \in 1..m : u[i] = s[i]
      /\ \A i \in 1..n : u[m + i] = t[i]
  OBVIOUS
<1> HIDE DEF u, m, n
<1>3. \A i \in 1..m + n : i > m => i - m \in 1..n /\ u[i] = t[i - m]
  <2> SUFFICES ASSUME NEW i \in 1..m + n, i > m PROVE i - m \in 1..n /\ u[i] = t[i - m]
    OBVIOUS
  <2>1. i - m \in 1..n /\ m + (i - m) = i
    BY <1>1
  <2> QED
    BY <1>2, <2>1
<1>4. \A i \in 1..m : u[i] \in Range(s)
  BY <1>1, <1>2 DEF Range
<1>5. \A i \in 1..m + n : i > m => u[i] \in Range(t)
  BY <1>1, <1>3 DEF Range
<1>6. ASSUME NEW i \in 1..m + n, NEW j \in 1..m + n, u[i] = u[j], u[i] \in T PROVE i = j
  <2>1. CASE i <= m /\ j <= m
    <3>1. i \in 1..m /\ j \in 1..m
      BY <1>1, <2>1
    <3> QED
      BY <1>1, <1>2, <1>6, <3>1 DEF OnceIn
  <2>2. CASE i > m /\ j > m
    <3>1. i - m \in 1..n /\ j - m \in 1..n /\ t[i - m] = t[j - m] /\ t[i - m] \in T
      BY <1>3, <1>6, <2>2
    <3>2. i - m = j - m
      BY <1>1, <3>1 DEF OnceIn
    <3> QED
      BY <1>1, <3>2
  <2>3. CASE i <= m /\ j > m
    <3>1. i \in 1..m
      BY <1>1, <2>3
    <3> QED
      BY <1>4, <1>5, <1>6, <2>3, <3>1
  <2>4. CASE i > m /\ j <= m
    <3>1. j \in 1..m
      BY <1>1, <2>4
    <3> QED
      BY <1>4, <1>5, <1>6, <2>4, <3>1
  <2> QED
    BY <1>1, <2>1, <2>2, <2>3, <2>4
<1> QED
  BY <1>2, <1>6 DEF OnceIn, u

\* The parts of a cut sequence share nothing that was in it once.
LEMMA CutOnce ==
    ASSUME NEW S, NEW q \in Seq(S), NEW n \in 0..Len(q), NEW T, OnceIn(T, q)
    PROVE  /\ OnceIn(T, SubSeq(q, 1, n)) /\ OnceIn(T, SubSeq(q, n + 1, Len(q)))
           /\ \A x \in T : ~(x \in Range(SubSeq(q, 1, n)) /\ x \in Range(SubSeq(q, n + 1, Len(q))))
<1> DEFINE s == SubSeq(q, 1, n)
           t == SubSeq(q, n + 1, Len(q))
           l == Len(q)
<1>1. l \in Nat /\ n \in Nat /\ n <= l /\ DOMAIN q = 1..l
  OBVIOUS
<1>2. DOMAIN s = 1..n /\ \A i \in 1..n : s[i] = q[i]
  OBVIOUS
<1>3. DOMAIN t = 1..l - n /\ \A i \in 1..l - n : t[i] = q[n + i]
  OBVIOUS
<1> HIDE DEF s, t, l
<1>4. \A i \in 1..n : i \in 1..l
  BY <1>1
<1>5. \A i \in 1..l - n : n + i \in 1..l /\ n + i > n
  BY <1>1
<1>6. OnceIn(T, s)
  BY <1>1, <1>2, <1>4 DEF OnceIn
<1>7. ASSUME NEW i \in 1..l - n, NEW j \in 1..l - n, t[i] = t[j], t[i] \in T PROVE i = j
  <2>1. n + i = n + j
    BY <1>1, <1>3, <1>5, <1>7 DEF OnceIn
  <2> QED
    BY <1>1, <2>1
<1>8. ASSUME NEW i \in 1..n, NEW j \in 1..l - n, s[i] = t[j], s[i] \in T PROVE FALSE
  <2>1. i = n + j
    BY <1>1, <1>2, <1>3, <1>4, <1>5, <1>8 DEF OnceIn
  <2> QED
    BY <1>1, <2>1
<1>9. \A x \in T : ~(x \in Range(s) /\ x \in Range(t))
  BY <1>2, <1>3, <1>8 DEF Range
<1>10. OnceIn(T, t)
  BY <1>3, <1>7 DEF OnceIn
<1> QED
  BY <1>6, <1>9, <1>10 DEF s, t, l

\* An insertion repeats nothing that was not there.
LEMMA InsertedOnce ==
    ASSUME NEW q \in Seq(Entries), NEW e \in Entries, NEW T, OnceIn(T, q), e \in T => e \notin Range(q)
    PROVE  OnceIn(T, Inserted(q, e))
<1>1. PICK n \in 0..Len(q) : Inserted(q, e) = SubSeq(q, 1, n) \o <<e>> \o SubSeq(q, n + 1, Len(q))
  BY InsertedSplits
<1> DEFINE s == SubSeq(q, 1, n)
           t == SubSeq(q, n + 1, Len(q))
           one == <<e>>
           so == s \o one
<1>2. /\ OnceIn(T, s) /\ OnceIn(T, t)
      /\ \A x \in T : ~(x \in Range(s) /\ x \in Range(t))
  BY CutOnce
<1>3. s \in Seq(Entries) /\ t \in Seq(Entries) /\ Range(q) = Range(s) \union Range(t)
  BY CutProperties
<1>4. one \in Seq(Entries) /\ Range(one) = {e} /\ OnceIn(T, one)
  BY DEF Range, OnceIn
<1>5. Inserted(q, e) = so \o t
  BY <1>1
<1> HIDE DEF s, t, one
<1>6. so \in Seq(Entries) /\ Range(so) = Range(s) \union {e}
  BY <1>3, <1>4, JoinedRange
<1>7. OnceIn(T, so)
  <2>1. \A x \in T : ~(x \in Range(s) /\ x \in Range(one))
    BY <1>3, <1>4
  <2> QED
    BY <1>2, <1>3, <1>4, <2>1, JoinedOnce
<1> HIDE DEF so
<1>8. \A x \in T : ~(x \in Range(so) /\ x \in Range(t))
  BY <1>2, <1>3, <1>6
<1>9. OnceIn(T, so \o t)
  BY <1>2, <1>3, <1>6, <1>7, <1>8, JoinedOnce
<1> QED
  BY <1>5, <1>9

\* A step that leaves attempts and all that is in hand alone.
LEMMA QuietTries == ASSUME Tries, Ages, UNCHANGED <<items, chunk, rest, attempts>> PROVE Tries'
  BY TriesKept DEF Tries, InHand

\* The cap keeps what was there once.
LEMMA CappedTries ==
    ASSUME IInv, Tries, NEW q \in Seq(Entries), NEW queued, NEW fresh, TurnCapped(q, queued, fresh),
           UNCHANGED <<pass, attempts>>, OnceIn(Tried, q),
           \A e \in Tried : e \in Range(q) =>
              e \in Range(items) \/ (e \notin InHand /\ attempts[e.w] < MaxAttempts /\ pc'[e.w] \notin Outside)
    PROVE  Tries'
<1> DEFINE n == Excess(q)
           left == SubSeq(q, n + 1, Len(q))
<1>1. n \in 0..Len(q)
  BY ExcessBounds
<1>2. items' = left /\ Ages
  <2>1. PICK verdicts : Turn(left, verdicts, queued, fresh)
    BY DEF TurnCapped
  <2>2. Ages
    BY <2>1, TurnAges
  <2>3. items' = left
    BY <2>1 DEF Turn
  <2> QED
    BY <2>2, <2>3
<1> HIDE DEF n
<1>3. OnceIn(Tried, left) /\ Range(left) \subseteq Range(q)
  BY <1>1, CutOnce, CutProperties
<1>4. chunk' = chunk /\ rest' = rest
  BY DEF pass
<1> HIDE DEF left
<1>5. Single(chunk', rest', items')
  BY <1>2, <1>3, <1>4 DEF Tries, Single, InHand
<1>6. \A e \in Tried : e \in InHand' => e \in InHand \/ (attempts[e.w] < MaxAttempts /\ pc'[e.w] \notin Outside)
  BY <1>2, <1>3, <1>4 DEF InHand
<1> QED
  BY <1>2, <1>5, <1>6, TriesKept

\* A direct send of unknown fate is in hand once, and has not been tried again yet.
LEMMA EnqueueTries ==
    ASSUME IInv, Memory, Tries, NEW w \in Writes, NEW kind \in Kinds, enqueue(Entry(w, kind)),
           UNCHANGED <<pass, attempts>>, pc[w] \in Outside
    PROVE  Tries'
<1> DEFINE e == Entry(w, kind)
           q == Inserted(items, e)
<1>1. e \in Entries /\ e.w = w
  BY DEF Entry, Entries
<1>2. TurnCapped(q, {w}, {w})
  BY <1>1 DEF enqueue
<1>3. pc'[w] \notin Outside
  BY <1>2 DEF TurnCapped, Turn, Outside
<1> HIDE DEF e
<1>4. e \in Tried => e \notin InHand /\ attempts[w] < MaxAttempts
  BY <1>1, ReplayAssumption DEF Tries, Outside
<1>5. q \in Seq(Entries) /\ Range(q) = Range(items) \union {e}
  BY <1>1, InsertedProperties DEF Memory
<1>6. OnceIn(Tried, q)
  BY <1>1, <1>4, InsertedOnce DEF Memory, Tries, Single, InHand
<1> HIDE DEF q
<1> QED
  BY <1>1, <1>2, <1>3, <1>4, <1>5, <1>6, CappedTries

\* A step of a write that is not queued, which leaves the queue alone.
LEMMA OutsideTries ==
    ASSUME IInv, Tries, NEW w \in Writes, NEW s, pc[w] \in Outside, pc' = [pc EXCEPT ![w] = s],
           UNCHANGED <<items, pass, attempts>>
    PROVE  Tries'
<1>1. Ages
  BY DEF Ages, Outside, IInv, Passes
<1> QED
  BY <1>1, QuietTries DEF pass

\* A write that is routed to the queue is not ambiguous.
LEMMA RouteTries ==
    ASSUME IInv, Memory, Tries, NEW w \in Writes, pc[w] \in Outside, Route(w), UNCHANGED <<pass, attempts>>
    PROVE  Tries'
<1>1. CASE GoesToQueue
  BY <1>1, EnqueueTries DEF Route, Kinds
<1>2. CASE ~GoesToQueue
  BY <1>2, OutsideTries DEF Route
<1> QED
  BY <1>1, <1>2

\* A write that is issued, resumed, or sent directly, up to its entry in the queue.
LEMMA CallTries ==
    ASSUME IInv, Memory, Tries, Resume \/ Issue \/ \E w \in Writes : Direct(w) \/ DirectFails(w)
    PROVE  Tries'
<1>1. CASE Resume
  <2>1. Min(Ready) \in Ready
    BY <1>1, OldestIsOne DEF Resume, Ready
  <2>2. Min(Ready) \in Writes /\ pc[Min(Ready)] \in Outside
    BY <2>1 DEF Ready, Outside
  <2> QED
    BY <1>1, <2>2, RouteTries DEF Resume
<1>2. CASE Issue
  <2> DEFINE x == Min({v \in Writes : pc[v] = "new"})
  <2>1. x \in {v \in Writes : pc[v] = "new"}
    BY <1>2, OldestIsOne DEF Issue
  <2>2. x \in Writes /\ pc[x] \in Outside
    BY <2>1 DEF Outside
  <2>3. /\ \/ pc' = [pc EXCEPT ![x] = "waiting"] /\ UNCHANGED items
           \/ Route(x)
        /\ UNCHANGED <<pass, attempts>>
    BY <1>2 DEF Issue
  <2> HIDE DEF x
  <2> QED
    BY <2>2, <2>3, RouteTries, OutsideTries
<1>3. ASSUME NEW w \in Writes, Direct(w) \/ DirectFails(w) PROVE Tries'
  <2>1. UNCHANGED <<pass, attempts>> /\ pc[w] \in Outside
    BY <1>3 DEF Direct, DirectLands, DirectAnswered, DirectRefused, DirectFails, sending, Outside
  <2>2. \/ enqueue(Entry(w, "ambiguous"))
        \/ \E s \in {"landed", "done"} : pc' = [pc EXCEPT ![w] = s] /\ UNCHANGED items
    BY <1>3 DEF Direct, DirectLands, DirectAnswered, DirectRefused, DirectFails, RetriesLater
  <2> QED
    BY <2>1, <2>2, EnqueueTries, OutsideTries DEF Kinds
<1> QED
  BY <1>1, <1>2, <1>3

\* A batch and the rest share nothing that was drained once.
LEMMA SentOnce ==
    ASSUME NEW q \in Seq(Entries), OnceIn(Tried, q), SendsOf(q)
    PROVE  /\ OnceIn(Tried, chunk') /\ OnceIn(Tried, rest')
           /\ \A e \in Tried : ~(e \in Range(chunk') /\ e \in Range(rest'))
           /\ Range(q) = Range(chunk') \union Range(rest')
<1>1. PICK n \in 1..Min({Len(q), MaxBatch}) :
         chunk' = SubSeq(q, 1, n) /\ rest' = SubSeq(q, n + 1, Len(q))
  BY DEF SendsOf
<1>2. Min({Len(q), MaxBatch}) \in Nat /\ Min({Len(q), MaxBatch}) <= Len(q)
  BY ReplayAssumption DEF Min
<1>3. n \in 0..Len(q)
  BY <1>1, <1>2
<1> QED
  BY <1>1, <1>3, CutOnce, CutProperties

\* A drain rejects, holds and sends what was in the queue.
LEMMA DrainTries == ASSUME IInv, Memory, Tries, DrainHolds \/ DrainSends PROVE Tries'
<1>1. chunk = <<>> /\ rest = <<>> /\ Range(chunk) = {} /\ Range(rest) = {}
  BY DEF DrainHolds, DrainSends, Undrained, Range
<1>2. ASSUME NEW stale \in Stale
      PROVE  /\ Left(stale) \in Seq(Entries) /\ Range(Left(stale)) \subseteq Range(items)
             /\ OnceIn(Tried, Left(stale))
  BY WithoutProperties DEF Left, Memory, Tries, Single
<1>3. CASE DrainHolds
  <2>1. PICK stale \in Stale : Drops(Left(stale), stale)
    BY <1>3 DEF DrainHolds
  <2>2. items' = Left(stale) /\ Ages /\ UNCHANGED <<chunk, rest, attempts>>
    <3>1. Ages
      BY <2>1, TurnAges DEF Drops
    <3> QED
      BY <1>3, <2>1, <3>1 DEF Drops, Turn, DrainHolds, pass
  <2>3. Single(chunk', rest', items')
    BY <1>1, <1>2, <2>2 DEF Single, Tries
  <2>4. InHand' \subseteq InHand
    BY <1>2, <2>2 DEF InHand
  <2> QED
    BY <2>2, <2>3, <2>4, TriesKept
<1>4. CASE DrainSends
  <2>1. PICK stale \in Stale :
          /\ Drops(SubSeq(Left(stale), Decided(Left(stale)) + 1, Len(Left(stale))), stale)
          /\ SendsOf(SubSeq(Left(stale), 1, Decided(Left(stale))))
    BY <1>4 DEF DrainSends
  <2> DEFINE q == Left(stale)
             n == Decided(q)
             out == SubSeq(q, 1, n)
             held == SubSeq(q, n + 1, Len(q))
  <2>2. q \in Seq(Entries) /\ Range(q) \subseteq Range(items) /\ OnceIn(Tried, q)
    BY <1>2
  <2>3. n \in 0..Len(q)
    BY <2>2, DecidedBounds
  <2>4. items' = held /\ SendsOf(out) /\ Ages /\ UNCHANGED attempts
    <3>1. Ages
      BY <2>1, TurnAges DEF Drops
    <3> QED
      BY <1>4, <2>1, <3>1 DEF Drops, Turn, DrainSends
  <2> HIDE DEF q, n
  <2>5. out \in Seq(Entries) /\ Range(q) = Range(out) \union Range(held)
    BY <2>2, <2>3, CutProperties
  <2>6. /\ OnceIn(Tried, out) /\ OnceIn(Tried, held)
        /\ \A e \in Tried : ~(e \in Range(out) /\ e \in Range(held))
    BY <2>2, <2>3, CutOnce
  <2> HIDE DEF out, held
  <2>7. /\ OnceIn(Tried, chunk') /\ OnceIn(Tried, rest')
        /\ \A e \in Tried : ~(e \in Range(chunk') /\ e \in Range(rest'))
        /\ Range(out) = Range(chunk') \union Range(rest')
    BY <2>4, <2>5, <2>6, SentOnce
  <2>8. Single(chunk', rest', items')
    BY <2>4, <2>6, <2>7 DEF Single
  <2>9. InHand' \subseteq InHand
    BY <2>2, <2>4, <2>5, <2>7 DEF InHand
  <2> QED
    BY <2>4, <2>8, <2>9, TriesKept
<1> QED
  BY <1>3, <1>4

\* The batch is gone, and the rest is on its way.
LEMMA GoesOnOnce ==
    ASSUME Memory, Tries, GoesOn, UNCHANGED items
    PROVE  /\ Single(chunk', rest', items')
           /\ InHand' \subseteq Range(rest) \union Range(items)
<1>1. /\ OnceIn(Tried, chunk') /\ OnceIn(Tried, rest')
      /\ \A e \in Tried : ~(e \in Range(chunk') /\ e \in Range(rest'))
      /\ Range(rest) = Range(chunk') \union Range(rest')
  <2>1. CASE rest # <<>>
    BY <2>1, SentOnce DEF GoesOn, Memory, Tries, Single
  <2>2. CASE rest = <<>>
    BY <2>2 DEF GoesOn, OnceIn, Range
  <2> QED
    BY <2>1, <2>2
<1> QED
  BY <1>1 DEF Tries, Single, InHand

\* A batch refused as a whole counts as no attempt.
LEMMA WholeRefusedTries == ASSUME IInv, Memory, Tries, WholeRefused PROVE Tries'
<1>1. items' = items /\ Ages /\ GoesOn /\ UNCHANGED attempts
  BY TurnAges DEF WholeRefused, Turn
<1>2. Single(chunk', rest', items') /\ InHand' \subseteq InHand
  BY <1>1, GoesOnOnce DEF InHand
<1> QED
  BY <1>1, <1>2, TriesKept

\* An attempt is counted once for a batch, and the last one settles its write.
LEMMA ReplyTries ==
    ASSUME IInv, Memory, Tries, NEW unread, NEW counted, Reply(unread, counted)
    PROVE  Tries'
<1> DEFINE verdict(i) == IF i > Len(slots) \/ i \in unread THEN "unanswered" ELSE slots[i]
           tried == {i \in DOMAIN chunk : verdict(i) = "unanswered" /\ chunk[i].kind = "ambiguous" /\ counted}
           spent == {i \in tried : LastAttempt(chunk[i].w)}
           again == {i \in DOMAIN chunk : verdict(i) \in {"throttled", "unanswered"}} \ spent
           kept == Within(chunk, {chunk[i] : i \in again})
           settled == {<<chunk[i].w, verdict(i)>> : i \in {j \in DOMAIN chunk : verdict(j) \in {"committed", "refused"}}}
           given_up == {<<chunk[i].w, "gaveup">> : i \in spent}
           verdicts == settled \union given_up
<1>0. \A i \in DOMAIN chunk : chunk[i] \in Entries /\ chunk[i].w \in Writes /\ chunk[i] \in Range(chunk)
  <2> SUFFICES ASSUME NEW i \in DOMAIN chunk
               PROVE  chunk[i] \in Entries /\ chunk[i].w \in Writes /\ chunk[i] \in Range(chunk)
    OBVIOUS
  <2>1. chunk[i] \in Entries
    BY DEF Memory
  <2> QED
    BY <2>1 DEF Entries, Range
<1>1. /\ \/ /\ Turn(kept \o rest \o items, verdicts, {}, {})
            /\ chunk' = <<>> /\ rest' = <<>>
         \/ again = {} /\ Turn(items, verdicts, {}, {}) /\ GoesOn
      /\ attempts' = [w \in Writes |-> IF \E i \in tried : chunk[i].w = w THEN attempts[w] + 1 ELSE attempts[w]]
  BY DEF Reply
<1>2. Ages
  BY <1>1, TurnAges
<1>3. \A i \in spent : pc'[chunk[i].w] = "done"
  <2> SUFFICES ASSUME NEW i \in spent PROVE pc'[chunk[i].w] = "done"
    OBVIOUS
  <2>1. chunk[i].w \in Writes
    <3>1. i \in DOMAIN chunk
      OBVIOUS
    <3> QED
      BY <1>0, <3>1
  <2>2. <<chunk[i].w, "gaveup">> \in verdicts
    OBVIOUS
  <2>3. chunk[i].w \in {v[1] : v \in verdicts}
    <3> HIDE DEF verdicts
    <3> QED
      BY <2>2, Given
  <2> HIDE DEF verdicts, spent
  <2> QED
    BY <1>1, <2>1, <2>3 DEF Turn
<1>4. \A i \in tried : i \in DOMAIN chunk /\ chunk[i] \in Tried /\ chunk[i] \in Range(chunk) /\ chunk[i].w \in Writes
  BY <1>0 DEF Tried
<1>5. kept \in Seq(Entries) /\ Range(kept) \subseteq {chunk[i] : i \in again} /\ OnceIn(Tried, kept)
  BY WithinProperties DEF Memory, Tries, Single
<1>6. again \subseteq DOMAIN chunk /\ again \intersect spent = {}
  OBVIOUS
<1>7. \A i \in tried : i \in spent \/ attempts[chunk[i].w] + 1 < MaxAttempts
  BY <1>4, ReplayAssumption DEF LastAttempt, Tries
<1>8. spent \subseteq tried
  OBVIOUS
<1> HIDE DEF tried, spent, again, kept, settled, given_up
<1>9. \A i \in tried : attempts[chunk[i].w] \in Nat /\ attempts[chunk[i].w] + 1 <= MaxAttempts
  BY <1>4, ReplayAssumption DEF Tries, InHand
<1>10. attempts' \in [Writes -> 0..MaxAttempts]
  <2> SUFFICES ASSUME NEW w \in Writes
               PROVE  (IF \E i \in tried : chunk[i].w = w THEN attempts[w] + 1 ELSE attempts[w]) \in 0..MaxAttempts
    BY <1>1
  <2>1. attempts[w] \in 0..MaxAttempts
    BY DEF Tries
  <2> QED
    BY <1>9, <2>1, ReplayAssumption
<1>11. \A w \in Writes : attempts'[w] = MaxAttempts => pc'[w] = "done"
  <2> SUFFICES ASSUME NEW w \in Writes, attempts'[w] = MaxAttempts PROVE pc'[w] = "done"
    OBVIOUS
  <2>1. ASSUME NEW i \in tried, chunk[i].w = w PROVE pc'[w] = "done"
    <3>1. attempts[w] + 1 = MaxAttempts
      BY <1>1, <2>1
    <3>2. i \in spent
      BY <1>7, <1>9, <2>1, <3>1, ReplayAssumption
    <3> QED
      BY <1>3, <2>1, <3>2
  <2>2. CASE ~\E i \in tried : chunk[i].w = w
    BY <1>1, <1>2, <2>2 DEF Tries, Ages
  <2> QED
    BY <2>1, <2>2
<1>12. /\ Single(chunk', rest', items')
       /\ InHand' \subseteq {chunk[i] : i \in again} \union Range(rest) \union Range(items)
  <2>1. CASE Turn(kept \o rest \o items, verdicts, {}, {}) /\ chunk' = <<>> /\ rest' = <<>>
    <3> DEFINE kr == kept \o rest
    <3>1. \A e \in Tried : ~(e \in Range(kept) /\ e \in Range(rest))
      BY <1>5, <1>6 DEF Tries, Single, Range
    <3>2. kr \in Seq(Entries) /\ Range(kr) = Range(kept) \union Range(rest) /\ OnceIn(Tried, kr)
      BY <1>5, <3>1, JoinedRange, JoinedOnce DEF Memory, Tries, Single
    <3> HIDE DEF kr
    <3>3. \A e \in Tried : ~(e \in Range(kr) /\ e \in Range(items))
      BY ZenonT(30), <1>5, <1>6, <3>2 DEF Tries, Single, Range
    <3>4. OnceIn(Tried, kr \o items) /\ Range(kr \o items) = Range(kr) \union Range(items)
      BY <3>2, <3>3, JoinedRange, JoinedOnce DEF Memory, Tries, Single
    <3>5. items' = kr \o items
      BY <2>1 DEF Turn, kr
    <3>6. Range(<<>>) = {} /\ OnceIn(Tried, <<>>)
      BY DEF Range, OnceIn
    <3>7. Single(chunk', rest', items')
      BY <2>1, <3>4, <3>5, <3>6 DEF Single
    <3>8. InHand' = Range(kept) \union Range(rest) \union Range(items)
      BY <2>1, <3>2, <3>4, <3>5, <3>6 DEF InHand
    <3> QED
      BY <1>5, <3>7, <3>8
  <2>2. CASE Turn(items, verdicts, {}, {}) /\ GoesOn
    BY <2>2, GoesOnOnce DEF Turn
  <2> QED
    BY <1>1, <2>1, <2>2
<1>13. ASSUME NEW e \in Tried, e \in InHand' PROVE attempts'[e.w] < MaxAttempts /\ pc'[e.w] \notin Outside
  <2>1. e \in InHand /\ e.w \in Writes
    <3>1. {chunk[i] : i \in again} \subseteq Range(chunk)
      BY <1>0, <1>6
    <3>2. e.w \in Writes
      BY DEF Tried, Entries
    <3> QED
      BY <1>12, <1>13, <3>1, <3>2 DEF InHand
  <2>2. attempts[e.w] < MaxAttempts /\ pc'[e.w] \notin Outside
    BY <1>2, <2>1 DEF Tries, Ages
  <2>3. ASSUME NEW i \in tried, chunk[i].w = e.w PROVE attempts[e.w] + 1 < MaxAttempts
    <3>1. chunk[i] = e
      BY <1>4, <2>3 DEF Tried, Entries
    <3>2. e \notin Range(rest) /\ e \notin Range(items)
      BY <1>4, <3>1 DEF Tries, Single
    <3>3. PICK j \in again : chunk[j] = e
      BY <1>12, <1>13, <3>2
    <3>4. i = j
      BY <1>4, <1>6, <3>1, <3>3 DEF Tries, Single, OnceIn
    <3> QED
      BY <1>6, <1>7, <2>3, <3>4
  <2>4. CASE \E i \in tried : chunk[i].w = e.w
    BY <1>1, <2>1, <2>2, <2>3, <2>4
  <2>5. CASE ~\E i \in tried : chunk[i].w = e.w
    BY <1>1, <2>1, <2>2, <2>5
  <2> QED
    BY <2>4, <2>5
<1> QED
  BY <1>10, <1>11, <1>12, <1>13 DEF Tries

\* Restored entries are not ambiguous.
LEMMA HydrateTries == ASSUME IInv, Memory, Tries, Hydrate PROVE Tries'
<1> DEFINE records == Without(store, WritesOf(items))
           entries == [i \in DOMAIN records |-> Entry(records[i], "restored")]
           q == entries \o items
<1>1. TurnCapped(q, Range(records), {}) /\ UNCHANGED <<pass, attempts>>
  BY DEF Hydrate, around
<1>2. records \in Seq(Writes)
  BY WithoutProperties DEF Memory
<1> HIDE DEF records
<1>3. entries \in Seq(Entries) /\ \A i \in DOMAIN entries : entries[i].kind = "restored"
  <2>1. DOMAIN records = 1..Len(records) /\ Len(records) \in Nat
    BY <1>2
  <2>2. \A i \in 1..Len(records) : Entry(records[i], "restored") \in Entries
    BY <1>2 DEF Entry, Entries, Kinds
  <2>3. \A i \in DOMAIN entries : entries[i].kind = "restored"
    BY DEF Entry
  <2>4. entries \in [1..Len(records) -> Entries]
    BY <2>1, <2>2
  <2> HIDE DEF entries
  <2> QED
    BY <2>1, <2>3, <2>4, IsASeq
<1> HIDE DEF entries
<1>4. OnceIn(Tried, entries) /\ \A e \in Tried : e \notin Range(entries)
  BY <1>3 DEF OnceIn, Tried, Range
<1>5. /\ q \in Seq(Entries) /\ Range(q) = Range(entries) \union Range(items)
      /\ OnceIn(Tried, q)
  BY <1>3, <1>4, JoinedRange, JoinedOnce DEF Memory, Tries, Single
<1> HIDE DEF q
<1> QED
  BY <1>1, <1>4, <1>5, CappedTries

\* A reload starts counting anew.
LEMMA ReloadTries == ASSUME Reload PROVE Tries'
<1>1. /\ items' = <<>> /\ chunk' = <<>> /\ rest' = <<>>
      /\ attempts' = [w \in Writes |-> 0]
  BY DEF Reload
<1>2. Range(<<>>) = {} /\ OnceIn(Tried, <<>>)
  BY DEF Range, OnceIn
<1> QED
  BY <1>1, <1>2, ReplayAssumption DEF Tries, Single, InHand

\* Every step keeps the count of attempts.
LEMMA TriesStep == ASSUME IInv, Memory, Tries, [Next]_vars PROVE Tries'
<1>1. CASE Resume \/ Issue \/ \E w \in Writes : Direct(w) \/ DirectFails(w)
  BY <1>1, CallTries
<1>2. CASE Replay \/ WholeRefused
  BY <1>2, DrainTries, ReplyTries, WholeRefusedTries DEF Replay
<1>3. CASE \E unread \in SUBSET (1..Len(slots)), counted \in BOOLEAN : Reply(unread, counted)
  BY <1>3, ReplyTries
<1>4. CASE Reload \/ Hydrate
  BY <1>4, ReloadTries, HydrateTries
<1>5. ASSUME UNCHANGED <<items, chunk, rest, attempts, pc>> PROVE Tries'
  BY <1>5, QuietTries DEF Ages
<1>6. CASE ShardTakes \/ \E k \in Keys : StrayLands(k)
  BY <1>5, <1>6 DEF ShardTakes, StrayLands, tray, pass
<1>7. CASE TimerFires \/ Connect \/ SnapshotsAnswered \/ IdentitySettles \/ Drop \/ TokenRefreshed
  BY <1>5, <1>7 DEF TimerFires, Connect, SnapshotsAnswered, IdentitySettles, Drop, TokenRefreshed, around, tray, pass
<1>8. CASE PageHides \/ \E w \in Writes : AppendLands(w) \/ RemoveLands(w) \/ AppendFails(w)
  BY <1>5, <1>8 DEF PageHides, AppendLands, RemoveLands, AppendFails, storage, around, pass
<1>9. CASE UNCHANGED vars
  BY <1>5, <1>9 DEF vars, tray, pass
<1> QED
  BY <1>1, <1>2, <1>3, <1>4, <1>6, <1>7, <1>8, <1>9 DEF Next, Failures, Storage

\* The books of the queue are about writes, and so is what callers have heard.
Books ==
    /\ unsettled \union appending \union removing \union unpersisted \subseteq Writes
    /\ told \subseteq Writes \X Verdicts

\* Passes are bounded, and a drain has a batch on the wire until it is over.
Paced ==
    /\ ahead \in [Writes -> 0..MaxPasses] /\ passes \in 0..MaxPasses
    /\ chunk = <<>> => rest = <<>>

\* What is set and reset.
Flagged ==
    /\ {online, ever, answered, parked, timer, hydrated} \subseteq BOOLEAN
    /\ known \in {"settled", "reconfirm", "unresolved"}
    /\ faults \in 0..MaxFaults

\* Verdicts about writes and fresh writes are entered in the books.
LEMMA TurnBooks ==
    ASSUME Books, NEW q, NEW verdicts \in SUBSET (Writes \X Verdicts), NEW queued,
           NEW fresh \in SUBSET Writes, Turn(q, verdicts, queued, fresh)
    PROVE  Books'
<1>1. {v[1] : v \in verdicts} \subseteq Writes
  OBVIOUS
<1> QED
  BY <1>1 DEF Turn, Books

\* What is evicted is a write of the queue.
LEMMA CappedBooks ==
    ASSUME Books, NEW q \in Seq(Entries), NEW queued, NEW fresh \in SUBSET Writes,
           TurnCapped(q, queued, fresh)
    PROVE  Books'
<1> DEFINE verdicts == {<<q[i].w, "evicted">> : i \in 1..Excess(q)}
<1>1. \A i \in 1..Excess(q) : q[i].w \in Writes
  <2> SUFFICES ASSUME NEW i \in 1..Excess(q) PROVE q[i].w \in Writes
    OBVIOUS
  <2>1. i \in 1..Len(q)
    BY ExcessBounds
  <2>2. q[i] \in Entries
    BY <2>1
  <2> QED
    BY <2>2 DEF Entries
<1>2. verdicts \in SUBSET (Writes \X Verdicts)
  BY <1>1 DEF Verdicts
<1>3. \E left : Turn(left, verdicts, queued, fresh)
  BY DEF TurnCapped
<1> HIDE DEF verdicts
<1> QED
  BY <1>2, <1>3, TurnBooks

\* So is what is queued.
LEMMA EnqueueBooks ==
    ASSUME Memory, Books, NEW w \in Writes, NEW kind \in Kinds, enqueue(Entry(w, kind))
    PROVE  Books'
<1> DEFINE e == Entry(w, kind)
           q == Inserted(items, e)
<1>1. e \in Entries /\ e.w = w
  BY DEF Entry, Entries
<1>2. TurnCapped(q, {w}, {w})
  BY <1>1 DEF enqueue
<1> HIDE DEF e
<1>3. q \in Seq(Entries)
  BY <1>1, InsertedProperties DEF Memory
<1> HIDE DEF q
<1> QED
  BY <1>2, <1>3, CappedBooks

\* Direct calls report a verdict, or queue.
LEMMA CallBooks ==
    ASSUME Memory, Books, Resume \/ Issue \/ \E w \in Writes : Direct(w) \/ DirectFails(w)
    PROVE  Books'
<1>1. ASSUME NEW w \in Writes, Route(w) PROVE Books'
  BY <1>1, EnqueueBooks DEF Route, Kinds, Books
<1>2. CASE Resume
  <2>1. Min(Ready) \in Writes
    BY <1>2, OldestIsOne DEF Resume, Ready
  <2> QED
    BY <1>1, <1>2, <2>1 DEF Resume
<1>3. CASE Issue
  <2> DEFINE x == Min({v \in Writes : pc[v] = "new"})
  <2>1. x \in Writes
    BY <1>3, OldestIsOne DEF Issue
  <2>2. UNCHANGED <<told, unsettled, appending, removing, unpersisted>> \/ Route(x)
    BY <1>3 DEF Issue
  <2> HIDE DEF x
  <2> QED
    BY <1>1, <2>1, <2>2 DEF Books
<1>4. ASSUME NEW w \in Writes, Direct(w) \/ DirectFails(w) PROVE Books'
  <2>1. \/ enqueue(Entry(w, "ambiguous"))
        \/ /\ UNCHANGED <<unsettled, appending, removing, unpersisted>>
           /\ \/ UNCHANGED told
              \/ \E v \in {"committed", "refused", "failed"} : told' = told \union {<<w, v>>}
    BY <1>4 DEF Direct, DirectLands, DirectAnswered, DirectRefused, DirectFails, RetriesLater
  <2> QED
    BY <2>1, EnqueueBooks DEF Kinds, Books, Verdicts
<1> QED
  BY <1>2, <1>3, <1>4

\* Drains report what is stale.
LEMMA DrainBooks == ASSUME Memory, Books, DrainHolds \/ DrainSends PROVE Books'
<1>1. PICK stale \in Stale : \E q : Drops(q, stale)
  BY DEF DrainHolds, DrainSends
<1>2. \A e \in stale : e.w \in Writes
  <2> SUFFICES ASSUME NEW e \in stale PROVE e.w \in Writes
    OBVIOUS
  <2>1. e \in Range(items)
    BY DEF Stale
  <2>2. e \in Entries
    BY <2>1 DEF Memory, Range
  <2> QED
    BY <2>2 DEF Entries
<1>3. {<<e.w, "stale">> : e \in stale} \in SUBSET (Writes \X Verdicts)
  BY <1>2 DEF Verdicts
<1> QED
  BY <1>1, <1>3, TurnBooks DEF Drops

\* Replies report the shard's verdicts and the client's own.
LEMMA ReplyBooks ==
    ASSUME Memory, Books, NEW unread, NEW counted, Reply(unread, counted)
    PROVE  Books'
<1> DEFINE verdict(i) == IF i > Len(slots) \/ i \in unread THEN "unanswered" ELSE slots[i]
           tried == {i \in DOMAIN chunk : verdict(i) = "unanswered" /\ chunk[i].kind = "ambiguous" /\ counted}
           spent == {i \in tried : LastAttempt(chunk[i].w)}
           again == {i \in DOMAIN chunk : verdict(i) \in {"throttled", "unanswered"}} \ spent
           kept == Within(chunk, {chunk[i] : i \in again})
           settled == {<<chunk[i].w, verdict(i)>> : i \in {j \in DOMAIN chunk : verdict(j) \in {"committed", "refused"}}}
           given_up == {<<chunk[i].w, "gaveup">> : i \in spent}
           verdicts == settled \union given_up
<1>1. \E q : Turn(q, verdicts, {}, {})
  BY DEF Reply
<1>2. \A i \in DOMAIN chunk : chunk[i].w \in Writes
  <2> SUFFICES ASSUME NEW i \in DOMAIN chunk PROVE chunk[i].w \in Writes
    OBVIOUS
  <2>1. chunk[i] \in Entries
    BY DEF Memory
  <2> QED
    BY <2>1 DEF Entries
<1>3. \A v \in {"committed", "refused", "gaveup"} : v \in Verdicts
  BY DEF Verdicts
<1>4. spent \subseteq DOMAIN chunk
  OBVIOUS
<1>5. settled \in SUBSET (Writes \X Verdicts)
  <2> HIDE DEF verdict
  <2> QED
    BY <1>2, <1>3
<1> HIDE DEF spent, settled
<1>6. given_up \in SUBSET (Writes \X Verdicts)
  BY <1>2, <1>3, <1>4
<1> HIDE DEF given_up
<1>7. verdicts \in SUBSET (Writes \X Verdicts)
  BY <1>5, <1>6
<1> HIDE DEF verdicts
<1> QED
  BY <1>1, <1>7, TurnBooks

\* A batch refused as a whole is one of writes.
LEMMA WholeRefusedBooks == ASSUME Memory, Books, WholeRefused PROVE Books'
<1>1. Turn(items, {<<e.w, "refused">> : e \in Range(chunk)}, {}, {})
  BY DEF WholeRefused
<1>2. \A e \in Range(chunk) : e.w \in Writes
  <2> SUFFICES ASSUME NEW e \in Range(chunk) PROVE e.w \in Writes
    OBVIOUS
  <2>1. e \in Entries
    BY DEF Memory, Range
  <2> QED
    BY <2>1 DEF Entries
<1>3. {<<e.w, "refused">> : e \in Range(chunk)} \in SUBSET (Writes \X Verdicts)
  BY <1>2 DEF Verdicts
<1> QED
  BY <1>1, <1>3, TurnBooks

\* Restored records are of writes.
LEMMA HydrateBooks == ASSUME Memory, Books, Hydrate PROVE Books'
<1> DEFINE records == Without(store, WritesOf(items))
           entries == [i \in DOMAIN records |-> Entry(records[i], "restored")]
           q == entries \o items
<1>1. TurnCapped(q, Range(records), {})
  BY DEF Hydrate
<1>2. records \in Seq(Writes)
  BY WithoutProperties DEF Memory
<1> HIDE DEF records
<1>3. entries \in Seq(Entries)
  <2>1. DOMAIN records = 1..Len(records) /\ Len(records) \in Nat
    BY <1>2
  <2>2. \A i \in 1..Len(records) : Entry(records[i], "restored") \in Entries
    BY <1>2 DEF Entry, Entries, Kinds
  <2>3. entries \in [1..Len(records) -> Entries]
    BY <2>1, <2>2
  <2> HIDE DEF entries
  <2> QED
    BY <2>1, <2>3, IsASeq
<1> HIDE DEF entries
<1>4. q \in Seq(Entries)
  BY <1>3 DEF Memory
<1> HIDE DEF q
<1> QED
  BY <1>1, <1>4, CappedBooks

\* Every step keeps the books.
LEMMA BooksStep == ASSUME Memory, Books, [Next]_vars PROVE Books'
<1>1. CASE Resume \/ Issue \/ \E w \in Writes : Direct(w) \/ DirectFails(w)
  BY <1>1, CallBooks
<1>2. CASE Replay \/ WholeRefused \/ Hydrate
  BY <1>2, DrainBooks, ReplyBooks, WholeRefusedBooks, HydrateBooks DEF Replay
<1>3. CASE \E unread \in SUBSET (1..Len(slots)), counted \in BOOLEAN : Reply(unread, counted)
  BY <1>3, ReplyBooks
<1>4. CASE Reload
  BY <1>4 DEF Reload, Books
<1>5. CASE ShardTakes \/ \E k \in Keys : StrayLands(k)
  BY <1>5 DEF ShardTakes, StrayLands, tray, Books
<1>6. CASE TimerFires \/ Connect \/ SnapshotsAnswered \/ IdentitySettles \/ Drop \/ TokenRefreshed
  BY <1>6 DEF TimerFires, Connect, SnapshotsAnswered, IdentitySettles, Drop, TokenRefreshed, tray, Books
<1>7. CASE PageHides
  BY <1>7 DEF PageHides, Unpersisted, storage, Books
<1>8. ASSUME NEW w \in Writes, AppendLands(w) \/ RemoveLands(w) \/ AppendFails(w) PROVE Books'
  BY <1>8 DEF AppendLands, RemoveLands, AppendFails, storage, Books
<1>9. CASE UNCHANGED vars
  BY <1>9 DEF vars, tray, Books
<1> QED
  BY <1>1, <1>2, <1>3, <1>4, <1>5, <1>6, <1>7, <1>8, <1>9 DEF Next, Failures, Storage

\* A pass more, or none where there was none.
LEMMA FlushPaced ==
    ASSUME Paced, flushOfflineQueue \/ UNCHANGED passes, UNCHANGED <<ahead, pass>>
    PROVE  Paced'
<1>1. passes' \in 0..MaxPasses
  BY ReplayAssumption DEF Paced, flushOfflineQueue
<1> QED
  BY <1>1 DEF Paced, pass

\* A pass ends with its drain.
LEMMA EndPaced ==
    ASSUME Paced, passes > 0, PassEnds, rest' = <<>>
    PROVE  Paced'
<1>1. passes' \in 0..MaxPasses
  BY ReplayAssumption DEF Paced, PassEnds
<1>2. \A w \in Writes : (IF ahead[w] > 0 THEN ahead[w] - 1 ELSE 0) \in 0..MaxPasses
  <2> SUFFICES ASSUME NEW w \in Writes
               PROVE  (IF ahead[w] > 0 THEN ahead[w] - 1 ELSE 0) \in 0..MaxPasses
    OBVIOUS
  <2>1. ahead[w] \in 0..MaxPasses
    BY DEF Paced
  <2> QED
    BY <2>1, ReplayAssumption
<1> QED
  BY <1>1, <1>2 DEF Paced, PassEnds

\* A batch that is sent has an entry.
LEMMA SentPaced ==
    ASSUME Paced, NEW q \in Seq(Entries), SendsOf(q), UNCHANGED <<ahead, passes>>
    PROVE  Paced'
<1>1. PICK n \in 1..Min({Len(q), MaxBatch}) : chunk' = SubSeq(q, 1, n)
  BY DEF SendsOf
<1>2. Min({Len(q), MaxBatch}) \in Nat /\ Min({Len(q), MaxBatch}) <= Len(q)
  BY ReplayAssumption DEF Min
<1>3. n \in 1..Len(q)
  BY <1>1, <1>2
<1>4. chunk' # <<>>
  BY <1>1, <1>3
<1> QED
  BY <1>4 DEF Paced

\* The drain goes on with the rest, or its pass is over.
LEMMA GoesOnPaced ==
    ASSUME IInv, Memory, Paced, chunk # <<>>, GoesOn PROVE Paced'
<1>1. passes > 0
  BY DEF IInv, Passes, Undrained
<1> QED
  BY <1>1, SentPaced, EndPaced DEF GoesOn, Memory

\* A drain holds all, and is over, or begins.
LEMMA DrainPaced == ASSUME Memory, Paced, DrainHolds \/ DrainSends PROVE Paced'
<1>1. CASE DrainHolds
  BY <1>1, EndPaced DEF DrainHolds, Undrained, pass
<1>2. CASE DrainSends
  <2>1. PICK stale \in Stale : SendsOf(SubSeq(Left(stale), 1, Decided(Left(stale))))
    BY <1>2 DEF DrainSends
  <2> DEFINE q == Left(stale)
             n == Decided(q)
  <2>2. q \in Seq(Entries)
    BY WithoutProperties DEF Left, Memory
  <2>3. n \in 0..Len(q)
    BY <2>2, DecidedBounds
  <2> HIDE DEF q, n
  <2>4. SubSeq(q, 1, n) \in Seq(Entries)
    BY <2>2, <2>3, CutProperties
  <2>5. SendsOf(SubSeq(q, 1, n))
    BY <2>1 DEF q, n
  <2>6. UNCHANGED <<ahead, passes>>
    BY <1>2 DEF DrainSends
  <2> QED
    BY <2>4, <2>5, <2>6, SentPaced
<1> QED
  BY <1>1, <1>2

\* A batch is over: all is back in the queue, or the drain goes on.
LEMMA ReplyPaced ==
    ASSUME IInv, Memory, Paced, NEW unread, NEW counted, Reply(unread, counted) PROVE Paced'
<1>1. chunk # <<>> /\ (GoesOn \/ (rest' = <<>> /\ PassEnds))
  BY DEF Reply
<1>2. passes > 0
  BY <1>1 DEF IInv, Passes, Undrained
<1> QED
  BY <1>1, <1>2, GoesOnPaced, EndPaced

\* Whoever is issued waits for the newest pass; nothing else a call does is about passes.
LEMMA CallPaced ==
    ASSUME Paced, Resume \/ Issue \/ \E w \in Writes : Direct(w) \/ DirectFails(w)
    PROVE  Paced'
<1>1. CASE UNCHANGED <<passes, ahead, pass>>
  BY <1>1, FlushPaced
<1>2. CASE Resume
  BY <1>1, <1>2 DEF Resume
<1>3. CASE Issue
  <2>1. UNCHANGED <<passes, pass>> /\ (UNCHANGED ahead \/ \E x : ahead' = [ahead EXCEPT ![x] = passes])
    BY <1>3 DEF Issue
  <2>2. ahead' \in [Writes -> 0..MaxPasses]
    BY <2>1 DEF Paced
  <2> QED
    BY <2>1, <2>2 DEF Paced, pass
<1>4. CASE \E w \in Writes : Direct(w) \/ DirectFails(w)
  BY <1>1, <1>4 DEF Direct, DirectLands, DirectAnswered, DirectRefused, DirectFails, sending
<1> QED
  BY <1>2, <1>3, <1>4

\* Every step keeps the passes bounded.
LEMMA PacedStep == ASSUME IInv, Memory, Paced, [Next]_vars PROVE Paced'
<1>1. CASE Resume \/ Issue \/ \E w \in Writes : Direct(w) \/ DirectFails(w)
  BY <1>1, CallPaced
<1>2. CASE Replay
  BY <1>2, DrainPaced, ReplyPaced DEF Replay
<1>3. CASE WholeRefused
  BY <1>3, GoesOnPaced DEF WholeRefused
<1>4. CASE \E unread \in SUBSET (1..Len(slots)), counted \in BOOLEAN : Reply(unread, counted)
  BY <1>4, ReplyPaced
<1>5. CASE Reload
  <2>1. passes' = 0 /\ ahead' = [w \in Writes |-> 0] /\ rest' = <<>>
    BY <1>5 DEF Reload
  <2> QED
    BY <2>1, ReplayAssumption DEF Paced
<1>6. CASE ShardTakes
  BY <1>6 DEF ShardTakes, Paced
<1>7. CASE TimerFires \/ Connect \/ SnapshotsAnswered \/ IdentitySettles \/ Drop \/ TokenRefreshed
  <2>1. UNCHANGED <<ahead, pass>> /\ (flushOfflineQueue \/ UNCHANGED passes)
    BY <1>7 DEF TimerFires, Connect, SnapshotsAnswered, IdentitySettles, Drop, TokenRefreshed, around
  <2> QED
    BY <2>1, FlushPaced
<1>8. CASE \/ Storage \/ UNCHANGED vars
           \/ (\E w \in Writes : AppendFails(w)) \/ \E k \in Keys : StrayLands(k)
  <2>1. UNCHANGED <<passes, ahead, pass>>
    BY <1>8 DEF Storage, AppendLands, RemoveLands, AppendFails, PageHides, Hydrate, StrayLands, storage, around, vars
  <2> QED
    BY <2>1, FlushPaced
<1> QED
  BY <1>1, <1>2, <1>3, <1>4, <1>5, <1>6, <1>7, <1>8 DEF Next, Failures

\* A fault more is one within the bound.
LEMMA FaultBounded == faults \in 0..MaxFaults /\ Fault => faults' \in 0..MaxFaults
  BY ReplayAssumption DEF Fault

\* Flags stay flags, and the faults are bounded.
LEMMA FlaggedStep == ASSUME Flagged, [Next]_vars PROVE Flagged'
<1>1. faults' \in 0..MaxFaults
  <2>1. CASE UNCHANGED faults
    BY <2>1 DEF Flagged
  <2>2. CASE Fault
    BY <2>2, FaultBounded DEF Flagged
  <2>3. CASE Resume \/ Issue \/ \E w \in Writes : Direct(w) \/ DirectFails(w)
    BY <2>1, <2>3 DEF Resume, Issue, Direct, DirectLands, DirectAnswered, DirectRefused, DirectFails
  <2>4. CASE Replay \/ ShardTakes \/ WholeRefused
    BY <2>1, <2>2, <2>4 DEF Replay, DrainHolds, DrainSends, Reply, ShardTakes, WholeRefused
  <2>5. CASE \E unread \in SUBSET (1..Len(slots)), counted \in BOOLEAN : Reply(unread, counted)
    BY <2>1, <2>2, <2>5 DEF Reply
  <2>6. CASE TimerFires \/ Connect \/ SnapshotsAnswered \/ IdentitySettles \/ Drop \/ TokenRefreshed
    BY <2>1, <2>2, <2>6 DEF TimerFires, Connect, SnapshotsAnswered, IdentitySettles, Drop, TokenRefreshed
  <2>7. CASE \/ Storage \/ UNCHANGED vars \/ Reload
             \/ (\E w \in Writes : AppendFails(w)) \/ \E k \in Keys : StrayLands(k)
    BY <2>1, <2>2, <2>7 DEF Storage, AppendLands, RemoveLands, AppendFails, PageHides, Hydrate, StrayLands, Reload, vars
  <2> QED
    BY <2>3, <2>4, <2>5, <2>6, <2>7 DEF Next, Failures
<1>2. known' \in {"settled", "reconfirm", "unresolved"}
  <2>1. known' = known \/ known' \in {"settled", "reconfirm", "unresolved"}
    <3>1. CASE Resume \/ Issue \/ \E w \in Writes : Direct(w) \/ DirectFails(w)
      BY <3>1 DEF Resume, Issue, Direct, DirectLands, DirectAnswered, DirectRefused, DirectFails, sending, link
    <3>2. CASE Replay \/ ShardTakes \/ WholeRefused
      BY <3>2 DEF Replay, DrainHolds, DrainSends, Reply, ShardTakes, WholeRefused, link
    <3>3. CASE \E unread \in SUBSET (1..Len(slots)), counted \in BOOLEAN : Reply(unread, counted)
      BY <3>3 DEF Reply, link
    <3>4. CASE TimerFires \/ Connect \/ SnapshotsAnswered \/ IdentitySettles \/ Drop \/ TokenRefreshed
      BY <3>4 DEF TimerFires, Connect, SnapshotsAnswered, IdentitySettles, Drop, TokenRefreshed, link
    <3>5. CASE \/ Storage \/ UNCHANGED vars \/ Reload
               \/ (\E w \in Writes : AppendFails(w)) \/ \E k \in Keys : StrayLands(k)
      BY <3>5 DEF Storage, AppendLands, RemoveLands, AppendFails, PageHides, Hydrate, StrayLands, Reload, storage, link, vars
    <3> QED
      BY <3>1, <3>2, <3>3, <3>4, <3>5 DEF Next, Failures
  <2> QED
    BY <2>1 DEF Flagged
<1>3. {online, ever, answered, parked, timer, hydrated}' \subseteq BOOLEAN
  <2> USE DEF Flagged
  <2>1. CASE Resume \/ Issue \/ \E w \in Writes : Direct(w)
    BY <2>1 DEF Resume, Issue, Direct, DirectLands, DirectAnswered, DirectRefused, sending, link
  <2>2. CASE \E w \in Writes : DirectFails(w)
    BY <2>2 DEF DirectFails, RetriesLater, sending, link
  <2>3. CASE DrainHolds \/ DrainSends
    BY <2>3 DEF DrainHolds, DrainSends, link
  <2>4. ASSUME NEW unread, NEW counted, Reply(unread, counted)
        PROVE  {online, ever, answered, parked, timer, hydrated}' \subseteq BOOLEAN
    BY <2>4 DEF Reply, link
  <2>5. CASE ShardTakes \/ WholeRefused
    BY <2>5 DEF ShardTakes, WholeRefused, link
  <2>6. CASE TimerFires \/ Connect \/ SnapshotsAnswered \/ IdentitySettles \/ Drop \/ TokenRefreshed
    BY <2>6 DEF TimerFires, Connect, SnapshotsAnswered, IdentitySettles, Drop, TokenRefreshed, link
  <2>7. CASE \/ Storage \/ UNCHANGED vars \/ Reload
             \/ (\E w \in Writes : AppendFails(w)) \/ \E k \in Keys : StrayLands(k)
    BY <2>7 DEF Storage, AppendLands, RemoveLands, AppendFails, PageHides, Hydrate, StrayLands, Reload, storage, link, vars
  <2> QED
    BY <2>1, <2>2, <2>3, <2>4, <2>5, <2>6, <2>7 DEF Next, Failures, Replay
<1> QED
  BY <1>1, <1>2, <1>3 DEF Flagged

-----------------------------------------------------------------------------

Rest == Tries /\ Books /\ Paced /\ Flagged

\* Nothing has been tried, told or set when the page starts.
LEMMA RestInit == Init => Rest
<1> SUFFICES ASSUME Init PROVE Rest
  OBVIOUS
<1>1. Tries
  <2>1. Range(<<>>) = {} /\ OnceIn(Tried, <<>>)
    BY DEF Range, OnceIn
  <2>2. items = <<>> /\ chunk = <<>> /\ rest = <<>> /\ attempts = [w \in Writes |-> 0]
    BY DEF Init
  <2> QED
    BY <2>1, <2>2, ReplayAssumption DEF Tries, Single, InHand
<1>2. Books
  BY DEF Init, Books
<1>3. Paced
  BY ReplayAssumption DEF Init, Paced
<1>4. Flagged
  <2>1. \A x \in {online, ever, answered, parked, timer, hydrated} : x = FALSE
    BY DEF Init
  <2>2. known = "settled" /\ faults = 0 /\ 0 \in 0..MaxFaults
    BY ReplayAssumption DEF Init
  <2> QED
    BY <2>1, <2>2 DEF Flagged
<1> QED
  BY <1>1, <1>2, <1>3, <1>4 DEF Rest

(* Every variable keeps to its values; a batch never has more verdicts than  *)
(* entries, and a write that has spent the last of its attempts is settled:  *)
(* none is tried again (spendsLastReplayAttempt, MAX_AMBIGUOUS_SEND_ATTEMPTS)*)
THEOREM TypeCorrect == Spec => []TypeOK
<1>1. Init => AllInv /\ Rest
  BY InitHolds, RecordsInit, CountedInit, RestInit DEF AllInv
<1>2. AllInv /\ Rest /\ [Next]_vars => (AllInv /\ Rest)'
  BY StepHolds, RecordsStep, CountedStep, TriesStep, BooksStep, PacedStep, FlaggedStep DEF AllInv, Rest
<1>3. AllInv /\ Rest => TypeOK
  <2> SUFFICES ASSUME AllInv, Rest PROVE TypeOK
    OBVIOUS
  <2>1. \A S : \A q \in Seq(S) : Range(q) \subseteq S
    BY DEF Range
  <2>2. Range(store) \subseteq Writes /\ \A q \in {items, chunk, rest} : Range(q) \subseteq Entries
    BY <2>1 DEF AllInv, Memory
  <2>3. Range(slots) \subseteq Verdicts \union {"throttled"} /\ Len(slots) <= Len(chunk)
    <3>1. Range(slots) \subseteq {"committed", "refused", "throttled"}
      BY <2>1 DEF AllInv, Memory
    <3> QED
      BY <3>1 DEF AllInv, Memory, Verdicts
  <2>4. \A w \in Writes : attempts[w] \in 0..MaxAttempts
    BY DEF Rest, Tries
  <2> QED
    BY <2>2, <2>3, <2>4 DEF TypeOK, AllInv, IInv, Passes, Counted, Rest, Tries, Books, Paced, Flagged
<1> QED
  BY <1>1, <1>2, <1>3, PTL DEF Spec
=============================================================================
