------------------------- MODULE WritePipelineProofs -------------------------
(***************************************************************************)
(* Proofs about WritePipeline, for any set of users, any size of the       *)
(* pipeline and any number of writes and disturbances.                     *)
(***************************************************************************)
EXTENDS WritePipeline, SequenceTheorems, WellFoundedInduction, TLAPS

Prefix(p, q) == Len(p) <= Len(q) /\ \A i \in 1..Len(p) : p[i] = q[i]

\* A queue in the order of the ids, which is the order of the writes.
Sorted(q) ==
    /\ \A i \in 1..Len(q) : q[i].id >= 1
    /\ \A i, j \in 1..Len(q) : i < j => q[i].id < q[j].id /\ q[i].write < q[j].write

\* The rows of a user are the user's writes.
RowsInv ==
    /\ \A u \in User : Sorted(queue[u])
    /\ \A u \in User : \A i \in 1..Len(queue[u]) :
          /\ queue[u][i].write \in 1..Len(issued)
          /\ issued[queue[u][i].write] = u
          /\ queue[u][i].id <= Len(issued)

IdsInv ==
    /\ nextId \in 1..(Len(issued) + 1)
    /\ \A i \in 1..Len(queue[user]) : queue[user][i].id < nextId

\* A pipeline that is the head of queue q, as long as it may be while the network is on.
Joined(p, q, on) ==
    /\ Prefix(p, q)
    /\ Len(p) <= kMaxPendingWrites
    /\ on => Len(p) = Smaller(Len(q), kMaxPendingWrites)

PipelineInv == Joined(pipeline, queue[user], enabled)

\* The stream is started exactly when something is in the pipeline, or open and idle.
StreamInv ==
    /\ ~enabled => pipeline = <<>> /\ stream \in {"initial", "error"}
    /\ stream \in {"initial", "error"} => pipeline = <<>>
    /\ stream \in {"starting", "backoff"} => pipeline # <<>>
    /\ handshake = "none" <=> stream # "open"
    /\ handshake \in {"asked", "answered"} => pipeline # <<>>
    /\ "this" \in tokens <=> stream = "starting"
    /\ idle => handshake = "complete" /\ pipeline = <<>>

\* Responses and requests on the wire are the batches of the pipeline.
WireInv ==
    /\ handshake # "complete" => sent = <<>> /\ replies = <<>> /\ ~refusal
    /\ handshake = "complete" => replies \o sent = pipeline
    /\ refusal => sent # <<>>

\* A callback is that of a batch in a queue.
CallbackInv ==
    \A c \in callbacks : \E i \in 1..Len(queue[c.user]) :
        queue[c.user][i].id = c.id /\ queue[c.user][i].write = c.write

\* The type invariant in parts.
StoreOK ==
    /\ queue \in [User -> Seq(Batch)]
    /\ user \in User
    /\ nextId \in Nat
    /\ callbacks \subseteq Callback
    /\ reported \in [Write -> Outcome]

NetworkOK ==
    /\ enabled \in BOOLEAN
    /\ pipeline \in Seq(Batch)
    /\ stream \in StreamState
    /\ handshake \in {"none", "asked", "answered", "complete"}
    /\ idle \in BOOLEAN
    /\ tokens \in SUBSET {"this", "earlier"}
    /\ sent \in Seq(Batch)
    /\ replies \in Seq(Batch)
    /\ refusal \in BOOLEAN

OutsideOK ==
    /\ issued \in Seq(User) /\ Len(issued) <= MaxWrites
    /\ applied \subseteq Write
    /\ refused \subseteq Write
    /\ server \in [User -> Nat]
    /\ faults \in 0..MaxFaults

StoreInv == StoreOK /\ RowsInv /\ IdsInv /\ CallbackInv
NetworkInv == NetworkOK /\ PipelineInv /\ StreamInv /\ WireInv
ClientInv == StoreInv /\ NetworkInv /\ OutsideOK

\* What was told, and what is on the wire, is behind what waits.
\* A write whose caller knows of its success is not after one that waits.
DoneIsBehind ==
    \A v \in 1..Len(issued) : reported[v] = "success" =>
        \A i \in 1..Len(queue[issued[v]]) : queue[issued[v]][i].write >= v

HistoryInv ==
    /\ NoWriteLost
    /\ NoGaps
    /\ SuccessMeansApplied
    /\ \A i \in 1..Len(replies) : replies[i].write \in applied
    /\ refusal => Head(sent).write \in refused
    /\ applied \subseteq 1..Len(issued)
    /\ DoneIsBehind

-----------------------------------------------------------------------------
(* The operators on queues.                                                 *)

LEMMA Elements ==
    ASSUME NEW q \in Seq(Batch)
    PROVE  /\ Len(q) \in Nat
           /\ \A i \in 1..Len(q) : q[i] \in Batch /\ q[i].id \in Nat /\ q[i].write \in Nat
<1>1. \A i \in 1..Len(q) : q[i] \in Batch
  BY ElementOfSeq
<1>2. \A b \in Batch : b.id \in Nat /\ b.write \in Nat
  BY WriteBound DEF Batch, Write
<1>3. Len(q) \in Nat
  BY LenProperties
<1> QED
  BY <1>1, <1>2, <1>3

\* The batch after the k-th one of a sorted queue is the next one.
LEMMA NextPosition ==
    ASSUME NEW q \in Seq(Batch), Sorted(q), NEW k \in 0..Len(q), NEW id,
           id = IF k = 0 THEN 0 ELSE q[k].id
    PROVE  PositionAfter(q, id) = k + 1
<1> DEFINE Is(i) == /\ \A j \in 1..(i - 1) : q[j].id <= id
                    /\ i <= Len(q) => q[i].id > id
<1>0. Len(q) \in Nat /\ \A i \in 1..Len(q) : q[i].id \in Nat /\ q[i].id >= 1
  BY Elements DEF Sorted
<1>1. id \in Nat
  BY <1>0
<1>2. k + 1 \in 1..(Len(q) + 1) /\ Is(k + 1)
  <2>1. \A j \in 1..k : q[j].id <= id
    BY <1>0 DEF Sorted
  <2>2. k + 1 <= Len(q) => q[k + 1].id > id
    BY <1>0 DEF Sorted
  <2> QED
    BY <1>0, <2>1, <2>2
<1>3. ASSUME NEW i \in 1..(Len(q) + 1), Is(i)
      PROVE  i = k + 1
  <2>1. CASE i < k + 1
    <3>1. i \in 1..Len(q) /\ k \in 1..Len(q) /\ i <= k
      BY <2>1, <1>0
    <3>2. q[i].id <= q[k].id
      BY <3>1, <1>0 DEF Sorted
    <3> QED
      BY <3>1, <3>2, <1>0, <1>3
  <2>2. CASE i > k + 1
    <3>1. k + 1 \in 1..(i - 1) /\ k + 1 \in 1..Len(q)
      BY <2>2, <1>0
    <3> QED
      BY <3>1, <1>0, <1>2, <1>3
  <2> QED
    BY <2>1, <2>2, <1>0
<1>4. PositionAfter(q, id) = CHOOSE i \in 1..(Len(q) + 1) : Is(i)
  BY DEF PositionAfter
<1> HIDE DEF Is
<1> QED
  BY <1>2, <1>3, <1>4

\* What joins the pipeline is what follows it in the queue, up to its size.
LEMMA WhatJoins ==
    ASSUME NEW q \in Seq(Batch), Sorted(q), NEW p \in Seq(Batch), Prefix(p, q),
           Len(p) <= kMaxPendingWrites
    PROVE  LET more == MoreBatches(q, p)
           IN  /\ more \in Seq(Batch)
               /\ Len(more) = Smaller(Len(q), kMaxPendingWrites) - Len(p)
               /\ \A i \in 1..Len(more) : more[i] = q[Len(p) + i]
<1> DEFINE last == IF p = <<>> THEN 0 ELSE p[Len(p)].id
           to == Smaller(Len(q), Len(p) + 1 + kMaxPendingWrites - Len(p) - 1)
<1>0. Len(p) \in 0..Len(q) /\ Len(q) \in Nat /\ kMaxPendingWrites \in Nat \ {0}
  BY PipelineSize DEF Prefix
<1>1. last = IF Len(p) = 0 THEN 0 ELSE q[Len(p)].id
  BY <1>0 DEF Prefix
<1>2. PositionAfter(q, last) = Len(p) + 1
  BY <1>0, <1>1, NextPosition
<1>3. MoreBatches(q, p) = SubSeq(q, Len(p) + 1, to)
  BY <1>2 DEF MoreBatches
<1>4. to = Smaller(Len(q), kMaxPendingWrites) /\ to \in Len(p)..Len(q)
  BY <1>0 DEF Smaller
<1> HIDE DEF to, last
<1> QED
  BY <1>0, <1>3, <1>4

\* Removing the oldest batch leaves the others in their order.
LEMMA WithoutOldest ==
    ASSUME NEW q \in Seq(Batch), Sorted(q), q # <<>>, NEW id, id = q[1].id
    PROVE  /\ WithoutBatch(q, id) \in Seq(Batch)
           /\ Len(WithoutBatch(q, id)) = Len(q) - 1
           /\ \A i \in 1..(Len(q) - 1) : WithoutBatch(q, id)[i] = q[i + 1]
<1>0. Len(q) \in Nat \ {0} /\ \A i \in 1..Len(q) : q[i] \in Batch /\ q[i].id \in Nat
  BY Elements
<1>1. \A i \in 1..Len(q) : q[i].id = id => i = 1
  BY <1>0 DEF Sorted
<1>2. (CHOOSE i \in 1..Len(q) : q[i].id = id) = 1
  BY <1>0, <1>1
<1>3. WithoutBatch(q, id) = [i \in 1..(Len(q) - 1) |-> IF i < 1 THEN q[i] ELSE q[i + 1]]
  BY <1>2 DEF WithoutBatch
<1>4. \A i \in 1..(Len(q) - 1) : WithoutBatch(q, id)[i] = q[i + 1]
  BY <1>0, <1>3
<1>5. DOMAIN WithoutBatch(q, id) = 1..(Len(q) - 1) /\ Len(q) - 1 \in Nat
  BY <1>0, <1>3
<1>6. WithoutBatch(q, id) \in [1..(Len(q) - 1) -> Batch]
  BY <1>0, <1>3
<1>7. WithoutBatch(q, id) \in Seq(Batch)
  BY <1>5, <1>6, SeqDef
<1> QED
  BY <1>4, <1>5, <1>7

\* A set of numbers with 0 and a bound has a largest one: the least of its bounds.
LEMMA LargestExists ==
    ASSUME NEW ids \in SUBSET Nat, 0 \in ids, NEW n \in Nat, \A x \in ids : x <= n
    PROVE  \E m \in ids : \A x \in ids : x <= m
<1> DEFINE R == OpToRel(<, Nat)
           bounds == {b \in Nat : \A x \in ids : x <= b}
<1>1. \A x, y \in Nat : x < y => <<x, y>> \in R
  BY DEF OpToRel
<1>2. bounds \subseteq Nat /\ bounds # {}
  OBVIOUS
<1>3. IsWellFoundedOn(R, Nat)
  BY NatLessThanWellFounded
<1> HIDE DEF R
<1>4. PICK m \in bounds : \A y \in bounds : ~ (<<y, m>> \in R)
  BY <1>2, <1>3, WFMin
<1>5. ASSUME NEW y \in bounds
      PROVE  m <= y
  <2>1. y \in Nat /\ m \in Nat
    BY <1>2
  <2>2. ~ (<<y, m>> \in R)
    BY <1>4
  <2>3. y < m => <<y, m>> \in R
    BY <2>1, <1>1
  <2> QED
    BY <2>1, <2>2, <2>3
<1>6. m \in ids
  <2> SUFFICES ASSUME m \notin ids PROVE FALSE
    OBVIOUS
  <2>1. m \in Nat /\ \A x \in ids : x \in Nat /\ x < m
    BY <1>2, <1>4
  <2>2. m - 1 \in bounds
    BY <2>1
  <2> QED
    BY <2>1, <2>2, <1>5
<1> QED
  BY <1>6, <1>4

\* The next id after a start is larger than any id in a queue.
LEMMA NextIdIsNew ==
    ASSUME NEW q \in [User -> Seq(Batch)], NEW n \in Nat,
           \A u \in User : \A i \in 1..Len(q[u]) : q[u][i].id <= n
    PROVE  /\ LoadNextBatchId(q) \in 1..(n + 1)
           /\ \A u \in User : \A i \in 1..Len(q[u]) : q[u][i].id < LoadNextBatchId(q)
<1> DEFINE of(u) == {q[u][i].id : i \in 1..Len(q[u])}
           ids == {0} \cup UNION {of(u) : u \in User}
           max == CHOOSE m \in ids : \A x \in ids : x <= m
<1>1. \A u \in User : \A i \in 1..Len(q[u]) : q[u][i].id \in Nat /\ q[u][i].id \in ids
  BY Elements
<1>2. \A x \in ids : x \in Nat /\ x <= n
  BY <1>1
<1>3. LoadNextBatchId(q) = 1 + max
  BY DEF LoadNextBatchId
<1>4. ids \in SUBSET Nat /\ 0 \in ids
  BY <1>2
<1> HIDE DEF ids
<1>5. max \in ids /\ \A x \in ids : x <= max
  BY <1>2, <1>4, LargestExists
<1> HIDE DEF max
<1> QED
  BY <1>1, <1>2, <1>3, <1>4, <1>5

-----------------------------------------------------------------------------
(* The rows.                                                                *)

\* Removing the oldest batch of the user's queue.
LEMMA RowRemoved ==
    ASSUME StoreOK, RowsInv, pipeline \in Seq(Batch), pipeline # <<>>,
           Prefix(pipeline, queue[user]),
           NEW q, q = WithoutBatch(queue[user], Head(pipeline).id),
           queue' = [queue EXCEPT ![user] = q], issued' = issued
    PROVE  /\ Head(pipeline) = queue[user][1]
           /\ queue[user] # <<>>
           /\ q \in Seq(Batch)
           /\ Len(q) = Len(queue[user]) - 1
           /\ \A i \in 1..Len(q) : q[i] = queue[user][i + 1]
           /\ queue' \in [User -> Seq(Batch)]
           /\ queue'[user] = q
           /\ \A u \in User \ {user} : queue'[u] = queue[u]
           /\ Sorted(q)
           /\ Tail(pipeline) \in Seq(Batch)
           /\ Len(Tail(pipeline)) = Len(pipeline) - 1
           /\ Prefix(Tail(pipeline), q)
           /\ RowsInv'
<1> DEFINE r == queue[user]
<1>0. user \in User /\ queue \in [User -> Seq(Batch)] /\ pipeline \in Seq(Batch)
  BY DEF StoreOK
<1>1. r \in Seq(Batch) /\ Sorted(r) /\ Len(r) \in Nat /\ Len(pipeline) \in Nat \ {0}
  BY <1>0, Elements, EmptySeq DEF RowsInv
<1>2. Len(pipeline) <= Len(r) /\ \A i \in 1..Len(pipeline) : pipeline[i] = r[i]
  BY DEF Prefix
<1>3. Head(pipeline) = r[1] /\ r # <<>> /\ Len(r) >= 1
  BY <1>0, <1>1, <1>2
<1> HIDE DEF r
<1>4. /\ q \in Seq(Batch)
      /\ Len(q) = Len(r) - 1
      /\ \A i \in 1..Len(q) : q[i] = r[i + 1]
  <2>1. q = WithoutBatch(r, r[1].id)
    BY <1>3 DEF r
  <2>2. /\ WithoutBatch(r, r[1].id) \in Seq(Batch)
        /\ Len(WithoutBatch(r, r[1].id)) = Len(r) - 1
        /\ \A i \in 1..(Len(r) - 1) : WithoutBatch(r, r[1].id)[i] = r[i + 1]
    BY <1>1, <1>3, WithoutOldest
  <2> QED
    BY <2>1, <2>2
<1>5. /\ queue' \in [User -> Seq(Batch)]
      /\ queue'[user] = q
      /\ \A u \in User \ {user} : queue'[u] = queue[u]
  BY <1>0, <1>4
<1>6. Sorted(q)
  <2>1. \A i \in 1..Len(r) : r[i].id \in Nat /\ r[i].write \in Nat
    BY <1>1, Elements
  <2>2. \A i \in 1..Len(q) : i + 1 \in 1..Len(r) /\ q[i] = r[i + 1]
    BY <1>1, <1>3, <1>4
  <2>3. \A i \in 1..Len(q) : q[i].id >= 1
    BY <1>1, <2>2 DEF Sorted
  <2>4. ASSUME NEW i \in 1..Len(q), NEW j \in 1..Len(q), i < j
        PROVE  q[i].id < q[j].id /\ q[i].write < q[j].write
    <3>1. i + 1 < j + 1 /\ i + 1 \in 1..Len(r) /\ j + 1 \in 1..Len(r)
      BY <1>1, <1>4, <2>2, <2>4
    <3> QED
      BY <3>1, <2>2, <1>1 DEF Sorted
  <2> QED
    BY <2>3, <2>4 DEF Sorted
<1>7. /\ Tail(pipeline) \in Seq(Batch)
      /\ Len(Tail(pipeline)) = Len(pipeline) - 1
      /\ \A i \in 1..Len(Tail(pipeline)) : Tail(pipeline)[i] = pipeline[i + 1]
  BY <1>0, HeadTailProperties
<1>8. Prefix(Tail(pipeline), q)
  <2>1. Len(Tail(pipeline)) <= Len(q)
    BY <1>1, <1>2, <1>4, <1>7
  <2>2. \A i \in 1..Len(Tail(pipeline)) : i + 1 \in 1..Len(pipeline) /\ i \in 1..Len(q)
    BY <1>1, <1>2, <1>4, <1>7
  <2> QED
    BY <2>1, <2>2, <1>2, <1>4, <1>7 DEF Prefix
<1>9. RowsInv'
  <2>1. \A u \in User : Sorted(queue'[u])
    BY <1>5, <1>6 DEF RowsInv
  <2>2. ASSUME NEW u \in User, NEW i \in 1..Len(queue'[u])
        PROVE  /\ queue'[u][i].write \in 1..Len(issued')
               /\ issued'[queue'[u][i].write] = u
               /\ queue'[u][i].id <= Len(issued')
    <3>1. CASE u = user
      <4>1. i \in 1..Len(q) /\ i + 1 \in 1..Len(r) /\ queue'[u][i] = r[i + 1]
        BY <3>1, <1>1, <1>4, <1>5
      <4> QED
        BY <3>1, <4>1 DEF RowsInv, r
    <3>2. CASE u # user
      BY <3>2, <1>5 DEF RowsInv
    <3> QED
      BY <3>1, <3>2
  <2> QED
    BY <2>1, <2>2 DEF RowsInv
<1> QED
  BY <1>3, <1>4, <1>5, <1>6, <1>7, <1>8, <1>9 DEF r

LEMMA CallbackOfOldest ==
    ASSUME StoreOK, RowsInv, CallbackInv, pipeline \in Seq(Batch), pipeline # <<>>,
           Prefix(pipeline, queue[user]),
           NEW c \in callbacks, c.user = user, c.id = Head(pipeline).id
    PROVE  c.write = Head(pipeline).write
<1>1. queue[user] \in Seq(Batch) /\ Sorted(queue[user])
  BY DEF StoreOK, RowsInv
<1>2. Len(pipeline) \in Nat \ {0} /\ Len(queue[user]) \in Nat /\ Len(pipeline) <= Len(queue[user])
  BY <1>1, EmptySeq, LenProperties DEF Prefix
<1>3. Head(pipeline) = queue[user][1]
  BY <1>2 DEF Prefix
<1>4. PICK i \in 1..Len(queue[user]) : queue[user][i].id = c.id /\ queue[user][i].write = c.write
  BY DEF CallbackInv
<1>5. i = 1
  BY <1>1, <1>2, <1>3, <1>4, Elements DEF Sorted
<1> QED
  BY <1>3, <1>4, <1>5

\* The callback of the oldest batch is told, and only of its write.
LEMMA CallbackTold ==
    ASSUME StoreOK, RowsInv, CallbackInv, pipeline \in Seq(Batch), pipeline # <<>>,
           Prefix(pipeline, queue[user]),
           queue' = [queue EXCEPT ![user] = WithoutBatch(queue[user], Head(pipeline).id)],
           issued' = issued, NEW outcome \in Outcome, NotifyUser(Head(pipeline).id, outcome)
    PROVE  /\ callbacks' \subseteq Callback
           /\ reported' \in [Write -> Outcome]
           /\ \A w \in Write : \/ reported'[w] = reported[w]
                               \/ w = Head(pipeline).write /\ reported'[w] = outcome
           /\ CallbackInv'
<1> DEFINE r == queue[user]
           q == WithoutBatch(queue[user], Head(pipeline).id)
           told == {c \in callbacks : c.user = user /\ c.id = Head(pipeline).id}
<1>0. /\ Head(pipeline) = r[1] /\ Len(r) \in Nat \ {0} /\ Len(q) = Len(r) - 1
      /\ r \in Seq(Batch) /\ Sorted(r)
      /\ \A i \in 1..Len(q) : q[i] = r[i + 1]
      /\ queue'[user] = q
      /\ \A u \in User \ {user} : queue'[u] = queue[u]
  <2>1. r \in Seq(Batch) /\ Sorted(r)
    BY DEF StoreOK, RowsInv
  <2> QED
    BY <2>1, RowRemoved, EmptySeq
<1>1. callbacks' = callbacks \ told
      /\ reported' = [w \in Write |-> IF \E c \in told : c.write = w THEN outcome ELSE reported[w]]
  BY DEF NotifyUser
<1>2. \A c \in callbacks : c.user \in User
  BY DEF StoreOK, Callback
<1> HIDE DEF r, q
<1>3. ASSUME NEW c \in told
      PROVE  c.write = Head(pipeline).write
  BY CallbackOfOldest
<1>4. ASSUME NEW c \in callbacks \ told
      PROVE  \E i \in 1..Len(queue'[c.user]) :
                queue'[c.user][i].id = c.id /\ queue'[c.user][i].write = c.write
  <2>1. PICK i \in 1..Len(queue[c.user]) :
            queue[c.user][i].id = c.id /\ queue[c.user][i].write = c.write
    BY DEF CallbackInv
  <2>2. CASE c.user = user
    <3>1. i \in 1..Len(r) /\ i # 1 /\ r[i].id = c.id /\ r[i].write = c.write
      BY <2>1, <2>2, <1>0 DEF r
    <3>2. i - 1 \in 1..Len(q) /\ q[i - 1] = r[i]
      BY <3>1, <1>0
    <3> QED
      BY <3>1, <3>2, <2>2, <1>0
  <2>3. CASE c.user # user
    BY <2>1, <2>3, <1>0, <1>2
  <2> QED
    BY <2>2, <2>3
<1>5. callbacks' \subseteq Callback
  BY <1>1 DEF StoreOK
<1>6. reported' \in [Write -> Outcome]
  BY <1>1 DEF StoreOK
<1>7. CallbackInv'
  BY <1>1, <1>4 DEF CallbackInv
<1> HIDE DEF told
<1>8. \A w \in Write : \/ reported'[w] = reported[w]
                       \/ w = Head(pipeline).write /\ reported'[w] = outcome
  <2> TAKE w \in Write
  <2>1. CASE \E c \in told : c.write = w
    BY <2>1, <1>1, <1>3
  <2>2. CASE ~ \E c \in told : c.write = w
    BY <2>2, <1>1
  <2> QED
    BY <2>1, <2>2
<1> QED
  BY <1>5, <1>6, <1>7, <1>8

-----------------------------------------------------------------------------
(* Filling the pipeline.                                                    *)

\* The pipeline with what joins it.
LEMMA PipelineJoined ==
    ASSUME NEW q \in Seq(Batch), Sorted(q), NEW p \in Seq(Batch), Prefix(p, q),
           Len(p) <= kMaxPendingWrites
    PROVE  LET more == MoreBatches(q, p)
           IN  /\ more \in Seq(Batch)
               /\ p \o more \in Seq(Batch)
               /\ Len(p \o more) = Len(p) + Len(more)
               /\ \A i \in 1..Len(p) : (p \o more)[i] = p[i]
               /\ \A i \in 1..Len(more) : (p \o more)[Len(p) + i] = more[i]
               /\ Joined(p \o more, q, TRUE)
               /\ p # <<>> => p \o more # <<>>
               /\ p \o more = <<>> => more = <<>>
<1> DEFINE more == MoreBatches(q, p)
<1>1. /\ more \in Seq(Batch)
      /\ Len(more) = Smaller(Len(q), kMaxPendingWrites) - Len(p)
      /\ \A i \in 1..Len(more) : more[i] = q[Len(p) + i]
  BY WhatJoins
<1> HIDE DEF more
<1>2. /\ Len(p) \in Nat /\ Len(q) \in Nat /\ Len(more) \in Nat /\ Len(p) <= Len(q)
      /\ kMaxPendingWrites \in Nat
  BY <1>1, Elements, PipelineSize DEF Prefix
<1>3. /\ p \o more \in Seq(Batch)
      /\ Len(p \o more) = Len(p) + Len(more)
      /\ \A i \in 1..(Len(p) + Len(more)) :
            (p \o more)[i] = IF i <= Len(p) THEN p[i] ELSE more[i - Len(p)]
  BY <1>1, ConcatProperties
<1>4. \A i \in 1..Len(p) : (p \o more)[i] = p[i]
  BY <1>2, <1>3
<1>5. ASSUME NEW i \in 1..Len(more)
      PROVE  (p \o more)[Len(p) + i] = more[i]
  <2>1. Len(p) + i \in 1..(Len(p) + Len(more)) /\ ~(Len(p) + i <= Len(p))
    BY <1>2
  <2>2. (Len(p) + i) - Len(p) = i
    BY <1>2
  <2> QED
    BY <2>1, <2>2, <1>3
<1>6. Joined(p \o more, q, TRUE)
  <2>1. Len(p \o more) = Smaller(Len(q), kMaxPendingWrites)
    BY <1>1, <1>2, <1>3 DEF Smaller
  <2>2. Len(p \o more) <= Len(q) /\ Len(p \o more) <= kMaxPendingWrites
    BY <1>2, <2>1 DEF Smaller
  <2>3. ASSUME NEW i \in 1..Len(p \o more)
        PROVE  (p \o more)[i] = q[i]
    <3>1. CASE i <= Len(p)
      BY <3>1, <1>2, <1>4 DEF Prefix
    <3>2. CASE i > Len(p)
      <4>1. i - Len(p) \in 1..Len(more) /\ Len(p) + (i - Len(p)) = i
        BY <3>2, <1>2, <1>3
      <4> QED
        BY <4>1, <1>1, <1>5
    <3> QED
      BY <3>1, <3>2, <1>2, <1>3
  <2> QED
    BY <2>1, <2>2, <2>3 DEF Joined, Prefix
<1>7. (p # <<>> => p \o more # <<>>) /\ (p \o more = <<>> => more = <<>>)
  BY <1>1, ConcatEqualIffEmpty
<1> QED
  BY <1>1, <1>3, <1>4, <1>5, <1>6, <1>7 DEF more

\* Filling while no stream is open.
LEMMA ClosedFill ==
    ASSUME NEW q \in Seq(Batch), Sorted(q), NEW p \in Seq(Batch), Prefix(p, q),
           Len(p) <= kMaxPendingWrites,
           NEW s \in StreamState \ {"open"}, NEW pending \in SUBSET {"this", "earlier"},
           NEW on \in BOOLEAN,
           "this" \in pending <=> s = "starting",
           IsStarted(s) => on /\ p # <<>>,
           ~on => p = <<>>,
           FillClosedStream(q, p, s, pending, on)
    PROVE  /\ pipeline' \in Seq(Batch)
           /\ Joined(pipeline', q, on)
           /\ stream' \in StreamState \ {"open"}
           /\ tokens' \in SUBSET {"this", "earlier"}
           /\ "this" \in tokens' <=> stream' = "starting"
           /\ stream' \in {"initial", "error"} => pipeline' = <<>>
           /\ stream' \in {"starting", "backoff"} => pipeline' # <<>>
           /\ ~on => pipeline' = <<>> /\ stream' \in {"initial", "error"}
<1> DEFINE all == IF on THEN p \o MoreBatches(q, p) ELSE p
           start == on /\ ~IsStarted(s) /\ all # <<>>
<1>1. all \in Seq(Batch) /\ Joined(all, q, on)
  <2>1. CASE on
    BY <2>1, PipelineJoined
  <2>2. CASE ~on
    BY <2>2 DEF Joined
  <2> QED
    BY <2>1, <2>2
<1>2. on /\ p # <<>> => all # <<>>
  BY PipelineJoined
<1>3. ~on => all = p
  OBVIOUS
<1> HIDE DEF all
<1>4. /\ pipeline' = all
      /\ stream' = IF start THEN (IF s = "error" THEN "backoff" ELSE "starting") ELSE s
      /\ tokens' = IF start /\ s # "error" THEN pending \cup {"this"} ELSE pending
  BY DEF FillClosedStream, all
<1>5. CASE start
  <2>1. s \in {"initial", "error"} /\ all # <<>> /\ on
    BY <1>5 DEF IsStarted, StreamState
  <2>2. CASE s = "error"
    BY <2>1, <2>2, <1>1, <1>4, <1>5 DEF StreamState
  <2>3. CASE s = "initial"
    BY <2>1, <2>3, <1>1, <1>4, <1>5 DEF StreamState
  <2> QED
    BY <2>1, <2>2, <2>3
<1>6. CASE ~start
  <2>1. pipeline' = all /\ stream' = s /\ tokens' = pending
    BY <1>4, <1>6
  <2>2. CASE IsStarted(s)
    <3>1. s \in {"starting", "backoff"} /\ all # <<>> /\ on
      BY <2>2, <1>2 DEF IsStarted
    <3> QED
      BY <3>1, <2>1, <1>1 DEF StreamState
  <2>3. CASE ~IsStarted(s)
    <3>1. s \in {"initial", "error"} /\ all = <<>>
      BY <2>3, <1>3, <1>6 DEF IsStarted, StreamState
    <3> QED
      BY <3>1, <2>1, <1>1 DEF StreamState
  <2> QED
    BY <2>2, <2>3
<1> QED
  BY <1>5, <1>6

LEMMA Regroup ==
    ASSUME NEW r \in Seq(Batch), NEW s \in Seq(Batch), NEW t \in Seq(Batch)
    PROVE  (r \o s) \o t = r \o (s \o t)
BY ConcatAssociative

\* Filling while the stream is open, where the responses r are on the wire.
LEMMA OpenFill ==
    ASSUME NEW q \in Seq(Batch), Sorted(q), NEW p \in Seq(Batch), Prefix(p, q),
           Len(p) <= kMaxPendingWrites, NEW r \in Seq(Batch), sent \in Seq(Batch),
           enabled = TRUE, idle \in BOOLEAN,
           handshake = "complete" => r \o sent = p,
           handshake # "complete" => sent = <<>> /\ p # <<>>,
           idle => handshake = "complete" /\ p = <<>>,
           FillOpenStream(q, p)
    PROVE  /\ pipeline' \in Seq(Batch)
           /\ Joined(pipeline', q, TRUE)
           /\ sent' \in Seq(Batch)
           /\ idle' \in BOOLEAN
           /\ handshake = "complete" => r \o sent' = pipeline'
           /\ handshake # "complete" => sent' = <<>> /\ pipeline' # <<>>
           /\ idle' => handshake = "complete" /\ pipeline' = <<>>
           /\ sent # <<>> => sent' # <<>> /\ Head(sent') = Head(sent)
           /\ stream' = stream /\ tokens' = tokens
<1> DEFINE more == MoreBatches(q, p)
           all == p \o more
           send == handshake = "complete" /\ more # <<>>
<1>1. /\ more \in Seq(Batch)
      /\ all \in Seq(Batch)
      /\ Len(all) = Len(p) + Len(more)
      /\ \A i \in 1..Len(p) : all[i] = p[i]
      /\ \A i \in 1..Len(more) : all[Len(p) + i] = more[i]
      /\ Joined(all, q, TRUE)
      /\ p # <<>> => all # <<>>
      /\ all = <<>> => more = <<>>
  BY PipelineJoined
<1>2. /\ pipeline' = all
      /\ sent' = IF send THEN sent \o more ELSE sent
      /\ idle' = IF send THEN FALSE ELSE (idle \/ (enabled /\ all = <<>>))
      /\ stream' = stream /\ tokens' = tokens
  BY DEF FillOpenStream
<1>3. more = <<>> => all = p
  BY ConcatEmptySeq
<1> HIDE DEF more, all
<1>4. Len(p) \in Nat /\ Len(r) \in Nat /\ Len(sent) \in Nat /\ Len(more) \in Nat
  BY <1>1, LenProperties
<1>5. CASE send
  <2>1. sent' = sent \o more /\ idle' = FALSE
    BY <1>2, <1>5
  <2>2. /\ sent' \in Seq(Batch)
        /\ Len(sent') = Len(sent) + Len(more)
        /\ \A i \in 1..(Len(sent) + Len(more)) :
              sent'[i] = IF i <= Len(sent) THEN sent[i] ELSE more[i - Len(sent)]
    BY <2>1, <1>1, ConcatProperties
  <2>3. r \o sent' = all
    <3>1. r \o (sent \o more) = (r \o sent) \o more
      <4>1. more \in Seq(Batch)
        BY <1>1
      <4> QED
        BY <4>1, Regroup
    <3> QED
      BY <3>1, <2>1, <1>5 DEF all
  <2>4. sent # <<>> => sent' # <<>> /\ Head(sent') = Head(sent)
    <3> SUFFICES ASSUME sent # <<>> PROVE sent' # <<>> /\ Head(sent') = Head(sent)
      OBVIOUS
    <3>1. Len(sent) >= 1
      BY EmptySeq
    <3>2. Len(sent') >= 1 /\ sent'[1] = sent[1]
      BY <3>1, <2>2, <1>4
    <3> QED
      BY <3>1, <3>2, <2>2, EmptySeq
  <2> QED
    BY <2>1, <2>2, <2>3, <2>4, <1>1, <1>2, <1>5
<1>6. CASE ~send
  <2>1. sent' = sent /\ idle' = (idle \/ (enabled /\ all = <<>>))
    BY <1>2, <1>6
  <2>2. handshake = "complete" => all = p
    BY <1>3, <1>6
  <2>3. handshake # "complete" => all # <<>>
    BY <1>1
  <2>4. idle' => handshake = "complete" /\ all = <<>>
    BY <2>1, <2>2, <2>3
  <2>5. idle' \in BOOLEAN
    BY <2>1
  <2> QED
    BY <2>1, <2>2, <2>3, <2>4, <2>5, <1>1, <1>2
<1> QED
  BY <1>5, <1>6

LEMMA TypeParts == TypeOK <=> StoreOK /\ NetworkOK /\ OutsideOK
BY DEF TypeOK, StoreOK, NetworkOK, OutsideOK

\* A response leaves the wire, a request is answered.
LEMMA WireAnswered ==
    ASSUME NEW r \in Seq(Batch), NEW s \in Seq(Batch), r # <<>>
    PROVE  /\ r \o s # <<>> /\ Head(r \o s) = Head(r)
           /\ Tail(r \o s) = Tail(r) \o s
<1>1. /\ r \o s \in Seq(Batch) /\ Len(r \o s) = Len(r) + Len(s)
      /\ \A i \in 1..(Len(r) + Len(s)) : (r \o s)[i] = IF i <= Len(r) THEN r[i] ELSE s[i - Len(r)]
  BY ConcatProperties
<1>2. Len(r) \in Nat \ {0} /\ Len(s) \in Nat
  BY EmptySeq, LenProperties
<1>3. r \o s # <<>> /\ Head(r \o s) = Head(r)
  BY <1>1, <1>2
<1>4. /\ Tail(r) \in Seq(Batch) /\ Len(Tail(r)) = Len(r) - 1
      /\ \A i \in 1..Len(Tail(r)) : Tail(r)[i] = r[i + 1]
  BY HeadTailProperties
<1>5. /\ Tail(r) \o s \in Seq(Batch)
      /\ Len(Tail(r) \o s) = Len(Tail(r)) + Len(s)
      /\ \A i \in 1..(Len(Tail(r)) + Len(s)) :
            (Tail(r) \o s)[i] = IF i <= Len(Tail(r)) THEN Tail(r)[i] ELSE s[i - Len(Tail(r))]
  BY <1>4, ConcatProperties
<1>6. /\ Tail(r \o s) \in Seq(Batch)
      /\ Len(Tail(r \o s)) = Len(r \o s) - 1
      /\ \A i \in 1..Len(Tail(r \o s)) : Tail(r \o s)[i] = (r \o s)[i + 1]
  BY <1>1, <1>3, HeadTailProperties
<1>7. Len(Tail(r \o s)) = Len(Tail(r) \o s)
  BY <1>1, <1>2, <1>4, <1>5, <1>6
<1>8. ASSUME NEW i \in 1..Len(Tail(r \o s))
      PROVE  Tail(r \o s)[i] = (Tail(r) \o s)[i]
  <2>1. i \in 1..(Len(Tail(r)) + Len(s)) /\ i + 1 \in 1..(Len(r) + Len(s))
    BY <1>1, <1>2, <1>4, <1>6
  <2>2. CASE i <= Len(Tail(r))
    BY <2>1, <2>2, <1>1, <1>2, <1>4, <1>5, <1>6
  <2>3. CASE i > Len(Tail(r))
    <3>1. i - Len(Tail(r)) = (i + 1) - Len(r) /\ ~(i + 1 <= Len(r))
      BY <2>3, <1>2, <1>4
    <3> QED
      BY <3>1, <2>1, <2>3, <1>1, <1>2, <1>4, <1>5, <1>6
  <2> QED
    BY <2>1, <2>2, <2>3, <1>2, <1>4
<1> QED
  BY <1>3, <1>5, <1>6, <1>7, <1>8, SeqEqual

LEMMA WireApplied ==
    ASSUME NEW r \in Seq(Batch), NEW s \in Seq(Batch), s # <<>>
    PROVE  /\ Append(r, Head(s)) \in Seq(Batch) /\ Tail(s) \in Seq(Batch)
           /\ Append(r, Head(s)) \o Tail(s) = r \o s
<1>1. /\ Head(s) \in Batch /\ Tail(s) \in Seq(Batch) /\ Len(Tail(s)) = Len(s) - 1
      /\ \A i \in 1..Len(Tail(s)) : Tail(s)[i] = s[i + 1]
  BY HeadTailProperties
<1>2. Len(r) \in Nat /\ Len(s) \in Nat \ {0} /\ Head(s) = s[1]
  BY EmptySeq, LenProperties
<1> DEFINE a == Append(r, Head(s))
<1>3. /\ a \in Seq(Batch) /\ Len(a) = Len(r) + 1 /\ a[Len(r) + 1] = s[1]
      /\ \A i \in 1..Len(r) : a[i] = r[i]
  BY <1>1, <1>2
<1> HIDE DEF a
<1>4. /\ a \o Tail(s) \in Seq(Batch)
      /\ Len(a \o Tail(s)) = Len(a) + Len(Tail(s))
      /\ \A i \in 1..(Len(a) + Len(Tail(s))) :
            (a \o Tail(s))[i] = IF i <= Len(a) THEN a[i] ELSE Tail(s)[i - Len(a)]
  BY <1>1, <1>3, ConcatProperties
<1>5. /\ r \o s \in Seq(Batch) /\ Len(r \o s) = Len(r) + Len(s)
      /\ \A i \in 1..(Len(r) + Len(s)) : (r \o s)[i] = IF i <= Len(r) THEN r[i] ELSE s[i - Len(r)]
  BY ConcatProperties
<1>6. Len(a \o Tail(s)) = Len(r \o s)
  BY <1>1, <1>2, <1>3, <1>4, <1>5
<1>7. ASSUME NEW i \in 1..Len(a \o Tail(s))
      PROVE  (a \o Tail(s))[i] = (r \o s)[i]
  <2>0. i \in 1..(Len(a) + Len(Tail(s))) /\ i \in 1..(Len(r) + Len(s)) /\ i \in Nat
    BY <1>2, <1>4, <1>5, <1>6
  <2>1. CASE i <= Len(r)
    BY <2>0, <2>1, <1>2, <1>3, <1>4, <1>5
  <2>2. CASE i = Len(r) + 1
    BY <2>0, <2>2, <1>2, <1>3, <1>4, <1>5
  <2>3. CASE i > Len(r) + 1
    <3>1. i - Len(a) \in 1..Len(Tail(s)) /\ (i - Len(a)) + 1 = i - Len(r)
      BY <2>0, <2>3, <1>1, <1>2, <1>3
    <3>2. (a \o Tail(s))[i] = Tail(s)[i - Len(a)]
      BY <2>0, <2>3, <1>2, <1>3, <1>4
    <3>3. (r \o s)[i] = s[i - Len(r)]
      BY <2>0, <2>3, <1>2, <1>5
    <3> QED
      BY <3>1, <3>2, <3>3, <1>1
  <2> QED
    BY <2>0, <2>1, <2>2, <2>3, <1>2
<1> QED
  BY <1>1, <1>3, <1>4, <1>5, <1>6, <1>7, SeqEqual DEF a

-----------------------------------------------------------------------------
(* The parts of the invariant, action by action.                            *)

LEMMA StoreSame ==
    ASSUME StoreInv, UNCHANGED <<queue, user, nextId, callbacks, reported, issued>>
    PROVE  StoreInv'
<1>1. StoreOK'
  BY DEF StoreInv, StoreOK
<1>2. RowsInv'
  BY DEF StoreInv, RowsInv
<1>3. IdsInv' /\ CallbackInv'
  BY DEF StoreInv, IdsInv, CallbackInv
<1> QED
  BY <1>1, <1>2, <1>3 DEF StoreInv

LEMMA OutsideSame ==
    ASSUME OutsideOK, UNCHANGED <<issued, outside>>, Disturb \/ UNCHANGED faults
    PROVE  OutsideOK'
<1>1. faults' \in 0..MaxFaults
  BY FaultBound DEF OutsideOK, Disturb
<1> QED
  BY <1>1 DEF OutsideOK, outside

LEMMA VoidedTokens ==
    /\ Voided \in SUBSET {"this", "earlier"}
    /\ "this" \notin Voided
BY DEF Voided

\* What the rows of the signed-in user and the pipeline are.
LEMMA Pipeline ==
    ASSUME StoreInv, NetworkInv
    PROVE  /\ queue[user] \in Seq(Batch) /\ Sorted(queue[user])
           /\ pipeline \in Seq(Batch) /\ Prefix(pipeline, queue[user])
           /\ Len(pipeline) <= kMaxPendingWrites
BY DEF StoreInv, StoreOK, RowsInv, NetworkInv, NetworkOK, PipelineInv, Joined

\* Where a response or a refusal is, a stream is open and a batch waits for it.
LEMMA Occupied ==
    ASSUME StoreInv, NetworkInv, replies # <<>> \/ refusal
    PROVE  /\ pipeline # <<>> /\ enabled = TRUE
           /\ stream = "open" /\ handshake = "complete" /\ idle = FALSE
           /\ replies \o sent = pipeline
           /\ replies # <<>> => Head(pipeline) = Head(replies) /\ Tail(pipeline) = Tail(replies) \o sent
           /\ replies = <<>> => Head(pipeline) = Head(sent) /\ sent # <<>>
<1>1. handshake = "complete" /\ replies \o sent = pipeline /\ (replies = <<>> => sent # <<>>)
  BY DEF NetworkInv, WireInv
<1>2. replies \in Seq(Batch) /\ sent \in Seq(Batch) /\ enabled \in BOOLEAN /\ idle \in BOOLEAN
  BY DEF NetworkInv, NetworkOK
<1>3. stream = "open"
  BY <1>1 DEF NetworkInv, StreamInv
<1>4. enabled = TRUE
  BY <1>2, <1>3 DEF NetworkInv, StreamInv
<1>5. CASE replies # <<>>
  <2>1. /\ replies \o sent # <<>> /\ Head(replies \o sent) = Head(replies)
        /\ Tail(replies \o sent) = Tail(replies) \o sent
    BY <1>2, <1>5, WireAnswered
  <2>2. idle = FALSE
    BY <2>1, <1>1, <1>2 DEF NetworkInv, StreamInv
  <2> QED
    BY <2>1, <2>2, <1>1, <1>3, <1>4, <1>5
<1>6. CASE replies = <<>>
  <2>1. replies \o sent = sent
    BY <1>2, <1>6, ConcatEmptySeq
  <2>2. idle = FALSE
    BY <2>1, <1>1, <1>2, <1>6 DEF NetworkInv, StreamInv
  <2> QED
    BY <2>1, <2>2, <1>1, <1>3, <1>4, <1>6
<1> QED
  BY <1>5, <1>6

\* The network without a connection.
LEMMA Disconnected ==
    ASSUME DropConnection, stream' # "open",
           pipeline' \in Seq(Batch), Joined(pipeline', queue'[user'], enabled'),
           enabled' \in BOOLEAN, stream' \in StreamState,
           tokens' \in SUBSET {"this", "earlier"},
           "this" \in tokens' <=> stream' = "starting",
           stream' \in {"initial", "error"} => pipeline' = <<>>,
           stream' \in {"starting", "backoff"} => pipeline' # <<>>,
           ~enabled' => pipeline' = <<>> /\ stream' \in {"initial", "error"}
    PROVE  NetworkInv'
<1>1. handshake' = "none" /\ idle' = FALSE /\ sent' = <<>> /\ replies' = <<>> /\ refusal' = FALSE
  BY DEF DropConnection
<1>2. NetworkOK'
  <2>1. sent' \in Seq(Batch) /\ replies' \in Seq(Batch)
    BY <1>1
  <2>2. idle' \in BOOLEAN /\ refusal' \in BOOLEAN
    BY <1>1
  <2> QED
    BY <1>1, <2>1, <2>2 DEF NetworkOK
<1>3. PipelineInv'
  BY DEF PipelineInv
<1>4. StreamInv'
  BY <1>1 DEF StreamInv
<1>5. WireInv'
  BY <1>1 DEF WireInv
<1> QED
  BY <1>2, <1>3, <1>4, <1>5 DEF NetworkInv

\* Starting over with the queue of the signed-in user.
LEMMA Restarted ==
    ASSUME NEW q \in Seq(Batch), Sorted(q), NEW pending \in SUBSET {"earlier"},
           FillClosedStream(q, <<>>, "initial", pending, TRUE), DropConnection,
           enabled' = TRUE, queue'[user'] = q
    PROVE  NetworkInv'
<1>1. Prefix(<<>>, q) /\ Len(<<>>) <= kMaxPendingWrites /\ <<>> \in Seq(Batch)
  BY PipelineSize, Elements DEF Prefix
<1>2. /\ "initial" \in StreamState \ {"open"} /\ ~IsStarted("initial")
      /\ pending \in SUBSET {"this", "earlier"} /\ "this" \notin pending
  BY DEF StreamState, IsStarted
<1>3. /\ pipeline' \in Seq(Batch)
      /\ Joined(pipeline', q, TRUE)
      /\ stream' \in StreamState \ {"open"}
      /\ tokens' \in SUBSET {"this", "earlier"}
      /\ "this" \in tokens' <=> stream' = "starting"
      /\ stream' \in {"initial", "error"} => pipeline' = <<>>
      /\ stream' \in {"starting", "backoff"} => pipeline' # <<>>
  BY <1>1, <1>2, ClosedFill
<1> QED
  BY <1>3, Disconnected

\* After an error that gives up no batch.
LEMMA RetriedLater ==
    ASSUME StoreInv, NetworkInv, RetryLater, DropConnection, UNCHANGED <<user, enabled>>
    PROVE  NetworkInv'
<1>1. /\ stream' = IF enabled /\ pipeline # <<>> THEN "backoff" ELSE "error"
      /\ tokens' = Voided /\ pipeline' = pipeline /\ queue' = queue
  BY DEF RetryLater
<1>2. ~enabled => pipeline = <<>>
  BY DEF NetworkInv, StreamInv
<1>3. PipelineInv /\ enabled \in BOOLEAN /\ pipeline \in Seq(Batch)
  BY DEF NetworkInv, NetworkOK
<1>4. Joined(pipeline', queue'[user'], enabled')
  BY <1>1, <1>3 DEF PipelineInv
<1>5. stream' \in StreamState \ {"open", "starting"}
  BY <1>1 DEF StreamState
<1> QED
  BY <1>1, <1>2, <1>3, <1>4, <1>5, VoidedTokens, Disconnected

\* The oldest batch is given up.
LEMMA GivenUp ==
    ASSUME StoreInv, NetworkInv, refusal, HandleWriteError, DropConnection,
           UNCHANGED <<user, nextId, enabled, issued>>
    PROVE  StoreInv' /\ NetworkInv'
<1> DEFINE q == WithoutBatch(queue[user], Head(pipeline).id)
<1>1. pipeline # <<>> /\ enabled = TRUE
  BY Occupied
<1>2. /\ queue[user] \in Seq(Batch) /\ pipeline \in Seq(Batch)
      /\ Prefix(pipeline, queue[user]) /\ Len(pipeline) <= kMaxPendingWrites
  BY Pipeline
<1>3. StoreOK /\ RowsInv /\ IdsInv /\ CallbackInv
  BY DEF StoreInv
<1>4. /\ queue' = [queue EXCEPT ![user] = q]
      /\ NotifyUser(Head(pipeline).id, "error")
      /\ FillClosedStream(q, Tail(pipeline), "initial", Voided, enabled)
  BY DEF HandleWriteError
<1>5. /\ q \in Seq(Batch) /\ Sorted(q) /\ queue'[user] = q
      /\ Tail(pipeline) \in Seq(Batch) /\ Prefix(Tail(pipeline), q)
      /\ Len(Tail(pipeline)) <= kMaxPendingWrites
      /\ RowsInv' /\ queue' \in [User -> Seq(Batch)]
      /\ Len(q) = Len(queue[user]) - 1
      /\ \A i \in 1..Len(q) : q[i] = queue[user][i + 1]
  <2>1. Len(Tail(pipeline)) = Len(pipeline) - 1 /\ Len(pipeline) \in Nat
    BY <1>1, <1>2, HeadTailProperties, LenProperties
  <2>2. Len(Tail(pipeline)) <= kMaxPendingWrites
    BY <2>1, <1>2, PipelineSize
  <2> QED
    BY <2>2, <1>1, <1>2, <1>3, <1>4, RowRemoved
<1>6. callbacks' \subseteq Callback /\ reported' \in [Write -> Outcome] /\ CallbackInv'
  BY <1>1, <1>2, <1>3, <1>4, CallbackTold DEF Outcome
<1> HIDE DEF q
<1>7. StoreInv'
  <2>1. StoreOK'
    BY <1>3, <1>5, <1>6 DEF StoreOK
  <2>2. IdsInv'
    <3>1. Len(queue[user]) \in Nat
      BY <1>2, LenProperties
    <3>2. \A i \in 1..Len(q) : i + 1 \in 1..Len(queue[user])
      BY <3>1, <1>5
    <3> QED
      BY <3>2, <1>3, <1>5 DEF IdsInv
  <2> QED
    BY <2>1, <2>2, <1>5, <1>6 DEF StoreInv
<1>8. NetworkInv'
  <2>1. /\ "initial" \in StreamState \ {"open"} /\ ~IsStarted("initial")
    BY DEF StreamState, IsStarted
  <2>2. /\ pipeline' \in Seq(Batch)
        /\ Joined(pipeline', q, TRUE)
        /\ stream' \in StreamState \ {"open"}
        /\ tokens' \in SUBSET {"this", "earlier"}
        /\ "this" \in tokens' <=> stream' = "starting"
        /\ stream' \in {"initial", "error"} => pipeline' = <<>>
        /\ stream' \in {"starting", "backoff"} => pipeline' # <<>>
    BY <2>1, <1>1, <1>4, <1>5, VoidedTokens, ClosedFill
  <2> QED
    BY <2>2, <1>1, <1>5, Disconnected
<1> QED
  BY <1>7, <1>8

LEMMA Written ==
    ASSUME ClientInv, WriteMutations
    PROVE  ClientInv' /\ (refusal => Head(sent') = Head(sent))
<1> DEFINE w == Len(issued) + 1
           b == [id |-> nextId, write |-> w]
           r == queue[user]
           q == Append(r, b)
<1>0. StoreInv /\ NetworkInv /\ OutsideOK
  BY DEF ClientInv
<1>1. /\ StoreOK /\ RowsInv /\ IdsInv /\ CallbackInv
  BY <1>0 DEF StoreInv
<1>2. /\ r \in Seq(Batch) /\ Sorted(r) /\ Len(r) \in Nat
      /\ pipeline \in Seq(Batch) /\ Prefix(pipeline, r)
      /\ Len(pipeline) <= kMaxPendingWrites
  BY <1>0, Pipeline, LenProperties
<1>3. /\ issued \in Seq(User) /\ Len(issued) \in Nat /\ user \in User /\ nextId \in Nat
      /\ nextId >= 1 /\ nextId <= Len(issued) + 1 /\ w \in Write /\ b \in Batch
  <2>1. issued \in Seq(User) /\ user \in User /\ nextId \in Nat
    BY <1>0, <1>1 DEF OutsideOK, StoreOK
  <2>2. Len(issued) \in Nat
    BY <2>1, LenProperties
  <2>3. Len(issued) < MaxWrites
    BY DEF WriteMutations
  <2>4. w \in Write
    BY <2>2, <2>3, WriteBound DEF Write
  <2>5. nextId >= 1 /\ nextId <= Len(issued) + 1
    BY <1>1, <2>2 DEF IdsInv
  <2> QED
    BY <2>1, <2>2, <2>4, <2>5 DEF Batch
<1>4. /\ queue' = [queue EXCEPT ![user] = q]
      /\ nextId' = nextId + 1
      /\ issued' = Append(issued, user)
      /\ callbacks' = IF \E c \in callbacks : c.user = user /\ c.id = nextId
                      THEN callbacks
                      ELSE callbacks \cup {[user |-> user, id |-> nextId, write |-> w]}
      /\ IF stream = "open"
         THEN FillOpenStream(q, pipeline)
         ELSE /\ FillClosedStream(q, pipeline, stream, tokens, enabled)
              /\ UNCHANGED <<sent, idle>>
      /\ UNCHANGED <<user, enabled, handshake, replies, refusal, outside, reported, faults>>
  BY DEF WriteMutations
<1>5. /\ Len(issued') = Len(issued) + 1 /\ issued'[w] = user
      /\ \A i \in 1..Len(issued) : issued'[i] = issued[i]
      /\ issued' \in Seq(User)
  BY <1>3, <1>4
<1> HIDE DEF r, b, w
<1>6. /\ q \in Seq(Batch) /\ Len(q) = Len(r) + 1 /\ q[Len(r) + 1] = b
      /\ \A i \in 1..Len(r) : q[i] = r[i]
  BY <1>2, <1>3
<1>7. b.id = nextId /\ b.write = w
  BY DEF b
<1> HIDE DEF q
<1>8. /\ queue' \in [User -> Seq(Batch)]
      /\ queue'[user] = q
      /\ \A u \in User \ {user} : queue'[u] = queue[u]
  <2>1. queue \in [User -> Seq(Batch)] /\ user \in User
    BY <1>1 DEF StoreOK
  <2> QED
    BY <2>1, <1>4, <1>6
<1>9. \A i \in 1..Len(r) : /\ r[i].id \in Nat /\ r[i].write \in Nat
                           /\ r[i].id < nextId /\ r[i].write < w
                           /\ r[i].write \in 1..Len(issued)
                           /\ issued[r[i].write] = user
                           /\ r[i].id <= Len(issued)
  <2>1. \A i \in 1..Len(r) : r[i].id \in Nat /\ r[i].write \in Nat
    BY <1>2, Elements
  <2>2. \A i \in 1..Len(r) : r[i].id < nextId
    BY <1>1 DEF IdsInv, r
  <2>3. \A i \in 1..Len(r) : /\ r[i].write \in 1..Len(issued)
                             /\ issued[r[i].write] = user
                             /\ r[i].id <= Len(issued)
    BY <1>1, <1>3 DEF RowsInv, r
  <2> QED
    BY <2>1, <2>2, <2>3, <1>3 DEF w
<1>10. Sorted(q)
  <2>1. \A i \in 1..Len(q) : q[i].id >= 1
    BY <1>2, <1>3, <1>6, <1>7 DEF Sorted
  <2>2. ASSUME NEW i \in 1..Len(q), NEW j \in 1..Len(q), i < j
        PROVE  q[i].id < q[j].id /\ q[i].write < q[j].write
    <3>1. i \in 1..Len(r)
      BY <2>2, <1>2, <1>6
    <3>2. CASE j \in 1..Len(r)
      BY <2>2, <3>1, <3>2, <1>2, <1>6 DEF Sorted
    <3>3. CASE j = Len(r) + 1
      BY <3>1, <3>3, <1>6, <1>7, <1>9
    <3> QED
      BY <3>2, <3>3, <1>2, <1>6
  <2> QED
    BY <2>1, <2>2 DEF Sorted
<1>11. StoreInv'
  <2>1. callbacks' \subseteq Callback
    <3>1. [user |-> user, id |-> nextId, write |-> w] \in Callback
      BY <1>3 DEF Callback
    <3>2. callbacks \subseteq Callback
      BY <1>1 DEF StoreOK
    <3> QED
      BY <3>1, <3>2, <1>4
  <2>2. StoreOK'
    BY <2>1, <1>1, <1>3, <1>4, <1>8 DEF StoreOK
  <2>3. RowsInv'
    <3>1. \A u \in User : Sorted(queue'[u])
      BY <1>1, <1>8, <1>10 DEF RowsInv
    <3>2. ASSUME NEW u \in User, NEW i \in 1..Len(queue'[u])
          PROVE  /\ queue'[u][i].write \in 1..Len(issued')
                 /\ issued'[queue'[u][i].write] = u
                 /\ queue'[u][i].id <= Len(issued')
      <4>1. CASE u # user
        <5>1. i \in 1..Len(queue[u]) /\ queue'[u] = queue[u]
          BY <4>1, <1>8
        <5>2. /\ queue[u][i].write \in 1..Len(issued)
              /\ issued[queue[u][i].write] = u
              /\ queue[u][i].id <= Len(issued)
          BY <5>1, <1>1 DEF RowsInv
        <5>3. queue[u] \in Seq(Batch)
          BY <1>1 DEF StoreOK
        <5>4. queue[u][i].id \in Nat
          BY <5>1, <5>3, Elements
        <5> QED
          BY <5>1, <5>2, <5>4, <1>3, <1>5
      <4>2. CASE u = user /\ i \in 1..Len(r)
        <5>1. queue'[u][i] = r[i]
          BY <4>2, <1>6, <1>8
        <5> QED
          BY <5>1, <4>2, <1>3, <1>5, <1>9
      <4>3. CASE u = user /\ i = Len(r) + 1
        <5>1. queue'[u][i] = b
          BY <4>3, <1>6, <1>8
        <5> QED
          BY <5>1, <4>3, <1>3, <1>5, <1>7 DEF w
      <4> QED
        BY <4>1, <4>2, <4>3, <1>2, <1>6, <1>8
    <3> QED
      BY <3>1, <3>2 DEF RowsInv
  <2>4. IdsInv'
    <3>1. nextId' \in 1..(Len(issued') + 1)
      BY <1>3, <1>4, <1>5
    <3>2. ASSUME NEW i \in 1..Len(q)
          PROVE  q[i].id < nextId + 1
      <4>1. CASE i \in 1..Len(r)
        BY <4>1, <1>3, <1>6, <1>9
      <4>2. CASE i = Len(r) + 1
        BY <4>2, <1>3, <1>6, <1>7
      <4> QED
        BY <4>1, <4>2, <1>2, <1>6
    <3> QED
      BY <3>1, <3>2, <1>4, <1>8 DEF IdsInv
  <2>5. CallbackInv'
    <3>1. ASSUME NEW c \in callbacks
          PROVE  \E i \in 1..Len(queue'[c.user]) :
                    queue'[c.user][i].id = c.id /\ queue'[c.user][i].write = c.write
      <4>1. PICK i \in 1..Len(queue[c.user]) :
                queue[c.user][i].id = c.id /\ queue[c.user][i].write = c.write
        BY <1>1 DEF CallbackInv
      <4>2. c.user \in User
        BY <1>1 DEF StoreOK, Callback
      <4>3. CASE c.user # user
        BY <4>1, <4>2, <4>3, <1>8
      <4>4. CASE c.user = user
        <5>1. i \in 1..Len(r) /\ r[i].id = c.id /\ r[i].write = c.write
          BY <4>1, <4>4 DEF r
        <5>2. i \in 1..Len(q) /\ q[i] = r[i]
          BY <5>1, <1>2, <1>6
        <5> QED
          BY <5>1, <5>2, <4>4, <1>8
      <4> QED
        BY <4>3, <4>4
    <3>2. ASSUME NEW c, c = [user |-> user, id |-> nextId, write |-> w]
          PROVE  \E i \in 1..Len(queue'[c.user]) :
                    queue'[c.user][i].id = c.id /\ queue'[c.user][i].write = c.write
      <4>1. c.user = user /\ c.id = nextId /\ c.write = w
        BY <3>2
      <4>2. Len(r) + 1 \in 1..Len(q)
        BY <1>2, <1>6
      <4> QED
        BY <4>1, <4>2, <1>6, <1>7, <1>8
    <3>3. callbacks' \subseteq callbacks \cup {[user |-> user, id |-> nextId, write |-> w]}
      BY <1>4
    <3>4. ASSUME NEW c \in callbacks'
          PROVE  \E i \in 1..Len(queue'[c.user]) :
                    queue'[c.user][i].id = c.id /\ queue'[c.user][i].write = c.write
      <4>1. c \in callbacks \/ c = [user |-> user, id |-> nextId, write |-> w]
        BY <3>3
      <4> QED
        BY <4>1, <3>1, <3>2
    <3> QED
      BY <3>4 DEF CallbackInv
  <2> QED
    BY <2>2, <2>3, <2>4, <2>5 DEF StoreInv
<1>12. Prefix(pipeline, q)
  BY <1>2, <1>6, Elements DEF Prefix
<1>13. NetworkInv' /\ (refusal => Head(sent') = Head(sent))
  <2>0. NetworkOK /\ PipelineInv /\ StreamInv /\ WireInv
    BY <1>0 DEF NetworkInv
  <2>1. CASE stream = "open"
    <3>1. /\ enabled = TRUE /\ enabled' = TRUE /\ handshake # "none"
          /\ idle \in BOOLEAN /\ sent \in Seq(Batch) /\ replies \in Seq(Batch)
      BY <2>0, <2>1, <1>4 DEF NetworkOK, StreamInv
    <3>2. /\ handshake = "complete" => replies \o sent = pipeline
          /\ handshake # "complete" => sent = <<>> /\ pipeline # <<>>
          /\ idle => handshake = "complete" /\ pipeline = <<>>
      BY <2>0, <3>1 DEF StreamInv, WireInv, NetworkOK
    <3>3. FillOpenStream(q, pipeline)
      BY <1>4, <2>1
    <3>4. /\ pipeline' \in Seq(Batch)
          /\ Joined(pipeline', q, TRUE)
          /\ sent' \in Seq(Batch)
          /\ idle' \in BOOLEAN
          /\ handshake = "complete" => replies \o sent' = pipeline'
          /\ handshake # "complete" => sent' = <<>> /\ pipeline' # <<>>
          /\ idle' => handshake = "complete" /\ pipeline' = <<>>
          /\ sent # <<>> => sent' # <<>> /\ Head(sent') = Head(sent)
          /\ stream' = stream /\ tokens' = tokens
      BY <1>2, <1>6, <1>10, <1>12, <3>1, <3>2, <3>3, OpenFill
    <3>5. NetworkOK'
      BY <2>0, <3>4, <1>4 DEF NetworkOK
    <3>6. PipelineInv'
      BY <3>1, <3>4, <1>4, <1>8 DEF PipelineInv
    <3>7. StreamInv'
      BY <2>0, <2>1, <3>1, <3>4, <1>4 DEF StreamInv
    <3>8. WireInv' /\ (refusal => Head(sent') = Head(sent))
      BY <2>0, <3>4, <1>4 DEF WireInv
    <3> QED
      BY <3>5, <3>6, <3>7, <3>8 DEF NetworkInv
  <2>2. CASE stream # "open"
    <3>1. /\ stream \in StreamState \ {"open"} /\ tokens \in SUBSET {"this", "earlier"}
          /\ enabled \in BOOLEAN /\ ("this" \in tokens <=> stream = "starting")
      BY <2>0, <2>2 DEF NetworkOK, StreamInv
    <3>2. /\ IsStarted(stream) => enabled /\ pipeline # <<>>
          /\ ~enabled => pipeline = <<>>
      BY <2>0, <2>2 DEF IsStarted, StreamInv
    <3>3. FillClosedStream(q, pipeline, stream, tokens, enabled) /\ sent' = sent /\ idle' = idle
      BY <1>4, <2>2
    <3>4. /\ pipeline' \in Seq(Batch)
          /\ Joined(pipeline', q, enabled)
          /\ stream' \in StreamState \ {"open"}
          /\ tokens' \in SUBSET {"this", "earlier"}
          /\ "this" \in tokens' <=> stream' = "starting"
          /\ stream' \in {"initial", "error"} => pipeline' = <<>>
          /\ stream' \in {"starting", "backoff"} => pipeline' # <<>>
          /\ ~enabled => pipeline' = <<>> /\ stream' \in {"initial", "error"}
      BY <1>2, <1>6, <1>10, <1>12, <3>1, <3>2, <3>3, ClosedFill
    <3>5. handshake = "none" /\ handshake' = "none"
      BY <2>0, <2>2, <1>4 DEF StreamInv
    <3>6. sent = <<>> /\ replies = <<>> /\ ~refusal /\ ~idle
      BY <2>0, <3>5 DEF WireInv, StreamInv
    <3>7. NetworkOK'
      BY <2>0, <3>3, <3>4, <1>4 DEF NetworkOK
    <3>8. PipelineInv'
      BY <3>4, <1>4, <1>8 DEF PipelineInv
    <3>9. StreamInv'
      BY <3>3, <3>4, <3>5, <3>6, <1>4 DEF StreamInv
    <3>10. WireInv'
      BY <3>3, <3>5, <3>6, <1>4 DEF WireInv
    <3> QED
      BY <3>6, <3>7, <3>8, <3>9, <3>10 DEF NetworkInv
  <2> QED
    BY <2>1, <2>2
<1>14. OutsideOK'
  <2>1. Len(issued') <= MaxWrites
    BY <1>3, <1>5, WriteBound DEF Write, w
  <2>2. UNCHANGED <<applied, refused, server, faults>>
    BY <1>4 DEF outside
  <2> QED
    BY <2>1, <2>2, <1>0, <1>5 DEF OutsideOK
<1> QED
  BY <1>11, <1>13, <1>14 DEF ClientInv

LEMMA Acknowledged ==
    ASSUME StoreInv, NetworkInv, MutationResult
    PROVE  StoreInv' /\ NetworkInv' /\ (refusal => Head(sent') = Head(sent))
<1> DEFINE q == WithoutBatch(queue[user], Head(pipeline).id)
<1>1. /\ pipeline # <<>> /\ enabled = TRUE
      /\ stream = "open" /\ handshake = "complete" /\ idle = FALSE
      /\ replies # <<>> /\ Tail(pipeline) = Tail(replies) \o sent
  BY Occupied DEF MutationResult
<1>2. /\ queue[user] \in Seq(Batch) /\ pipeline \in Seq(Batch)
      /\ Prefix(pipeline, queue[user]) /\ Len(pipeline) <= kMaxPendingWrites
  BY Pipeline
<1>3. StoreOK /\ RowsInv /\ IdsInv /\ CallbackInv
  BY DEF StoreInv
<1>4. /\ queue' = [queue EXCEPT ![user] = q]
      /\ NotifyUser(Head(pipeline).id, "success")
      /\ FillOpenStream(q, Tail(pipeline))
      /\ replies' = Tail(replies)
      /\ UNCHANGED <<user, nextId, enabled, handshake, refusal, issued>>
  BY DEF MutationResult
<1>5. /\ q \in Seq(Batch) /\ Sorted(q) /\ queue'[user] = q
      /\ Tail(pipeline) \in Seq(Batch) /\ Prefix(Tail(pipeline), q)
      /\ Len(Tail(pipeline)) <= kMaxPendingWrites
      /\ RowsInv' /\ queue' \in [User -> Seq(Batch)]
      /\ Len(q) = Len(queue[user]) - 1
      /\ \A i \in 1..Len(q) : q[i] = queue[user][i + 1]
  <2>1. Len(Tail(pipeline)) = Len(pipeline) - 1 /\ Len(pipeline) \in Nat
    BY <1>1, <1>2, HeadTailProperties, LenProperties
  <2>2. Len(Tail(pipeline)) <= kMaxPendingWrites
    BY <2>1, <1>2, PipelineSize
  <2> QED
    BY <2>2, <1>1, <1>2, <1>3, <1>4, RowRemoved
<1>6. callbacks' \subseteq Callback /\ reported' \in [Write -> Outcome] /\ CallbackInv'
  BY <1>1, <1>2, <1>3, <1>4, CallbackTold DEF Outcome
<1> HIDE DEF q
<1>7. StoreInv'
  <2>1. StoreOK'
    BY <1>3, <1>4, <1>5, <1>6 DEF StoreOK
  <2>2. IdsInv'
    <3>1. Len(queue[user]) \in Nat
      BY <1>2, LenProperties
    <3>2. \A i \in 1..Len(q) : i + 1 \in 1..Len(queue[user])
      BY <3>1, <1>5
    <3> QED
      BY <3>2, <1>3, <1>4, <1>5 DEF IdsInv
  <2> QED
    BY <2>1, <2>2, <1>5, <1>6 DEF StoreInv
<1>8. NetworkInv' /\ (refusal => Head(sent') = Head(sent))
  <2>0. NetworkOK /\ StreamInv /\ WireInv
    BY DEF NetworkInv
  <2>1. /\ idle \in BOOLEAN /\ sent \in Seq(Batch)
        /\ replies \in Seq(Batch) /\ Tail(replies) \in Seq(Batch)
    BY <2>0, <1>1, HeadTailProperties DEF NetworkOK
  <2>2. /\ pipeline' \in Seq(Batch)
        /\ Joined(pipeline', q, TRUE)
        /\ sent' \in Seq(Batch)
        /\ idle' \in BOOLEAN
        /\ Tail(replies) \o sent' = pipeline'
        /\ idle' => pipeline' = <<>>
        /\ sent # <<>> => sent' # <<>> /\ Head(sent') = Head(sent)
        /\ stream' = stream /\ tokens' = tokens
    BY <2>1, <1>1, <1>4, <1>5, OpenFill
  <2>3. NetworkOK'
    BY <2>0, <2>1, <2>2, <1>4 DEF NetworkOK
  <2>4. PipelineInv'
    BY <2>2, <1>1, <1>4, <1>5 DEF PipelineInv
  <2>5. StreamInv'
    BY <2>0, <2>2, <1>1, <1>4 DEF StreamInv
  <2>6. WireInv' /\ (refusal => Head(sent') = Head(sent))
    BY <2>0, <2>2, <1>1, <1>4 DEF WireInv
  <2> QED
    BY <2>3, <2>4, <2>5, <2>6 DEF NetworkInv
<1> QED
  BY <1>7, <1>8

LEMMA CredentialsChanged ==
    ASSUME ClientInv, NEW u \in User, HandleCredentialChange(u)
    PROVE  ClientInv'
<1>0. StoreInv /\ NetworkInv /\ OutsideOK
  BY DEF ClientInv
<1>1. StoreOK /\ RowsInv /\ IdsInv /\ CallbackInv
  BY <1>0 DEF StoreInv
<1>2. /\ user' = u
      /\ nextId' = IF u = user THEN nextId ELSE LoadNextBatchId(queue)
      /\ IF enabled
         THEN RestartNetwork(queue[u])
         ELSE UNCHANGED <<pipeline, stream, handshake, idle, tokens, wire>>
      /\ UNCHANGED <<queue, callbacks, enabled, issued, outside, reported>>
      /\ Disturb
  BY DEF HandleCredentialChange
<1>3. queue[u] \in Seq(Batch) /\ Sorted(queue[u])
  BY <1>1 DEF StoreOK, RowsInv
<1>4. IdsInv'
  <2>1. CASE u = user
    BY <2>1, <1>1, <1>2 DEF IdsInv
  <2>2. CASE u # user
    <3>1. Len(issued) \in Nat
      BY <1>0, LenProperties DEF OutsideOK
    <3>2. /\ LoadNextBatchId(queue) \in 1..(Len(issued) + 1)
          /\ \A i \in 1..Len(queue[u]) : queue[u][i].id < LoadNextBatchId(queue)
      BY <3>1, <1>1, NextIdIsNew DEF StoreOK, RowsInv
    <3> QED
      BY <3>2, <2>2, <1>2 DEF IdsInv
  <2> QED
    BY <2>1, <2>2
<1>5. StoreInv'
  <2>1. nextId' \in Nat
    BY <1>0, <1>2, <1>4, LenProperties DEF IdsInv, OutsideOK
  <2>2. StoreOK'
    BY <2>1, <1>1, <1>2 DEF StoreOK
  <2>3. RowsInv' /\ CallbackInv'
    BY <1>1, <1>2 DEF RowsInv, CallbackInv
  <2> QED
    BY <2>2, <2>3, <1>4 DEF StoreInv
<1>6. NetworkInv'
  <2>0. NetworkOK /\ PipelineInv /\ StreamInv /\ WireInv /\ enabled \in BOOLEAN
    BY <1>0 DEF NetworkInv, NetworkOK
  <2>1. CASE enabled
    <3>1. FillClosedStream(queue[u], <<>>, "initial", Voided, TRUE) /\ DropConnection
      BY <2>1, <1>2 DEF RestartNetwork
    <3>2. Voided \in SUBSET {"earlier"}
      BY DEF Voided
    <3>3. enabled' = TRUE /\ queue'[user'] = queue[u]
      BY <2>0, <2>1, <1>2
    <3> QED
      BY <3>1, <3>2, <3>3, <1>3, Restarted
  <2>2. CASE ~enabled
    <3>1. UNCHANGED <<pipeline, stream, handshake, idle, tokens, sent, replies, refusal, enabled>>
      BY <2>2, <1>2 DEF wire
    <3>2. NetworkOK' /\ StreamInv' /\ WireInv'
      BY <3>1, <2>0 DEF NetworkOK, StreamInv, WireInv
    <3>3. pipeline' = <<>> /\ ~enabled'
      BY <2>0, <2>2, <3>1 DEF StreamInv
    <3>4. PipelineInv'
      <4>1. Len(<<>>) = 0 /\ kMaxPendingWrites \in Nat /\ Len(queue[u]) \in Nat
        BY <1>3, PipelineSize, LenProperties
      <4> QED
        BY <4>1, <3>3, <1>2 DEF PipelineInv, Joined, Prefix
    <3> QED
      BY <3>2, <3>4 DEF NetworkInv
  <2> QED
    BY <2>1, <2>2
<1>7. OutsideOK'
  BY <1>0, <1>2, OutsideSame
<1> QED
  BY <1>5, <1>6, <1>7 DEF ClientInv

\* A process that begins with rows that are in order.
LEMMA Begun ==
    ASSUME RowsInv, NEW rows \in [User -> Seq(Batch)], queue' = rows, RowsInv',
           Initialize(rows), issued' = issued, issued \in Seq(User),
           user \in User, user' = user, reported' \in [Write -> Outcome]
    PROVE  StoreInv' /\ NetworkInv'
<1>1. /\ nextId' = LoadNextBatchId(rows)
      /\ callbacks' = {}
      /\ enabled' = TRUE
      /\ FillClosedStream(rows[user], <<>>, "initial", {}, TRUE)
      /\ DropConnection
  BY DEF Initialize
<1>2. rows[user] \in Seq(Batch) /\ Sorted(rows[user]) /\ queue'[user'] = rows[user]
  BY DEF RowsInv
<1>3. Len(issued) \in Nat
  BY LenProperties
<1>4. \A u \in User : \A i \in 1..Len(rows[u]) : rows[u][i].id <= Len(issued)
  BY DEF RowsInv
<1>5. /\ LoadNextBatchId(rows) \in 1..(Len(issued) + 1)
      /\ \A i \in 1..Len(rows[user]) : rows[user][i].id < LoadNextBatchId(rows)
  BY <1>3, <1>4, NextIdIsNew
<1>6. IdsInv' /\ nextId' \in Nat
  BY <1>1, <1>2, <1>3, <1>5 DEF IdsInv
<1>7. StoreOK' /\ CallbackInv'
  BY <1>1, <1>6 DEF StoreOK, CallbackInv
<1>8. NetworkInv'
  <2>1. {} \in SUBSET {"earlier"}
    OBVIOUS
  <2> QED
    BY <2>1, <1>1, <1>2, Restarted
<1> QED
  BY <1>6, <1>7, <1>8 DEF StoreInv

LEMMA Crashed ==
    ASSUME ClientInv, Crash
    PROVE  ClientInv'
<1>0. StoreInv /\ NetworkInv /\ OutsideOK
  BY DEF ClientInv
<1>1. /\ StoreOK /\ RowsInv /\ IdsInv /\ CallbackInv
      /\ queue \in [User -> Seq(Batch)] /\ user \in User /\ reported \in [Write -> Outcome]
      /\ issued \in Seq(User)
  BY <1>0 DEF StoreInv, StoreOK, OutsideOK
<1>2. Disturb /\ UNCHANGED <<user, issued, outside>>
  BY DEF Crash
<1>3. OutsideOK'
  BY <1>0, <1>2, OutsideSame
<1>4. CASE Initialize(queue) /\ UNCHANGED <<queue, reported>>
  <2>1. RowsInv'
    BY <1>1, <1>2, <1>4 DEF RowsInv
  <2> QED
    BY <2>1, <1>1, <1>2, <1>3, <1>4, Begun DEF ClientInv
<1>5. CASE /\ replies # <<>>
           /\ \E c \in callbacks :
                 /\ c.user = user /\ c.id = Head(pipeline).id
                 /\ reported' = [reported EXCEPT ![c.write] = "success"]
           /\ Initialize(queue)
           /\ UNCHANGED queue
  <2>1. RowsInv'
    BY <1>1, <1>2, <1>5 DEF RowsInv
  <2>2. reported' \in [Write -> Outcome]
    BY <1>1, <1>5 DEF Outcome
  <2> QED
    BY <2>1, <2>2, <1>1, <1>2, <1>3, <1>5, Begun DEF ClientInv
<1>6. CASE /\ refusal
           /\ queue' = [queue EXCEPT ![user] = WithoutBatch(@, Head(pipeline).id)]
           /\ Initialize(queue')
           /\ UNCHANGED reported
  <2>1. /\ pipeline # <<>> /\ pipeline \in Seq(Batch) /\ Prefix(pipeline, queue[user])
    BY <1>0, <1>6, Occupied, Pipeline
  <2>2. queue' = [queue EXCEPT ![user] = WithoutBatch(queue[user], Head(pipeline).id)]
    BY <1>6
  <2>3. RowsInv' /\ queue' \in [User -> Seq(Batch)]
    BY <2>1, <2>2, <1>1, <1>2, RowRemoved
  <2> DEFINE rows == queue'
  <2>4. Initialize(rows) /\ rows \in [User -> Seq(Batch)] /\ reported' \in [Write -> Outcome]
    BY <2>3, <1>1, <1>6
  <2> QED
    BY <2>3, <2>4, <1>1, <1>2, <1>3, Begun DEF ClientInv
<1> QED
  BY <1>4, <1>5, <1>6 DEF Crash

-----------------------------------------------------------------------------
(* Every step keeps the invariant.                                          *)

LEMMA ClientInit == Init => ClientInv
<1> SUFFICES ASSUME Init PROVE ClientInv
  OBVIOUS
<1>1. <<>> \in Seq(Batch) /\ <<>> \in Seq(User) /\ Len(<<>>) = 0
  OBVIOUS
<1>2. /\ queue = [u \in User |-> <<>>] /\ user \in User /\ nextId = 1 /\ callbacks = {}
      /\ enabled = TRUE /\ pipeline = <<>> /\ stream = "initial" /\ handshake = "none"
      /\ idle = FALSE /\ tokens = {} /\ sent = <<>> /\ replies = <<>> /\ refusal = FALSE
      /\ issued = <<>> /\ applied = {} /\ refused = {}
      /\ server = [u \in User |-> 0] /\ reported = [w \in Write |-> "nothing"] /\ faults = 0
  BY DEF Init
<1>3. StoreInv
  <2>1. StoreOK
    BY <1>1, <1>2 DEF StoreOK, Outcome
  <2>2. RowsInv /\ IdsInv /\ CallbackInv
    BY <1>1, <1>2 DEF RowsInv, IdsInv, CallbackInv, Sorted
  <2> QED
    BY <2>1, <2>2 DEF StoreInv
<1>4. NetworkInv
  <2>1. NetworkOK
    <3>1. enabled \in BOOLEAN /\ idle \in BOOLEAN /\ refusal \in BOOLEAN
      BY <1>2
    <3> QED
      BY <3>1, <1>1, <1>2 DEF NetworkOK, StreamState
  <2>2. PipelineInv
    BY <1>1, <1>2, PipelineSize DEF PipelineInv, Joined, Prefix, Smaller
  <2>3. StreamInv /\ WireInv
    BY <1>2 DEF StreamInv, WireInv
  <2> QED
    BY <2>1, <2>2, <2>3 DEF NetworkInv
<1>5. OutsideOK
  BY <1>1, <1>2, WriteBound, FaultBound DEF OutsideOK
<1> QED
  BY <1>3, <1>4, <1>5 DEF ClientInv

LEMMA ClientStep == ClientInv /\ [Next]_vars => ClientInv'
<1> SUFFICES ASSUME ClientInv, [Next]_vars PROVE ClientInv'
  OBVIOUS
<1>0. /\ StoreInv /\ NetworkInv /\ OutsideOK
      /\ NetworkOK /\ PipelineInv /\ StreamInv /\ WireInv
  BY DEF ClientInv, NetworkInv
<1>1. CASE WriteMutations
  BY <1>1, Written
<1>2. ASSUME NEW t \in {"this", "earlier"}, TokenArrives(t)
      PROVE  ClientInv'
  <2>1. /\ tokens' = tokens \ {t} /\ t \in tokens
        /\ UNCHANGED <<queue, user, nextId, callbacks, pipeline, enabled, idle, sent, replies,
                       refusal, issued, outside, reported, faults>>
        /\ IF t = "this"
           THEN stream' = "open" /\ handshake' = "asked"
           ELSE UNCHANGED <<stream, handshake>>
    BY <1>2 DEF TokenArrives, wire
  <2>2. StoreInv' /\ OutsideOK'
    BY <2>1, <1>0, StoreSame, OutsideSame
  <2>3. PipelineInv' 
    BY <2>1, <1>0 DEF PipelineInv
  <2>4. CASE t = "this"
    <3>1. /\ stream = "starting" /\ pipeline # <<>> /\ handshake = "none" /\ enabled
          /\ sent = <<>> /\ replies = <<>> /\ ~refusal /\ ~idle
      BY <2>1, <2>4, <1>0 DEF StreamInv, WireInv
    <3>2. stream' = "open" /\ handshake' = "asked" /\ "this" \notin tokens'
      BY <2>1, <2>4
    <3>3. NetworkOK'
      BY <3>2, <2>1, <1>0 DEF NetworkOK, StreamState
    <3>4. StreamInv' /\ WireInv'
      BY <3>1, <3>2, <2>1 DEF StreamInv, WireInv
    <3> QED
      BY <2>2, <2>3, <3>3, <3>4 DEF ClientInv, NetworkInv
  <2>5. CASE t = "earlier"
    <3>1. stream' = stream /\ handshake' = handshake /\ ("this" \in tokens' <=> "this" \in tokens)
      BY <2>1, <2>5
    <3>2. NetworkOK'
      BY <3>1, <2>1, <1>0 DEF NetworkOK
    <3>3. StreamInv' /\ WireInv'
      BY <3>1, <2>1, <1>0 DEF StreamInv, WireInv
    <3> QED
      BY <2>2, <2>3, <3>2, <3>3 DEF ClientInv, NetworkInv
  <2> QED
    BY <2>4, <2>5
<1>3. CASE TokenFails \/ Broken
  <2>1. /\ RetryLater /\ DropConnection /\ Disturb
        /\ UNCHANGED <<user, nextId, enabled, issued, outside>>
    BY <1>3 DEF TokenFails, Broken
  <2>2. UNCHANGED <<queue, callbacks, reported>>
    BY <2>1 DEF RetryLater
  <2> QED
    BY <2>1, <2>2, <1>0, StoreSame, OutsideSame, RetriedLater DEF ClientInv
<1>4. CASE HandshakeCompletes
  <2>1. /\ handshake = "answered" /\ handshake' = "complete" /\ sent' = sent \o pipeline
        /\ idle' = (idle /\ pipeline = <<>>)
        /\ UNCHANGED <<queue, user, nextId, callbacks, pipeline, enabled, stream, tokens,
                       replies, refusal, issued, outside, reported, faults>>
    BY <1>4 DEF HandshakeCompletes
  <2>2. /\ sent = <<>> /\ replies = <<>> /\ ~refusal /\ pipeline # <<>>
        /\ stream = "open" /\ pipeline \in Seq(Batch)
    BY <2>1, <1>0 DEF WireInv, StreamInv, NetworkOK
  <2>3. sent' = pipeline /\ replies' \o sent' = pipeline /\ idle' = FALSE
    BY <2>1, <2>2, ConcatEmptySeq
  <2>4. NetworkOK'
    <3>1. idle' \in BOOLEAN
      BY <2>3
    <3> QED
      BY <3>1, <2>1, <2>2, <2>3, <1>0 DEF NetworkOK
  <2>5. PipelineInv'
    BY <2>1, <1>0 DEF PipelineInv
  <2>6. StreamInv' /\ WireInv'
    BY <2>1, <2>2, <2>3, <1>0 DEF StreamInv, WireInv
  <2> QED
    BY <2>1, <2>4, <2>5, <2>6, <1>0, StoreSame, OutsideSame DEF ClientInv, NetworkInv
<1>5. CASE MutationResult
  <2>1. UNCHANGED <<issued, outside, faults>>
    BY <1>5 DEF MutationResult
  <2> QED
    BY <2>1, <1>0, <1>5, Acknowledged, OutsideSame DEF ClientInv
<1>6. CASE Refused
  <2>1. /\ refusal /\ HandleWriteError /\ DropConnection
        /\ UNCHANGED <<user, nextId, enabled, issued, outside, faults>>
    BY <1>6 DEF Refused
  <2> QED
    BY <2>1, <1>0, GivenUp, OutsideSame DEF ClientInv
<1>7. CASE BackoffElapsed
  <2>1. /\ stream = "backoff" /\ stream' = "starting" /\ tokens' = tokens \cup {"this"}
        /\ UNCHANGED <<queue, user, nextId, callbacks, pipeline, enabled, handshake, idle, sent,
                       replies, refusal, issued, outside, reported, faults>>
    BY <1>7 DEF BackoffElapsed, wire
  <2>2. NetworkOK'
    BY <2>1, <1>0 DEF NetworkOK, StreamState
  <2>3. PipelineInv' /\ WireInv'
    BY <2>1, <1>0 DEF PipelineInv, WireInv
  <2>4. StreamInv'
    BY <2>1, <1>0 DEF StreamInv
  <2> QED
    BY <2>1, <2>2, <2>3, <2>4, <1>0, StoreSame, OutsideSame DEF ClientInv, NetworkInv
<1>8. CASE IdleTimeout
  <2>1. /\ idle /\ stream' = "initial" /\ tokens' = Voided /\ DropConnection
        /\ UNCHANGED <<queue, user, nextId, callbacks, pipeline, enabled, issued, outside,
                       reported, faults>>
    BY <1>8 DEF IdleTimeout
  <2>2. pipeline = <<>> /\ pipeline \in Seq(Batch) /\ enabled \in BOOLEAN
    BY <2>1, <1>0 DEF StreamInv, NetworkOK
  <2>3. Joined(pipeline', queue'[user'], enabled')
    BY <2>1, <1>0 DEF PipelineInv
  <2>4. NetworkInv'
    BY <2>1, <2>2, <2>3, VoidedTokens, Disconnected DEF StreamState
  <2> QED
    BY <2>1, <2>4, <1>0, StoreSame, OutsideSame DEF ClientInv
<1>9. CASE ConnectivityChanges
  <2>1. /\ enabled /\ Disturb /\ DropConnection
        /\ FillClosedStream(queue[user], <<>>, "initial", Voided, TRUE)
        /\ UNCHANGED <<queue, user, nextId, callbacks, enabled, issued, outside, reported>>
    BY <1>9 DEF ConnectivityChanges, RestartNetwork
  <2>2. enabled' = TRUE /\ queue'[user'] = queue[user] /\ Voided \in SUBSET {"earlier"}
    BY <2>1, <1>0 DEF NetworkOK, Voided
  <2>3. NetworkInv'
    BY <2>1, <2>2, <1>0, Pipeline, Restarted
  <2> QED
    BY <2>1, <2>3, <1>0, StoreSame, OutsideSame DEF ClientInv
<1>10. CASE DisableNetwork
  <2>1. /\ enabled /\ Disturb /\ enabled' = FALSE /\ DropConnection
        /\ stream' = IF IsStarted(stream) THEN "initial" ELSE stream
        /\ tokens' = Voided /\ pipeline' = <<>>
        /\ UNCHANGED <<queue, user, nextId, callbacks, issued, outside, reported>>
    BY <1>10 DEF DisableNetwork
  <2>2. stream' \in {"initial", "error"}
    BY <2>1, <1>0 DEF NetworkOK, StreamState, IsStarted
  <2>3. Joined(<<>>, queue[user], FALSE)
    <3>1. Len(queue[user]) \in Nat /\ kMaxPendingWrites \in Nat /\ Len(<<>>) = 0
      BY <1>0, Pipeline, LenProperties, PipelineSize
    <3> QED
      BY <3>1 DEF Joined, Prefix
  <2>4. NetworkInv'
    <3>0. <<>> \in Seq(Batch)
      OBVIOUS
    <3>1. pipeline' \in Seq(Batch) /\ enabled' \in BOOLEAN
      BY <3>0, <2>1
    <3>2. Joined(pipeline', queue'[user'], enabled')
      BY <2>1, <2>3
    <3> QED
      BY <3>1, <3>2, <2>1, <2>2, VoidedTokens, Disconnected DEF StreamState
  <2> QED
    BY <2>1, <2>4, <1>0, StoreSame, OutsideSame DEF ClientInv
<1>11. CASE EnableNetwork
  <2>1. /\ ~enabled /\ enabled' = TRUE
        /\ FillClosedStream(queue[user], pipeline, stream, tokens, TRUE)
        /\ UNCHANGED <<queue, user, nextId, callbacks, handshake, idle, sent, replies, refusal,
                       issued, outside, reported, faults>>
    BY <1>11 DEF EnableNetwork, wire
  <2>2. /\ pipeline = <<>> /\ stream \in {"initial", "error"} /\ handshake = "none" /\ ~idle
        /\ sent = <<>> /\ replies = <<>> /\ ~refusal
        /\ "this" \notin tokens /\ tokens \in SUBSET {"this", "earlier"}
    BY <2>1, <1>0 DEF StreamInv, WireInv, NetworkOK
  <2>3. stream \in StreamState \ {"open"} /\ ~IsStarted(stream) /\ stream # "starting"
    BY <2>2 DEF StreamState, IsStarted
  <2>4. /\ pipeline' \in Seq(Batch)
        /\ Joined(pipeline', queue[user], TRUE)
        /\ stream' \in StreamState \ {"open"}
        /\ tokens' \in SUBSET {"this", "earlier"}
        /\ "this" \in tokens' <=> stream' = "starting"
        /\ stream' \in {"initial", "error"} => pipeline' = <<>>
        /\ stream' \in {"starting", "backoff"} => pipeline' # <<>>
    BY <2>1, <2>2, <2>3, <1>0, Pipeline, ClosedFill
  <2>5. NetworkOK'
    BY <2>1, <2>4, <1>0 DEF NetworkOK
  <2>6. PipelineInv'
    BY <2>1, <2>4 DEF PipelineInv
  <2>7. StreamInv' /\ WireInv'
    BY <2>1, <2>2, <2>4 DEF StreamInv, WireInv
  <2> QED
    BY <2>1, <2>5, <2>6, <2>7, <1>0, StoreSame, OutsideSame DEF ClientInv, NetworkInv
<1>12. ASSUME NEW u \in User, HandleCredentialChange(u)
       PROVE  ClientInv'
  BY <1>12, CredentialsChanged
<1>13. CASE Crash
  BY <1>13, Crashed
<1>14. CASE AnswerHandshake
  <2>1. /\ handshake = "asked" /\ handshake' = "answered"
        /\ UNCHANGED <<queue, user, nextId, callbacks, pipeline, enabled, stream, idle, tokens,
                       sent, replies, refusal, issued, outside, reported, faults>>
    BY <1>14 DEF AnswerHandshake, wire
  <2>2. NetworkOK' /\ PipelineInv'
    BY <2>1, <1>0 DEF NetworkOK, PipelineInv
  <2>3. StreamInv' /\ WireInv'
    BY <2>1, <1>0 DEF StreamInv, WireInv
  <2> QED
    BY <2>1, <2>2, <2>3, <1>0, StoreSame, OutsideSame DEF ClientInv, NetworkInv
<1>15. CASE Apply
  <2>1. /\ sent # <<>> /\ ~refusal
        /\ applied' = applied \cup {Head(sent).write}
        /\ server' = [server EXCEPT ![issued[Head(sent).write]] = Head(sent).write]
        /\ replies' = Append(replies, Head(sent)) /\ sent' = Tail(sent)
        /\ UNCHANGED <<queue, user, nextId, callbacks, pipeline, enabled, stream, handshake,
                       idle, tokens, refusal, issued, refused, reported, faults>>
    BY <1>15 DEF Apply, network
  <2>2. /\ sent \in Seq(Batch) /\ replies \in Seq(Batch)
        /\ handshake = "complete" /\ replies \o sent = pipeline
    BY <2>1, <1>0 DEF NetworkOK, WireInv
  <2>3. Head(sent) \in Batch /\ Head(sent).write \in Write /\ Head(sent).write \in Nat
    <3>1. Head(sent) \in Batch
      BY <2>1, <2>2, HeadTailProperties
    <3> QED
      BY <3>1, WriteBound DEF Batch, Write
  <2>4. replies' \in Seq(Batch) /\ sent' \in Seq(Batch) /\ replies' \o sent' = pipeline
    BY <2>1, <2>2, WireApplied
  <2>5. NetworkOK' /\ PipelineInv'
    BY <2>1, <2>4, <1>0 DEF NetworkOK, PipelineInv
  <2>6. StreamInv' /\ WireInv'
    BY <2>1, <2>2, <2>4, <1>0 DEF StreamInv, WireInv
  <2>7. OutsideOK'
    <3>1. server' \in [User -> Nat] /\ applied' \subseteq Write
      BY <2>1, <2>3, <1>0 DEF OutsideOK
    <3> QED
      BY <3>1, <2>1, <1>0 DEF OutsideOK
  <2> QED
    BY <2>1, <2>5, <2>6, <2>7, <1>0, StoreSame DEF ClientInv, NetworkInv
<1>16. CASE Refuse
  <2>1. /\ sent # <<>> /\ ~refusal /\ refusal' = TRUE
        /\ refused' = refused \cup {Head(sent).write}
        /\ UNCHANGED <<queue, user, nextId, callbacks, pipeline, enabled, stream, handshake,
                       idle, tokens, sent, replies, issued, applied, server, reported, faults>>
    BY <1>16 DEF Refuse, network
  <2>2. handshake = "complete" /\ sent \in Seq(Batch)
    BY <2>1, <1>0 DEF NetworkOK, WireInv
  <2>3. Head(sent).write \in Write
    <3>1. Head(sent) \in Batch
      BY <2>1, <2>2, HeadTailProperties
    <3> QED
      BY <3>1 DEF Batch
  <2>4. NetworkOK'
    <3>1. refusal' \in BOOLEAN
      BY <2>1
    <3> QED
      BY <3>1, <2>1, <1>0 DEF NetworkOK
  <2>5. PipelineInv' /\ StreamInv' /\ WireInv'
    BY <2>1, <2>2, <1>0 DEF PipelineInv, StreamInv, WireInv
  <2>6. OutsideOK'
    BY <2>1, <2>3, <1>0 DEF OutsideOK
  <2> QED
    BY <2>1, <2>4, <2>5, <2>6, <1>0, StoreSame DEF ClientInv, NetworkInv
<1>17. CASE UNCHANGED vars
  <2>1. UNCHANGED <<queue, user, nextId, callbacks, pipeline, enabled, stream, handshake, idle,
                    tokens, sent, replies, refusal, issued, outside, reported, faults>>
    BY <1>17 DEF vars, network, wire
  <2>2. NetworkOK' /\ PipelineInv'
    BY <2>1, <1>0 DEF NetworkOK, PipelineInv
  <2>3. StreamInv' /\ WireInv'
    BY <2>1, <1>0 DEF StreamInv, WireInv
  <2> QED
    BY <2>1, <2>2, <2>3, <1>0, StoreSame, OutsideSame DEF ClientInv, NetworkInv
<1> QED
  BY <1>1, <1>2, <1>3, <1>4, <1>5, <1>6, <1>7, <1>8, <1>9, <1>10, <1>11, <1>12, <1>13, <1>14,
     <1>15, <1>16, <1>17
  DEF Next, Client, Server

\* The store, the pipeline, the stream and the wire agree with each other.
LEMMA ClientInvariant == Spec => []ClientInv
BY ClientInit, ClientStep, PTL DEF Spec

\* Every variable keeps its type (TypeOK).
THEOREM WritesTypeCorrect == Spec => []TypeOK
<1>1. ClientInv => TypeOK
  BY TypeParts DEF ClientInv, StoreInv, NetworkInv
<1> QED
  BY <1>1, ClientInvariant, PTL

\* No order of tasks, timers, answers and disturbances reaches one of the client's
\* assertions where it fails (AssertionsHold).
THEOREM ClientAssertionsHold == Spec => []AssertionsHold
<1>1. ClientInv => AssertionsHold
  <2> SUFFICES ASSUME ClientInv PROVE AssertionsHold
    OBVIOUS
  <2>0. StoreInv /\ NetworkInv /\ StreamInv
    BY DEF ClientInv, NetworkInv
  <2>1. "this" \in tokens => stream = "starting" /\ handshake = "none"
    BY <2>0 DEF StreamInv
  <2>2. replies # <<>> \/ refusal =>
          /\ IsStarted(stream) /\ pipeline # <<>>
          /\ HasBatch(queue[user], Head(pipeline).id)
    <3> SUFFICES ASSUME replies # <<>> \/ refusal
                 PROVE  /\ IsStarted(stream) /\ pipeline # <<>>
                        /\ HasBatch(queue[user], Head(pipeline).id)
      OBVIOUS
    <3>1. stream = "open" /\ pipeline # <<>>
      BY <2>0, Occupied
    <3>2. /\ pipeline \in Seq(Batch) /\ queue[user] \in Seq(Batch)
          /\ Prefix(pipeline, queue[user])
      BY <2>0, Pipeline
    <3>3. Len(pipeline) \in Nat \ {0} /\ Len(queue[user]) \in Nat
      BY <3>1, <3>2, EmptySeq, LenProperties
    <3>4. 1 \in 1..Len(queue[user]) /\ queue[user][1] = Head(pipeline)
      BY <3>2, <3>3 DEF Prefix
    <3> QED
      BY <3>1, <3>4 DEF IsStarted, HasBatch
  <2>3. idle => IsStarted(stream) /\ pipeline = <<>>
    BY <2>0 DEF StreamInv, IsStarted
  <2>4. handshake # "none" => stream = "open"
    BY <2>0 DEF StreamInv
  <2> QED
    BY <2>1, <2>2, <2>3, <2>4 DEF AssertionsHold
<1> QED
  BY <1>1, ClientInvariant, PTL

\* A response is taken for the batch it answers (ResponsesMatchPipeline).
THEOREM ResponsesAreForTheOldest == Spec => []ResponsesMatchPipeline
<1>1. ClientInv => ResponsesMatchPipeline
  BY DEF ClientInv, NetworkInv, WireInv, ResponsesMatchPipeline
<1> QED
  BY <1>1, ClientInvariant, PTL

-----------------------------------------------------------------------------
(* What was told and what is on the wire, action by action.                 *)

LEMMA HistorySame ==
    ASSUME HistoryInv, UNCHANGED <<queue, reported, issued, outside>>,
           replies' = replies \/ replies' = <<>>,
           refusal' => refusal /\ Head(sent') = Head(sent)
    PROVE  HistoryInv'
<1>0. UNCHANGED <<queue, reported, issued, applied, refused, server>>
  BY DEF outside
<1>1. NoWriteLost' /\ NoGaps'
  BY <1>0 DEF HistoryInv, NoWriteLost, NoGaps
<1>2. SuccessMeansApplied' /\ DoneIsBehind'
  BY <1>0 DEF HistoryInv, SuccessMeansApplied, DoneIsBehind
<1>3. \A i \in 1..Len(replies') : replies'[i].write \in applied'
  BY <1>0 DEF HistoryInv
<1>4. refusal' => Head(sent').write \in refused'
  BY <1>0 DEF HistoryInv
<1>5. applied' \subseteq 1..Len(issued')
  BY <1>0 DEF HistoryInv
<1> QED
  BY <1>1, <1>2, <1>3, <1>4, <1>5 DEF HistoryInv

\* The oldest batch leaves after the server took or refused it.
LEMMA HistoryRemoved ==
    ASSUME ClientInv, HistoryInv, pipeline # <<>>,
           queue' = [queue EXCEPT ![user] = WithoutBatch(queue[user], Head(pipeline).id)],
           UNCHANGED <<issued, outside>>,
           Head(pipeline).write \in applied \cup refused,
           \A w \in Write : \/ reported'[w] = reported[w]
                            \/ /\ w = Head(pipeline).write
                               /\ reported'[w] = "success" => w \in applied,
           \A i \in 1..Len(replies') : \E j \in 1..Len(replies) : replies'[i] = replies[j],
           refusal' => refusal /\ Head(sent') = Head(sent)
    PROVE  HistoryInv'
<1> DEFINE r == queue[user]
           q == WithoutBatch(queue[user], Head(pipeline).id)
           h == Head(pipeline).write
<1>0. UNCHANGED <<issued, applied, refused, server>>
  BY DEF outside
<1>1. /\ r \in Seq(Batch) /\ Sorted(r) /\ pipeline \in Seq(Batch) /\ Prefix(pipeline, r)
      /\ StoreOK /\ RowsInv /\ issued \in Seq(User)
  BY Pipeline DEF ClientInv, StoreInv, OutsideOK
<1>2. /\ Head(pipeline) = r[1] /\ r # <<>>
      /\ Len(q) = Len(r) - 1 /\ queue'[user] = q
      /\ \A i \in 1..Len(q) : q[i] = r[i + 1]
      /\ \A u \in User \ {user} : queue'[u] = queue[u]
      /\ q \in Seq(Batch)
  BY <1>0, <1>1, RowRemoved
<1>3. Len(r) \in Nat \ {0} /\ Len(issued) \in Nat /\ user \in User
  BY <1>1, <1>2, EmptySeq, LenProperties DEF StoreOK
<1>4. \A w \in 1..Len(issued) : w \in Write /\ issued[w] \in User
  <2>1. Len(issued) <= MaxWrites
    BY DEF ClientInv, OutsideOK
  <2> QED
    BY <2>1, <1>1, <1>3, WriteBound, ElementOfSeq DEF Write
<1> HIDE DEF q, r
<1>5. NoWriteLost'
  <2> SUFFICES ASSUME NEW w \in 1..Len(issued), w \notin applied \cup refused
               PROVE  \E i \in 1..Len(queue'[issued[w]]) : queue'[issued[w]][i].write = w
    BY <1>0 DEF NoWriteLost
  <2>1. PICK i \in 1..Len(queue[issued[w]]) : queue[issued[w]][i].write = w
    BY DEF HistoryInv, NoWriteLost
  <2>2. CASE issued[w] = user
    <3>1. i \in 1..Len(r) /\ r[i].write = w
      BY <2>1, <2>2 DEF r
    <3>2. i # 1
      BY <3>1, <1>2
    <3>3. i - 1 \in 1..Len(q) /\ q[i - 1] = r[i]
      BY <3>1, <3>2, <1>2, <1>3
    <3> QED
      BY <3>1, <3>3, <2>2, <1>2
  <2>3. CASE issued[w] # user
    BY <2>1, <2>3, <1>2, <1>4
  <2> QED
    BY <2>2, <2>3
<1>6. NoGaps'
  BY <1>0 DEF HistoryInv, NoGaps
<1>7. SuccessMeansApplied'
  <2> SUFFICES ASSUME NEW w \in Write, reported'[w] = "success"
               PROVE  w \in applied
    BY <1>0 DEF SuccessMeansApplied
  <2> QED
    BY DEF HistoryInv, SuccessMeansApplied
<1>8. DoneIsBehind'
  <2> SUFFICES ASSUME NEW v \in 1..Len(issued), reported'[v] = "success",
                      NEW i \in 1..Len(queue'[issued[v]])
               PROVE  queue'[issued[v]][i].write >= v
    BY <1>0 DEF DoneIsBehind
  <2>1. v \in Write /\ issued[v] \in User /\ v \in Nat
    BY <1>3, <1>4
  <2>2. CASE issued[v] = user
    <3>1. i \in 1..Len(q) /\ i + 1 \in 1..Len(r) /\ queue'[issued[v]][i] = r[i + 1]
      BY <2>2, <1>2, <1>3
    <3>2. CASE reported[v] = "success"
      BY <3>1, <3>2, <2>2 DEF HistoryInv, DoneIsBehind, r
    <3>3. CASE v = h
      <4>1. r[1].write < r[i + 1].write
        BY <3>1, <1>1, <1>3 DEF Sorted
      <4>2. r[1].write \in Nat /\ r[i + 1].write \in Nat
        BY <3>1, <1>1, <1>3, Elements
      <4> QED
        BY <3>1, <3>3, <4>1, <4>2, <1>2
    <3> QED
      BY <3>2, <3>3, <2>1
  <2>3. CASE issued[v] # user
    <3>1. queue'[issued[v]] = queue[issued[v]]
      BY <2>1, <2>3, <1>2
    <3>2. CASE reported[v] = "success"
      BY <3>1, <3>2 DEF HistoryInv, DoneIsBehind
    <3>3. CASE v = h
      <4>1. issued[h] = user
        BY <1>1, <1>2, <1>3 DEF RowsInv, r
      <4> QED
        BY <4>1, <3>3, <2>3
    <3> QED
      BY <3>2, <3>3, <2>1
  <2> QED
    BY <2>2, <2>3
<1>9. \A i \in 1..Len(replies') : replies'[i].write \in applied'
  BY <1>0 DEF HistoryInv
<1>10. /\ refusal' => Head(sent').write \in refused'
       /\ applied' \subseteq 1..Len(issued')
  BY <1>0 DEF HistoryInv
<1> QED
  BY <1>5, <1>6, <1>7, <1>8, <1>9, <1>10 DEF HistoryInv

LEMMA HistoryWritten ==
    ASSUME ClientInv, HistoryInv, WriteMutations
    PROVE  HistoryInv'
<1> DEFINE n == Len(issued) + 1
           b == [id |-> nextId, write |-> n]
           r == queue[user]
<1>1. /\ queue' = [queue EXCEPT ![user] = Append(r, b)]
      /\ issued' = Append(issued, user)
      /\ UNCHANGED <<replies, refusal, applied, refused, reported>>
      /\ Len(issued) < MaxWrites
  BY DEF WriteMutations, outside
<1>2. /\ queue \in [User -> Seq(Batch)] /\ user \in User /\ issued \in Seq(User)
      /\ nextId \in Nat /\ Len(issued) \in Nat
  <2>1. queue \in [User -> Seq(Batch)] /\ user \in User /\ issued \in Seq(User) /\ nextId \in Nat
    BY DEF ClientInv, StoreInv, StoreOK, OutsideOK
  <2> QED
    BY <2>1, LenProperties
<1>3. /\ \A w \in 1..Len(issued) : issued'[w] = issued[w] /\ issued[w] \in User
      /\ Len(issued') = n /\ issued'[n] = user
  BY <1>1, <1>2
<1>4. n \in Write /\ b \in Batch /\ b.write = n
  BY <1>1, <1>2, WriteBound DEF Write, Batch
<1>5. r \in Seq(Batch) /\ Len(r) \in Nat
  BY <1>2, LenProperties
<1> HIDE DEF n, b
<1>6. /\ Len(queue'[user]) = Len(r) + 1 /\ queue'[user][Len(r) + 1] = b
      /\ \A i \in 1..Len(r) : queue'[user][i] = r[i]
      /\ \A u \in User \ {user} : queue'[u] = queue[u]
  BY <1>1, <1>2, <1>4, <1>5
<1>7. \A u \in User : \A i \in 1..Len(queue[u]) :
         i \in 1..Len(queue'[u]) /\ queue'[u][i] = queue[u][i]
  BY <1>5, <1>6
<1>8. NoWriteLost'
  <2> SUFFICES ASSUME NEW w \in 1..Len(issued'), w \notin applied \cup refused
               PROVE  \E i \in 1..Len(queue'[issued'[w]]) : queue'[issued'[w]][i].write = w
    BY <1>1 DEF NoWriteLost
  <2>1. CASE w \in 1..Len(issued)
    <3>1. PICK i \in 1..Len(queue[issued[w]]) : queue[issued[w]][i].write = w
      BY <2>1 DEF HistoryInv, NoWriteLost
    <3> QED
      BY <3>1, <2>1, <1>3, <1>7
  <2>2. CASE w = n
    <3>1. Len(r) + 1 \in 1..Len(queue'[user])
      BY <1>5, <1>6
    <3> QED
      BY <3>1, <2>2, <1>3, <1>4, <1>6
  <2> QED
    BY <2>1, <2>2, <1>2, <1>3 DEF n
<1>9. applied \subseteq 1..Len(issued)
  BY DEF HistoryInv
<1>10. NoGaps'
  <2> SUFFICES ASSUME NEW w \in applied, NEW v \in 1..(w - 1), issued'[v] = issued'[w]
               PROVE  v \in applied \cup refused
    BY <1>1 DEF NoGaps
  <2>1. w \in 1..Len(issued) /\ v \in 1..Len(issued)
    BY <1>2, <1>9
  <2> QED
    BY <2>1, <1>3 DEF HistoryInv, NoGaps
<1>11. SuccessMeansApplied'
  BY <1>1 DEF HistoryInv, SuccessMeansApplied
<1>12. DoneIsBehind'
  <2> SUFFICES ASSUME NEW v \in 1..Len(issued'), reported[v] = "success",
                      NEW i \in 1..Len(queue'[issued'[v]])
               PROVE  queue'[issued'[v]][i].write >= v
    BY <1>1 DEF DoneIsBehind
  <2>1. v \in Write /\ v \in Nat
    BY <1>1, <1>2, <1>3, WriteBound DEF Write, n
  <2>2. v \in 1..Len(issued)
    BY <2>1, <1>9 DEF HistoryInv, SuccessMeansApplied
  <2>3. issued'[v] = issued[v] /\ issued[v] \in User /\ v <= n
    BY <2>2, <1>2, <1>3 DEF n
  <2>4. CASE i \in 1..Len(queue[issued[v]])
    BY <2>2, <2>3, <2>4, <1>7 DEF HistoryInv, DoneIsBehind
  <2>5. CASE issued[v] = user /\ i = Len(r) + 1
    <3>1. queue'[issued'[v]][i].write = n
      BY <2>3, <2>5, <1>4, <1>6
    <3> QED
      BY <3>1, <2>1, <2>3, <1>2 DEF n
  <2> QED
    BY <2>3, <2>4, <2>5, <1>5, <1>6
<1>13. \A i \in 1..Len(replies') : replies'[i].write \in applied'
  BY <1>1 DEF HistoryInv
<1>14. refusal' => Head(sent').write \in refused'
  BY <1>1, Written DEF HistoryInv
<1>15. applied' \subseteq 1..Len(issued')
  BY <1>1, <1>2, <1>3, <1>9 DEF n
<1> QED
  BY <1>8, <1>10, <1>11, <1>12, <1>13, <1>14, <1>15 DEF HistoryInv

\* The request the server deals with next: a write of the signed-in user; the older
\* ones of the user that still wait are answered on this connection.
LEMMA NextRequest ==
    ASSUME ClientInv, sent # <<>>
    PROVE  LET k == Len(replies) + 1
           IN  /\ k \in 1..Len(queue[user]) /\ queue[user][k] = Head(sent)
               /\ \A i \in 1..Len(replies) : i \in 1..Len(queue[user]) /\ queue[user][i] = replies[i]
               /\ Head(sent).write \in 1..Len(issued) /\ issued[Head(sent).write] = user
               /\ sent \in Seq(Batch) /\ replies \in Seq(Batch)
<1> DEFINE k == Len(replies) + 1
           q == queue[user]
<1>0. StoreInv /\ NetworkInv /\ RowsInv /\ user \in User
  BY DEF ClientInv, StoreInv, StoreOK
<1>1. /\ sent \in Seq(Batch) /\ replies \in Seq(Batch) /\ pipeline = replies \o sent
  BY <1>0 DEF NetworkInv, NetworkOK, WireInv
<1>2. Len(replies) \in Nat /\ Len(sent) \in Nat \ {0} /\ Head(sent) = sent[1]
  BY <1>1, EmptySeq, LenProperties
<1>3. /\ Len(pipeline) = Len(replies) + Len(sent)
      /\ \A i \in 1..(Len(replies) + Len(sent)) :
            pipeline[i] = IF i <= Len(replies) THEN replies[i] ELSE sent[i - Len(replies)]
  BY <1>1, ConcatProperties
<1>4. q \in Seq(Batch) /\ Len(q) \in Nat /\ Prefix(pipeline, q)
  BY <1>0, Pipeline, LenProperties
<1>5. Len(pipeline) <= Len(q) /\ \A i \in 1..Len(pipeline) : pipeline[i] = q[i]
  BY <1>4 DEF Prefix
<1>6. k \in 1..Len(pipeline) /\ k \in 1..Len(q) /\ ~(k <= Len(replies)) /\ k - Len(replies) = 1
  BY <1>2, <1>3, <1>4, <1>5
<1>7. q[k] = Head(sent)
  BY <1>2, <1>3, <1>5, <1>6
<1>8. \A i \in 1..Len(replies) : i \in 1..Len(q) /\ q[i] = replies[i]
  BY <1>2, <1>3, <1>4, <1>5
<1>9. q[k].write \in 1..Len(issued) /\ issued[q[k].write] = user
  BY <1>0, <1>6 DEF RowsInv
<1> QED
  BY <1>1, <1>6, <1>7, <1>8, <1>9

LEMMA HistoryApplied ==
    ASSUME ClientInv, HistoryInv, Apply
    PROVE  HistoryInv'
<1> DEFINE w == Head(sent).write
           q == queue[user]
           k == Len(replies) + 1
<1>1. /\ sent # <<>> /\ ~refusal /\ refusal' = refusal
      /\ applied' = applied \cup {w}
      /\ replies' = Append(replies, Head(sent))
      /\ UNCHANGED <<queue, user, issued, refused, reported>>
  BY DEF Apply, network
<1>2. /\ k \in 1..Len(q) /\ q[k] = Head(sent)
      /\ \A i \in 1..Len(replies) : i \in 1..Len(q) /\ q[i] = replies[i]
      /\ w \in 1..Len(issued) /\ issued[w] = user
      /\ sent \in Seq(Batch) /\ replies \in Seq(Batch)
  BY <1>1, NextRequest
<1>3. q \in Seq(Batch) /\ Sorted(q) /\ Len(q) \in Nat /\ Len(replies) \in Nat /\ Head(sent) \in Batch
  BY <1>1, <1>2, Pipeline, LenProperties, HeadTailProperties DEF ClientInv
<1> HIDE DEF w, q
<1>4. NoWriteLost' /\ SuccessMeansApplied' /\ DoneIsBehind'
  BY <1>1 DEF HistoryInv, NoWriteLost, SuccessMeansApplied, DoneIsBehind
<1>5. NoGaps'
  <2> SUFFICES ASSUME NEW x \in applied \cup {w}, NEW v \in 1..(x - 1), issued[v] = issued[x]
               PROVE  v \in applied \cup {w} \cup refused
    BY <1>1 DEF NoGaps
  <2>1. CASE x \in applied
    BY <2>1 DEF HistoryInv, NoGaps
  <2>2. CASE x = w
    <3>1. v \in 1..Len(issued) /\ issued[v] = user /\ v < w /\ v \in Nat /\ w \in Nat
      BY <2>2, <1>2
    <3> SUFFICES ASSUME v \notin applied \cup refused PROVE FALSE
      OBVIOUS
    <3>2. PICK i \in 1..Len(q) : q[i].write = v
      BY <3>1 DEF HistoryInv, NoWriteLost, q
    <3>3. q[k].write = w
      BY <1>2 DEF w
    <3>4. i < k
      BY <3>1, <3>2, <3>3, <1>2, <1>3 DEF Sorted
    <3>5. i \in 1..Len(replies) /\ replies[i] = q[i]
      BY <3>4, <1>2, <1>3
    <3> QED
      BY <3>2, <3>5 DEF HistoryInv
  <2> QED
    BY <2>1, <2>2
<1>6. \A i \in 1..Len(replies') : replies'[i].write \in applied'
  <2>1. /\ Len(replies') = k /\ replies'[k] = Head(sent)
        /\ \A i \in 1..Len(replies) : replies'[i] = replies[i]
    BY <1>1, <1>2, <1>3
  <2> TAKE i \in 1..Len(replies')
  <2>2. CASE i \in 1..Len(replies)
    BY <2>1, <2>2, <1>1 DEF HistoryInv
  <2>3. CASE i = k
    BY <2>1, <2>3, <1>1 DEF w
  <2> QED
    BY <2>1, <2>2, <2>3, <1>3
<1>7. ~refusal' /\ applied' \subseteq 1..Len(issued')
  BY <1>1, <1>2 DEF HistoryInv
<1> QED
  BY <1>4, <1>5, <1>6, <1>7 DEF HistoryInv

\* The oldest batch was taken or refused where a response or a refusal is read.
LEMMA OldestIsDealtWith ==
    ASSUME ClientInv, HistoryInv, replies # <<>> \/ refusal
    PROVE  /\ Head(pipeline).write \in applied \cup refused
           /\ replies # <<>> => Head(pipeline).write \in applied
<1>1. /\ replies # <<>> => Head(pipeline) = Head(replies)
      /\ replies = <<>> => Head(pipeline) = Head(sent)
      /\ replies \in Seq(Batch)
  BY Occupied DEF ClientInv, NetworkInv, NetworkOK
<1>2. CASE replies # <<>>
  <2>1. 1 \in 1..Len(replies) /\ Head(replies) = replies[1]
    BY <1>1, <1>2, EmptySeq
  <2> QED
    BY <2>1, <1>1, <1>2 DEF HistoryInv
<1>3. CASE replies = <<>>
  BY <1>1, <1>3 DEF HistoryInv
<1> QED
  BY <1>2, <1>3

LEMMA HistoryCrashed ==
    ASSUME ClientInv, HistoryInv, Crash
    PROVE  HistoryInv'
<1>0. /\ StoreOK /\ RowsInv /\ CallbackInv /\ StoreInv /\ NetworkInv
      /\ issued \in Seq(User) /\ UNCHANGED <<user, issued, outside>>
  BY DEF ClientInv, StoreInv, OutsideOK, Crash
<1>1. CASE Initialize(queue) /\ UNCHANGED <<queue, reported>>
  <2>1. replies' = <<>> /\ ~refusal'
    BY <1>1 DEF Initialize, DropConnection
  <2> QED
    BY <2>1, <1>0, <1>1, HistorySame
<1>2. CASE /\ replies # <<>>
           /\ \E c \in callbacks :
                 /\ c.user = user /\ c.id = Head(pipeline).id
                 /\ reported' = [reported EXCEPT ![c.write] = "success"]
           /\ Initialize(queue)
           /\ UNCHANGED queue
  <2>1. PICK c \in callbacks : /\ c.user = user /\ c.id = Head(pipeline).id
                               /\ reported' = [reported EXCEPT ![c.write] = "success"]
    BY <1>2
  <2>2. /\ pipeline \in Seq(Batch) /\ pipeline # <<>> /\ Prefix(pipeline, queue[user])
        /\ queue[user] \in Seq(Batch) /\ Sorted(queue[user])
    BY <1>0, <1>2, Occupied, Pipeline
  <2> DEFINE h == Head(pipeline).write
             r == queue[user]
  <2>3. c.write = h
    BY <1>0, <2>1, <2>2, CallbackOfOldest
  <2>4. h \in applied
    BY <1>2, OldestIsDealtWith
  <2>5. /\ Len(r) \in Nat \ {0} /\ h = r[1].write
        /\ h \in 1..Len(issued) /\ issued[h] = user
    <3>1. Len(pipeline) \in Nat \ {0} /\ Len(r) \in Nat /\ Len(pipeline) <= Len(r)
      BY <2>2, EmptySeq, LenProperties DEF Prefix
    <3>2. Head(pipeline) = r[1] /\ 1 \in 1..Len(r)
      BY <2>2, <3>1 DEF Prefix
    <3>3. user \in User
      BY <1>0 DEF StoreOK
    <3> QED
      BY <3>1, <3>2, <3>3, <1>0 DEF RowsInv
  <2>6. UNCHANGED <<queue, issued, applied, refused>> /\ replies' = <<>> /\ ~refusal'
    BY <1>0, <1>2 DEF outside, Initialize, DropConnection
  <2>7. \A w \in Write : reported'[w] = "success" => reported[w] = "success" \/ w = h
    BY <2>1, <2>3, <1>0 DEF StoreOK
  <2>8. NoWriteLost' /\ NoGaps' /\ applied' \subseteq 1..Len(issued')
    BY <2>6 DEF HistoryInv, NoWriteLost, NoGaps
  <2>9. SuccessMeansApplied'
    BY <2>4, <2>6, <2>7 DEF HistoryInv, SuccessMeansApplied
  <2>10. DoneIsBehind'
    <3> SUFFICES ASSUME NEW v \in 1..Len(issued), reported'[v] = "success",
                        NEW i \in 1..Len(queue[issued[v]])
                 PROVE  queue[issued[v]][i].write >= v
      BY <2>6 DEF DoneIsBehind
    <3>1. v \in Write
      <4>1. Len(issued) <= MaxWrites /\ Len(issued) \in Nat
        BY LenProperties DEF ClientInv, OutsideOK
      <4> QED
        BY <4>1, WriteBound DEF Write
    <3>2. CASE reported[v] = "success"
      BY <3>2 DEF HistoryInv, DoneIsBehind
    <3>3. CASE v = h
      <4>1. i \in 1..Len(r) /\ queue[issued[v]] = r
        BY <2>5, <3>3
      <4>2. r[i].write \in Nat /\ r[1].write \in Nat
        BY <4>1, <2>2, <2>5, Elements
      <4>3. i = 1 \/ r[1].write < r[i].write
        BY <4>1, <2>2, <2>5 DEF Sorted
      <4> QED
        BY <4>1, <4>2, <4>3, <2>5, <3>3
    <3> QED
      BY <3>1, <3>2, <3>3, <2>7
  <2> QED
    BY <2>6, <2>8, <2>9, <2>10 DEF HistoryInv
<1>3. CASE /\ refusal
           /\ queue' = [queue EXCEPT ![user] = WithoutBatch(@, Head(pipeline).id)]
           /\ Initialize(queue')
           /\ UNCHANGED reported
  <2>1. replies' = <<>> /\ ~refusal'
    BY <1>3 DEF Initialize, DropConnection
  <2>2. pipeline # <<>> /\ Head(pipeline).write \in applied \cup refused
    BY <1>0, <1>3, Occupied, OldestIsDealtWith
  <2>3. queue' = [queue EXCEPT ![user] = WithoutBatch(queue[user], Head(pipeline).id)]
    BY <1>3
  <2> QED
    BY <2>1, <2>2, <2>3, <1>0, <1>3, HistoryRemoved
<1> QED
  BY <1>1, <1>2, <1>3 DEF Crash

LEMMA HistoryInit == Init => HistoryInv
BY DEF Init, HistoryInv, NoWriteLost, NoGaps, SuccessMeansApplied, DoneIsBehind

LEMMA HistoryStep == ClientInv /\ HistoryInv /\ [Next]_vars => HistoryInv'
<1> SUFFICES ASSUME ClientInv, HistoryInv, [Next]_vars PROVE HistoryInv'
  OBVIOUS
<1>0. StoreInv /\ NetworkInv /\ NetworkOK /\ WireInv /\ StoreOK /\ RowsInv /\ CallbackInv
  BY DEF ClientInv, NetworkInv, StoreInv
<1>1. CASE WriteMutations
  BY <1>1, HistoryWritten
<1>2. CASE \E t \in {"this", "earlier"} : TokenArrives(t)
  <2>1. UNCHANGED <<queue, reported, issued, outside, sent, replies, refusal>>
    BY <1>2 DEF TokenArrives, wire
  <2> QED
    BY <2>1, HistorySame
<1>3. CASE TokenFails \/ Broken
  <2>1. UNCHANGED <<queue, reported, issued, outside>> /\ replies' = <<>> /\ ~refusal'
    BY <1>3 DEF TokenFails, Broken, RetryLater, DropConnection
  <2> QED
    BY <2>1, HistorySame
<1>4. CASE HandshakeCompletes
  <2>1. UNCHANGED <<queue, reported, issued, outside, replies>> /\ ~refusal'
    BY <1>0, <1>4 DEF HandshakeCompletes, WireInv
  <2> QED
    BY <2>1, HistorySame
<1>5. CASE MutationResult
  <2>1. /\ replies # <<>> /\ replies' = Tail(replies) /\ refusal' = refusal
        /\ queue' = [queue EXCEPT ![user] = WithoutBatch(queue[user], Head(pipeline).id)]
        /\ NotifyUser(Head(pipeline).id, "success")
        /\ UNCHANGED <<issued, outside>>
    BY <1>5 DEF MutationResult
  <2>2. pipeline # <<>> /\ Head(pipeline).write \in applied
    BY <2>1, <1>0, Occupied, OldestIsDealtWith
  <2>3. \A w \in Write : \/ reported'[w] = reported[w]
                         \/ w = Head(pipeline).write /\ reported'[w] = "success"
    BY <2>1, <2>2, <1>0, Pipeline, CallbackTold DEF Outcome
  <2>4. refusal => Head(sent') = Head(sent)
    BY <1>0, <1>5, Acknowledged
  <2>5. \A i \in 1..Len(replies') : \E j \in 1..Len(replies) : replies'[i] = replies[j]
    <3>1. /\ Len(replies) \in Nat /\ Len(replies') = Len(replies) - 1
          /\ \A i \in 1..Len(replies') : replies'[i] = replies[i + 1]
      BY <2>1, <1>0, HeadTailProperties, LenProperties DEF NetworkOK
    <3>2. \A i \in 1..Len(replies') : i + 1 \in 1..Len(replies)
      BY <3>1
    <3> QED
      BY <3>1, <3>2
  <2> QED
    BY <2>1, <2>2, <2>3, <2>4, <2>5, HistoryRemoved
<1>6. CASE Refused
  <2>1. /\ refusal /\ replies' = <<>> /\ ~refusal'
        /\ queue' = [queue EXCEPT ![user] = WithoutBatch(queue[user], Head(pipeline).id)]
        /\ NotifyUser(Head(pipeline).id, "error")
        /\ UNCHANGED <<issued, outside>>
    BY <1>6 DEF Refused, HandleWriteError, DropConnection
  <2>2. pipeline # <<>> /\ Head(pipeline).write \in applied \cup refused
    BY <2>1, <1>0, Occupied, OldestIsDealtWith
  <2>3. \A w \in Write : \/ reported'[w] = reported[w]
                         \/ w = Head(pipeline).write /\ reported'[w] = "error"
    BY <2>1, <2>2, <1>0, Pipeline, CallbackTold DEF Outcome
  <2>4. "error" # "success"
    OBVIOUS
  <2> QED
    BY <2>1, <2>2, <2>3, <2>4, HistoryRemoved
<1>7. CASE BackoffElapsed
  <2>1. UNCHANGED <<queue, reported, issued, outside, sent, replies, refusal>>
    BY <1>7 DEF BackoffElapsed, wire
  <2> QED
    BY <2>1, HistorySame
<1>8. CASE IdleTimeout
  <2>1. UNCHANGED <<queue, reported, issued, outside>> /\ replies' = <<>> /\ ~refusal'
    BY <1>8 DEF IdleTimeout, DropConnection
  <2> QED
    BY <2>1, HistorySame
<1>9. CASE ConnectivityChanges
  <2>1. UNCHANGED <<queue, reported, issued, outside>> /\ replies' = <<>> /\ ~refusal'
    BY <1>9 DEF ConnectivityChanges, RestartNetwork, DropConnection
  <2> QED
    BY <2>1, HistorySame
<1>10. CASE DisableNetwork
  <2>1. UNCHANGED <<queue, reported, issued, outside>> /\ replies' = <<>> /\ ~refusal'
    BY <1>10 DEF DisableNetwork, DropConnection
  <2> QED
    BY <2>1, HistorySame
<1>11. CASE EnableNetwork
  <2>1. UNCHANGED <<queue, reported, issued, outside, sent, replies, refusal>>
    BY <1>11 DEF EnableNetwork, wire
  <2> QED
    BY <2>1, HistorySame
<1>12. CASE \E u \in User : HandleCredentialChange(u)
  <2>1. UNCHANGED <<queue, reported, issued, outside>>
    BY <1>12 DEF HandleCredentialChange
  <2>2. \/ replies' = <<>> /\ ~refusal'
        \/ UNCHANGED <<sent, replies, refusal>>
    BY <1>12 DEF HandleCredentialChange, RestartNetwork, DropConnection, wire
  <2> QED
    BY <2>1, <2>2, HistorySame
<1>13. CASE Crash
  BY <1>13, HistoryCrashed
<1>14. CASE AnswerHandshake
  <2>1. UNCHANGED <<queue, reported, issued, outside, sent, replies, refusal>>
    BY <1>14 DEF AnswerHandshake, wire
  <2> QED
    BY <2>1, HistorySame
<1>15. CASE Apply
  BY <1>15, HistoryApplied
<1>16. CASE Refuse
  <2>1. /\ refused' = refused \cup {Head(sent).write}
        /\ UNCHANGED <<queue, issued, reported, applied, sent, replies>>
    BY <1>16 DEF Refuse
  <2>2. NoWriteLost' /\ NoGaps'
    BY <2>1 DEF HistoryInv, NoWriteLost, NoGaps
  <2>3. SuccessMeansApplied' /\ DoneIsBehind'
    BY <2>1 DEF HistoryInv, SuccessMeansApplied, DoneIsBehind
  <2> QED
    BY <2>1, <2>2, <2>3 DEF HistoryInv
<1>17. CASE UNCHANGED vars
  <2>1. UNCHANGED <<queue, reported, issued, outside, sent, replies, refusal>>
    BY <1>17 DEF vars, wire
  <2> QED
    BY <2>1, HistorySame
<1> QED
  BY <1>1, <1>2, <1>3, <1>4, <1>5, <1>6, <1>7, <1>8, <1>9, <1>10, <1>11, <1>12, <1>13, <1>14,
     <1>15, <1>16, <1>17
  DEF Next, Client, Server

LEMMA HistoryInvariant == Spec => []HistoryInv
BY HistoryInit, HistoryStep, ClientInvariant, PTL DEF Spec

\* A batch leaves the store only after the server took or refused it (NoWriteLost).
THEOREM WritesAreKept == Spec => []NoWriteLost
<1>1. HistoryInv => NoWriteLost
  BY DEF HistoryInv
<1> QED
  BY <1>1, HistoryInvariant, PTL

\* The server meets the writes of a user in their order (NoGaps).
THEOREM WritesArriveInOrder == Spec => []NoGaps
<1>1. HistoryInv => NoGaps
  BY DEF HistoryInv
<1> QED
  BY <1>1, HistoryInvariant, PTL

\* A caller is told of success only if the server applied its write
\* (SuccessMeansApplied).
THEOREM SuccessIsTrue == Spec => []SuccessMeansApplied
<1>1. HistoryInv => SuccessMeansApplied
  BY DEF HistoryInv
<1> QED
  BY <1>1, HistoryInvariant, PTL

\* The server never goes back behind a write whose caller was told of its success
\* (SuccessIsFinal).
THEOREM SuccessIsNotUndone == Spec => SuccessIsFinal
<1> DEFINE Step == \A u \in User : server'[u] # server[u] =>
                      \A w \in 1..Len(issued) :
                          issued[w] = u /\ reported[w] = "success" => server'[u] >= w
<1>1. ASSUME ClientInv, HistoryInv, [Next]_vars
      PROVE  Step
  <2>1. CASE Apply
    <3>1. /\ sent # <<>>
          /\ server' = [server EXCEPT ![issued[Head(sent).write]] = Head(sent).write]
      BY <2>1 DEF Apply
    <3> DEFINE k == Len(replies) + 1
    <3>2. k \in 1..Len(queue[user]) /\ queue[user][k] = Head(sent) /\ issued[Head(sent).write] = user
      BY <3>1, <1>1, NextRequest
    <3>3. server \in [User -> Nat] /\ user \in User
      BY <1>1 DEF ClientInv, OutsideOK, StoreInv, StoreOK
    <3>4. server'[user] = Head(sent).write /\ \A u \in User \ {user} : server'[u] = server[u]
      BY <3>1, <3>2, <3>3
    <3>5. \A w \in 1..Len(issued) :
             issued[w] = user /\ reported[w] = "success" => queue[user][k].write >= w
      BY <3>2, <1>1 DEF HistoryInv, DoneIsBehind
    <3> QED
      BY <3>2, <3>4, <3>5
  <2>2. CASE ~Apply
    <3>1. server' = server
      BY <2>2, <1>1
      DEF Next, Client, Server, vars, outside, WriteMutations, TokenArrives, TokenFails,
          HandshakeCompletes, MutationResult, Refused, Broken, BackoffElapsed, IdleTimeout,
          ConnectivityChanges, DisableNetwork, EnableNetwork, HandleCredentialChange, Crash,
          AnswerHandshake, Refuse
    <3> QED
      BY <3>1
  <2> QED
    BY <2>1, <2>2
<1>2. ASSUME ClientInv, HistoryInv, [Next]_vars
      PROVE  [Step]_vars
  BY <1>1, <1>2
<1> QED
  BY <1>2, ClientInvariant, HistoryInvariant, PTL DEF Spec, SuccessIsFinal

-----------------------------------------------------------------------------
(* The client implements OrderedWrites.                                     *)

WritesOf(q) == [i \in 1..Len(q) |-> q[i].write]
Pending == [u \in User |-> WritesOf(queue[u])]

LEMMA WritesTyped ==
    ASSUME NEW q \in Seq(Batch)
    PROVE  /\ WritesOf(q) \in Seq(Nat) /\ Len(WritesOf(q)) = Len(q)
           /\ \A i \in 1..Len(q) : WritesOf(q)[i] = q[i].write
           /\ q # <<>> => WritesOf(q) # <<>> /\ Head(WritesOf(q)) = q[1].write
<1>1. Len(q) \in Nat /\ \A i \in 1..Len(q) : q[i].write \in Nat
  BY Elements
<1>2. WritesOf(q) \in [1..Len(q) -> Nat] /\ DOMAIN WritesOf(q) = 1..Len(q)
  BY <1>1 DEF WritesOf
<1>3. WritesOf(q) \in Seq(Nat)
  BY <1>1, <1>2, SeqDef
<1>4. Len(WritesOf(q)) = Len(q)
  BY <1>1, <1>2, <1>3, LenProperties
<1>5. \A i \in 1..Len(q) : WritesOf(q)[i] = q[i].write
  BY DEF WritesOf
<1>6. ASSUME q # <<>>
      PROVE  WritesOf(q) # <<>> /\ Head(WritesOf(q)) = q[1].write
  <2>1. Len(q) \in Nat \ {0}
    BY <1>6, EmptySeq
  <2> QED
    BY <2>1, <1>3, <1>4, <1>5, EmptySeq
<1> QED
  BY <1>3, <1>4, <1>5, <1>6

LEMMA WritesAppended ==
    ASSUME NEW q \in Seq(Batch), NEW b \in Batch
    PROVE  WritesOf(Append(q, b)) = Append(WritesOf(q), b.write)
<1> DEFINE a == Append(q, b)
           c == Append(WritesOf(q), b.write)
<1>1. /\ a \in Seq(Batch) /\ Len(a) = Len(q) + 1 /\ a[Len(q) + 1] = b /\ Len(q) \in Nat
      /\ \A i \in 1..Len(q) : a[i] = q[i]
  BY LenProperties
<1>2. b.write \in Nat
  BY WriteBound DEF Batch, Write
<1>3. /\ WritesOf(q) \in Seq(Nat) /\ Len(WritesOf(q)) = Len(q)
      /\ \A i \in 1..Len(q) : WritesOf(q)[i] = q[i].write
  BY WritesTyped
<1>4. /\ c \in Seq(Nat) /\ Len(c) = Len(q) + 1 /\ c[Len(q) + 1] = b.write
      /\ \A i \in 1..Len(q) : c[i] = q[i].write
  BY <1>1, <1>2, <1>3
<1> HIDE DEF a, c
<1>5. /\ WritesOf(a) \in Seq(Nat) /\ Len(WritesOf(a)) = Len(a)
      /\ \A i \in 1..Len(a) : WritesOf(a)[i] = a[i].write
  BY <1>1, WritesTyped
<1>6. \A i \in 1..Len(a) : WritesOf(a)[i] = c[i]
  <2> TAKE i \in 1..Len(a)
  <2>1. CASE i \in 1..Len(q)
    BY <2>1, <1>1, <1>4, <1>5
  <2>2. CASE i = Len(q) + 1
    BY <2>2, <1>1, <1>4, <1>5
  <2> QED
    BY <2>1, <2>2, <1>1
<1> QED
  BY <1>1, <1>4, <1>5, <1>6, SeqEqual DEF a, c

\* The rows without the oldest one: the line without its head.
LEMMA PendingRemoved ==
    ASSUME StoreOK, RowsInv, pipeline \in Seq(Batch), pipeline # <<>>,
           Prefix(pipeline, queue[user]),
           queue' = [queue EXCEPT ![user] = WithoutBatch(queue[user], Head(pipeline).id)],
           issued' = issued
    PROVE  /\ Pending' = [Pending EXCEPT ![user] = Tail(@)]
           /\ Pending[user] # <<>> /\ Head(Pending[user]) = Head(pipeline).write
<1> DEFINE r == queue[user]
           q == WithoutBatch(queue[user], Head(pipeline).id)
<1>1. /\ Head(pipeline) = r[1] /\ r # <<>> /\ q \in Seq(Batch) /\ Len(q) = Len(r) - 1
      /\ \A i \in 1..Len(q) : q[i] = r[i + 1]
      /\ queue'[user] = q
      /\ \A u \in User \ {user} : queue'[u] = queue[u]
  BY RowRemoved
<1>2. r \in Seq(Batch) /\ user \in User /\ Pending[user] = WritesOf(r)
  BY DEF StoreOK, Pending
<1> HIDE DEF q, r
<1>3. /\ WritesOf(r) \in Seq(Nat) /\ Len(WritesOf(r)) = Len(r) /\ WritesOf(r) # <<>>
      /\ \A i \in 1..Len(r) : WritesOf(r)[i] = r[i].write
      /\ Head(WritesOf(r)) = r[1].write /\ Len(r) \in Nat \ {0}
  BY <1>1, <1>2, WritesTyped, EmptySeq
<1>4. /\ WritesOf(q) \in Seq(Nat) /\ Len(WritesOf(q)) = Len(q)
      /\ \A i \in 1..Len(q) : WritesOf(q)[i] = q[i].write
  BY <1>1, WritesTyped
<1>5. /\ Tail(WritesOf(r)) \in Seq(Nat) /\ Len(Tail(WritesOf(r))) = Len(WritesOf(r)) - 1
      /\ \A i \in 1..Len(Tail(WritesOf(r))) : Tail(WritesOf(r))[i] = WritesOf(r)[i + 1]
  BY <1>3, HeadTailProperties
<1>6. WritesOf(q) = Tail(WritesOf(r))
  <2>1. Len(WritesOf(q)) = Len(Tail(WritesOf(r)))
    BY <1>1, <1>3, <1>4, <1>5
  <2>2. \A i \in 1..Len(q) : i + 1 \in 1..Len(r) /\ i \in 1..Len(Tail(WritesOf(r)))
    BY <1>1, <1>3, <1>5
  <2>3. ASSUME NEW i \in 1..Len(WritesOf(q))
        PROVE  WritesOf(q)[i] = Tail(WritesOf(r))[i]
    <3>1. i \in 1..Len(q) /\ i + 1 \in 1..Len(r) /\ i \in 1..Len(Tail(WritesOf(r)))
      BY <2>2, <1>4
    <3>2. WritesOf(q)[i] = r[i + 1].write
      BY <3>1, <1>1, <1>4
    <3>3. Tail(WritesOf(r))[i] = r[i + 1].write
      BY <3>1, <1>3, <1>5
    <3> QED
      BY <3>2, <3>3
  <2> QED
    BY <2>1, <2>3, <1>4, <1>5, SeqEqual
<1>7. \A u \in User : Pending'[u] = IF u = user THEN Tail(WritesOf(r)) ELSE Pending[u]
  <2>1. \A u \in User : Pending'[u] = WritesOf(queue'[u])
    BY DEF Pending, WritesOf
  <2>2. \A u \in User : Pending[u] = WritesOf(queue[u])
    BY DEF Pending
  <2> QED
    BY <2>1, <2>2, <1>1, <1>6
<1>8. Pending' = [Pending EXCEPT ![user] = Tail(@)]
  BY <1>2, <1>7 DEF Pending
<1> QED
  BY <1>1, <1>2, <1>3, <1>8

\* A caller is told, or there is none in this process.
LEMMA Told ==
    ASSUME StoreInv, NetworkInv, pipeline # <<>>, NEW outcome \in Outcome,
           NotifyUser(Head(pipeline).id, outcome)
    PROVE  \/ reported' = [reported EXCEPT ![Head(pipeline).write] = outcome]
           \/ reported' = reported
<1> DEFINE told == {c \in callbacks : c.user = user /\ c.id = Head(pipeline).id}
           h == Head(pipeline).write
<1>1. reported' = [w \in Write |-> IF \E c \in told : c.write = w THEN outcome ELSE reported[w]]
  BY DEF NotifyUser
<1>2. reported \in [Write -> Outcome]
  BY DEF StoreInv, StoreOK
<1>3. \A c \in told : c.write = h
  BY Pipeline, CallbackOfOldest DEF StoreInv
<1> HIDE DEF told, h
<1>4. CASE told = {}
  <2>1. \A w \in Write : reported'[w] = reported[w]
    BY <1>1, <1>4
  <2> QED
    BY <2>1, <1>1, <1>2
<1>5. CASE told # {}
  <2>1. \A w \in Write : (\E c \in told : c.write = w) <=> w = h
    BY <1>3, <1>5
  <2>2. \A w \in Write : reported'[w] = IF w = h THEN outcome ELSE reported[w]
    BY <2>1, <1>1
  <2>3. reported' = [reported EXCEPT ![h] = outcome]
    BY <2>2, <1>1, <1>2
  <2> QED
    BY <2>3 DEF h
<1> QED
  BY <1>4, <1>5

LEMMA LinesInit == Init => Lines!Init
<1> SUFFICES ASSUME Init PROVE Lines!Init
  OBVIOUS
<1>1. \A u \in User : [i \in 1..Len(queue[u]) |-> queue[u][i].write] = <<>>
  <2> TAKE u \in User
  <2>1. queue[u] = <<>> /\ <<>> \in Seq(Batch)
    BY DEF Init
  <2>2. WritesOf(queue[u]) \in Seq(Nat) /\ Len(WritesOf(queue[u])) = 0
    BY <2>1, WritesTyped
  <2>3. WritesOf(queue[u]) = <<>>
    BY <2>2, EmptySeq
  <2> QED
    BY <2>3 DEF WritesOf
<1>2. [u \in User |-> [i \in 1..Len(queue[u]) |-> queue[u][i].write]] = [u \in User |-> <<>>]
  BY <1>1
<1>3. Len(replies) = 0
  BY DEF Init
<1> QED
  BY <1>2, <1>3 DEF Init, Lines!Init, Write, Lines!Write

\* Steps that touch nothing the lines are made of.
LEMMA LinesSame ==
    ASSUME UNCHANGED <<user, queue, replies, server, reported>>
    PROVE  UNCHANGED Lines!vars
<1>1. [u \in User |-> [i \in 1..Len(queue'[u]) |-> queue'[u][i].write]]
      = [u \in User |-> [i \in 1..Len(queue[u]) |-> queue[u][i].write]]
  OBVIOUS
<1>2. Len(replies') = Len(replies)
  OBVIOUS
<1> QED
  BY <1>1, <1>2 DEF Lines!vars

\* Steps that drop the connection.
LEMMA LinesRetry ==
    ASSUME UNCHANGED <<user, queue, server, reported>>, replies' = <<>>
    PROVE  Lines!Retry
<1>1. [u \in User |-> [i \in 1..Len(queue'[u]) |-> queue'[u][i].write]]
      = [u \in User |-> [i \in 1..Len(queue[u]) |-> queue[u][i].write]]
  OBVIOUS
<1>2. Len(replies') = 0
  OBVIOUS
<1> QED
  BY <1>1, <1>2 DEF Lines!Retry

LEMMA LinesWritten ==
    ASSUME ClientInv, WriteMutations
    PROVE  \E w \in Write : Lines!Issue(w)
<1>1. /\ queue \in [User -> Seq(Batch)] /\ user \in User /\ issued \in Seq(User) /\ nextId \in Nat
  BY DEF ClientInv, StoreInv, StoreOK, OutsideOK
<1>2. Len(issued) + 1 \in Write
  <2>1. Len(issued) \in Nat /\ Len(issued) < MaxWrites
    BY <1>1, LenProperties DEF WriteMutations
  <2> QED
    BY <2>1, WriteBound DEF Write
<1>3. PICK w \in Write : w = Len(issued) + 1
  BY <1>2
<1>4. PICK b \in Batch : b = [id |-> nextId, write |-> w]
  BY <1>1, <1>3 DEF Batch
<1>5. /\ queue' = [queue EXCEPT ![user] = Append(queue[user], b)]
      /\ UNCHANGED <<user, replies, server, reported>>
  BY <1>3, <1>4 DEF WriteMutations, outside
<1>6. /\ queue'[user] = Append(queue[user], b)
      /\ \A u \in User \ {user} : queue'[u] = queue[u]
  BY <1>5, <1>1
<1>7. \A u \in User : WritesOf(queue'[u]) = IF u = user THEN Append(WritesOf(queue[user]), w)
                                            ELSE WritesOf(queue[u])
  <2>1. WritesOf(Append(queue[user], b)) = Append(WritesOf(queue[user]), w)
    BY <1>1, <1>4, WritesAppended
  <2> QED
    BY <2>1, <1>6
<1>8. [u \in User |-> WritesOf(queue'[u])]
      = [[u \in User |-> WritesOf(queue[u])] EXCEPT ![user] = Append(@, w)]
  BY <1>1, <1>7
<1>9. Lines!Issue(w)
  BY <1>5, <1>8 DEF Lines!Issue, WritesOf
<1> QED
  BY <1>9

\* The oldest batch leaves: the head of the line does.
LEMMA LinesRemoved ==
    ASSUME ClientInv, replies # <<>> \/ refusal,
           queue' = [queue EXCEPT ![user] = WithoutBatch(queue[user], Head(pipeline).id)],
           UNCHANGED <<user, issued, server>>, NEW outcome \in {"success", "error"},
           \/ reported' = [reported EXCEPT ![Head(pipeline).write] = outcome]
           \/ reported' = reported,
           \/ outcome = "success" /\ replies # <<>> /\ replies' = Tail(replies)
           \/ outcome = "error" /\ replies' = <<>>
    PROVE  Lines!Succeed \/ Lines!Fail
<1> DEFINE pending == [u \in User |-> [i \in 1..Len(queue[u]) |-> queue[u][i].write]]
<1>1. /\ StoreInv /\ NetworkInv /\ StoreOK /\ RowsInv /\ replies \in Seq(Batch)
      /\ pipeline \in Seq(Batch) /\ Prefix(pipeline, queue[user]) /\ pipeline # <<>>
  BY Pipeline, Occupied DEF ClientInv, StoreInv, NetworkInv, NetworkOK
<1>2. /\ Pending' = [Pending EXCEPT ![user] = Tail(@)]
      /\ Pending[user] # <<>> /\ Head(Pending[user]) = Head(pipeline).write
  BY <1>1, PendingRemoved
<1>3. Pending = pending
  BY DEF Pending, WritesOf
<1>4. Pending' = pending'
  BY DEF Pending, WritesOf
<1> HIDE DEF pending
<1>5. /\ pending' = [pending EXCEPT ![user] = Tail(@)]
      /\ pending[user] # <<>> /\ Head(pending[user]) = Head(pipeline).write
  BY <1>2, <1>3, <1>4
<1>6. CASE outcome = "success" /\ replies # <<>> /\ replies' = Tail(replies)
  <2>1. Len(replies) > 0 /\ Len(replies') = Len(replies) - 1
    BY <1>1, <1>6, EmptySeq, HeadTailProperties
  <2>2. Lines!Tell(Head(pending[user]), "success")
    BY <1>5, <1>6 DEF Lines!Tell
  <2>3. Lines!Succeed
    BY <2>1, <2>2, <1>5 DEF Lines!Succeed, pending
  <2> QED
    BY <2>3
<1>7. CASE outcome = "error" /\ replies' = <<>>
  <2>1. Len(replies') = 0
    BY <1>7
  <2>2. Lines!Tell(Head(pending[user]), "error")
    BY <1>5, <1>7 DEF Lines!Tell
  <2>3. Lines!Fail
    BY <2>1, <2>2, <1>5 DEF Lines!Fail, pending
  <2> QED
    BY <2>3
<1> QED
  BY <1>6, <1>7

LEMMA LinesApplied ==
    ASSUME ClientInv, Apply
    PROVE  Lines!Apply
<1> DEFINE pending == [u \in User |-> [i \in 1..Len(queue[u]) |-> queue[u][i].write]]
           k == Len(replies) + 1
<1>1. /\ sent # <<>>
      /\ server' = [server EXCEPT ![issued[Head(sent).write]] = Head(sent).write]
      /\ replies' = Append(replies, Head(sent))
      /\ UNCHANGED <<queue, user, reported>>
  BY DEF Apply
<1>2. /\ k \in 1..Len(queue[user]) /\ queue[user][k] = Head(sent)
      /\ issued[Head(sent).write] = user
      /\ sent \in Seq(Batch) /\ replies \in Seq(Batch)
  BY <1>1, NextRequest
<1>3. queue[user] \in Seq(Batch) /\ user \in User
  BY DEF ClientInv, StoreInv, StoreOK
<1>4. /\ pending[user] = WritesOf(queue[user])
      /\ Len(WritesOf(queue[user])) = Len(queue[user])
      /\ WritesOf(queue[user])[k] = Head(sent).write
  BY <1>2, <1>3, WritesTyped DEF WritesOf
<1>5. Len(replies) < Len(pending[user])
  <2>1. Len(replies) \in Nat /\ Len(queue[user]) \in Nat
    BY <1>2, <1>3, LenProperties
  <2> QED
    BY <2>1, <1>2, <1>4
<1>6. server' = [server EXCEPT ![user] = pending[user][Len(replies) + 1]]
  BY <1>1, <1>2, <1>4
<1>7. Len(replies') = Len(replies) + 1
  <2>1. Head(sent) \in Batch
    BY <1>1, <1>2, HeadTailProperties
  <2> QED
    BY <2>1, <1>1, <1>2
<1>8. pending' = pending
  BY <1>1
<1> HIDE DEF pending
<1> QED
  BY <1>1, <1>5, <1>6, <1>7, <1>8 DEF Lines!Apply, pending

LEMMA LinesCrashed ==
    ASSUME ClientInv, Crash
    PROVE  Lines!Next
<1>0. /\ StoreInv /\ NetworkInv /\ StoreOK /\ RowsInv /\ CallbackInv
      /\ UNCHANGED <<user, issued, server>>
  BY DEF ClientInv, StoreInv, Crash, outside
<1>1. CASE Initialize(queue) /\ UNCHANGED <<queue, reported>>
  <2>1. replies' = <<>>
    BY <1>1 DEF Initialize, DropConnection
  <2> QED
    BY <2>1, <1>0, <1>1, LinesRetry DEF Lines!Next
<1>2. CASE /\ replies # <<>>
           /\ \E c \in callbacks :
                 /\ c.user = user /\ c.id = Head(pipeline).id
                 /\ reported' = [reported EXCEPT ![c.write] = "success"]
           /\ Initialize(queue)
           /\ UNCHANGED queue
  <2> DEFINE pending == [u \in User |-> [i \in 1..Len(queue[u]) |-> queue[u][i].write]]
  <2>1. PICK c \in callbacks : /\ c.user = user /\ c.id = Head(pipeline).id
                               /\ reported' = [reported EXCEPT ![c.write] = "success"]
    BY <1>2
  <2>2. /\ pipeline \in Seq(Batch) /\ pipeline # <<>> /\ Prefix(pipeline, queue[user])
        /\ queue[user] \in Seq(Batch) /\ replies \in Seq(Batch)
    BY <1>0, <1>2, Occupied, Pipeline DEF NetworkInv, NetworkOK
  <2>3. c.write = Head(pipeline).write
    BY <1>0, <2>1, <2>2, CallbackOfOldest
  <2>4. Head(pipeline) = queue[user][1] /\ queue[user] # <<>>
    <3>1. Len(pipeline) \in Nat \ {0} /\ Len(queue[user]) \in Nat /\ Len(pipeline) <= Len(queue[user])
      BY <2>2, EmptySeq, LenProperties DEF Prefix
    <3> QED
      BY <2>2, <3>1 DEF Prefix
  <2>5. pending[user] # <<>> /\ Head(pending[user]) = Head(pipeline).write
    <3>1. pending[user] = WritesOf(queue[user])
      BY <1>0 DEF WritesOf, StoreOK
    <3> QED
      BY <3>1, <2>2, <2>4, WritesTyped
  <2>6. Len(replies) > 0 /\ Len(replies') = 0
    <3>1. replies' = <<>>
      BY <1>2 DEF Initialize, DropConnection
    <3> QED
      BY <3>1, <1>2, <2>2, EmptySeq
  <2>7. pending' = pending
    BY <1>2
  <2>8. reported' = [reported EXCEPT ![Head(pending[user])] = "success"]
    BY <2>1, <2>3, <2>5
  <2> HIDE DEF pending
  <2>9. Lines!Retry
    BY <2>5, <2>6, <2>7, <2>8, <1>0 DEF Lines!Retry, pending
  <2> QED
    BY <2>9 DEF Lines!Next
<1>3. CASE /\ refusal
           /\ queue' = [queue EXCEPT ![user] = WithoutBatch(@, Head(pipeline).id)]
           /\ Initialize(queue')
           /\ UNCHANGED reported
  <2>1. replies' = <<>>
    BY <1>3 DEF Initialize, DropConnection
  <2>2. queue' = [queue EXCEPT ![user] = WithoutBatch(queue[user], Head(pipeline).id)]
    BY <1>3
  <2>3. "error" \in {"success", "error"}
    OBVIOUS
  <2>4. Lines!Succeed \/ Lines!Fail
    BY <2>1, <2>2, <2>3, <1>0, <1>3, LinesRemoved
  <2> QED
    BY <2>4 DEF Lines!Next
<1> QED
  BY <1>1, <1>2, <1>3 DEF Crash

LEMMA LinesStep == ClientInv /\ [Next]_vars => [Lines!Next]_(Lines!vars)
<1> SUFFICES ASSUME ClientInv, [Next]_vars PROVE Lines!Next \/ UNCHANGED Lines!vars
  OBVIOUS
<1>0. StoreInv /\ NetworkInv
  BY DEF ClientInv
<1>1. CASE WriteMutations
  <2>1. \E w \in Write : Lines!Issue(w)
    BY <1>1, LinesWritten
  <2>2. Write = Lines!Write
    BY DEF Write, Lines!Write
  <2>3. \E w \in Lines!Write : Lines!Issue(w)
    BY <2>1, <2>2
  <2> QED
    BY <2>3 DEF Lines!Next
<1>2. CASE (\E t \in {"this", "earlier"} : TokenArrives(t)) \/ HandshakeCompletes
            \/ BackoffElapsed \/ EnableNetwork \/ AnswerHandshake \/ Refuse \/ UNCHANGED vars
  <2>1. UNCHANGED <<user, queue, replies, server, reported>>
    BY <1>2 DEF TokenArrives, HandshakeCompletes, BackoffElapsed, EnableNetwork, AnswerHandshake,
                Refuse, vars, wire, outside
  <2> QED
    BY <2>1, LinesSame
<1>3. CASE TokenFails \/ Broken \/ IdleTimeout \/ ConnectivityChanges \/ DisableNetwork
  <2>1. UNCHANGED <<user, queue, server, reported>> /\ replies' = <<>>
    BY <1>3 DEF TokenFails, Broken, IdleTimeout, ConnectivityChanges, DisableNetwork,
                RetryLater, RestartNetwork, DropConnection, outside
  <2> QED
    BY <2>1, LinesRetry DEF Lines!Next
<1>4. CASE MutationResult
  <2>1. /\ replies # <<>> /\ replies' = Tail(replies)
        /\ queue' = [queue EXCEPT ![user] = WithoutBatch(queue[user], Head(pipeline).id)]
        /\ NotifyUser(Head(pipeline).id, "success")
        /\ UNCHANGED <<user, issued, server>>
    BY <1>4 DEF MutationResult, outside
  <2>2. "success" \in Outcome /\ "success" \in {"success", "error"} /\ pipeline # <<>>
    BY <2>1, <1>0, Occupied DEF Outcome
  <2>3. \/ reported' = [reported EXCEPT ![Head(pipeline).write] = "success"]
        \/ reported' = reported
    BY <2>1, <2>2, <1>0, Told
  <2>4. Lines!Succeed \/ Lines!Fail
    BY <2>1, <2>2, <2>3, LinesRemoved
  <2> QED
    BY <2>4 DEF Lines!Next
<1>5. CASE Refused
  <2>1. /\ refusal /\ replies' = <<>>
        /\ queue' = [queue EXCEPT ![user] = WithoutBatch(queue[user], Head(pipeline).id)]
        /\ NotifyUser(Head(pipeline).id, "error")
        /\ UNCHANGED <<user, issued, server>>
    BY <1>5 DEF Refused, HandleWriteError, DropConnection, outside
  <2>2. "error" \in Outcome /\ "error" \in {"success", "error"} /\ pipeline # <<>>
    BY <2>1, <1>0, Occupied DEF Outcome
  <2>3. \/ reported' = [reported EXCEPT ![Head(pipeline).write] = "error"]
        \/ reported' = reported
    BY <2>1, <2>2, <1>0, Told
  <2>4. Lines!Succeed \/ Lines!Fail
    BY <2>1, <2>2, <2>3, LinesRemoved
  <2> QED
    BY <2>4 DEF Lines!Next
<1>6. ASSUME NEW u \in User, HandleCredentialChange(u)
      PROVE  Lines!Next
  <2>1. user' = u /\ UNCHANGED <<queue, server, reported>>
    BY <1>6 DEF HandleCredentialChange, outside
  <2>2. Len(replies') = 0
    <3>1. CASE enabled
      <4>1. replies' = <<>>
        BY <3>1, <1>6 DEF HandleCredentialChange, RestartNetwork, DropConnection
      <4> QED
        BY <4>1
    <3>2. CASE ~enabled
      <4>1. replies' = replies
        BY <3>2, <1>6 DEF HandleCredentialChange, wire
      <4>2. handshake = "none"
        BY <3>2, <1>0 DEF NetworkInv, StreamInv
      <4>3. replies = <<>>
        BY <4>2, <1>0 DEF NetworkInv, WireInv
      <4> QED
        BY <4>1, <4>3
    <3> QED
      BY <3>1, <3>2
  <2>3. Lines!SignIn(u)
    BY <2>1, <2>2 DEF Lines!SignIn
  <2> QED
    BY <2>3 DEF Lines!Next
<1>7. CASE Crash
  BY <1>7, LinesCrashed
<1>8. CASE Apply
  BY <1>8, LinesApplied DEF Lines!Next
<1> QED
  BY <1>1, <1>2, <1>3, <1>4, <1>5, <1>6, <1>7, <1>8 DEF Next, Client, Server

\* The write path of the client implements durable lines of writes, for any number of
\* users, writes and disturbances and any size of the pipeline (WritesSpec).
THEOREM ClientImplementsLines == Spec => WritesSpec
BY LinesInit, LinesStep, ClientInvariant, PTL DEF Spec, WritesSpec, Lines!Spec
=============================================================================
