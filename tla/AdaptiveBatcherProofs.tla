------------------------ MODULE AdaptiveBatcherProofs ------------------------
(* Proofs about AdaptiveBatcher, for any set of requests and any batch size  *)
(* above one.  With every fault the module has, it keeps its types and the   *)
(* order of arrival, and calls suspended in Queue.put are woken.  With       *)
(* requests that merge, models that answer or raise and clients that stay,   *)
(* it implements BatchService.                                              *)
EXTENDS AdaptiveBatcher, FiniteSets, TLAPS, FiniteSetTheorems, FunctionTheorems, SequenceTheorems

(* Rows in which nothing comes twice.                                       *)

(* Taking an element out leaves elements of the same set. *)
LEMMA WithoutTyping ==
  ASSUME NEW S, NEW row \in Seq(S), NEW r
  PROVE  Without(row, r) \in Seq(S)
<1>1. CASE r \notin Range(row)
  BY <1>1 DEF Without
<1>2. CASE r \in Range(row)
  <2>1. \E k \in 1..Len(row) : row[k] = r
    BY <1>2 DEF Range
  <2> DEFINE at == CHOOSE k \in 1..Len(row) : row[k] = r
  <2>2. at \in 1..Len(row)
    BY <2>1
  <2> HIDE DEF at
  <2>3. [i \in 1..(Len(row) - 1) |-> row[IF i < at THEN i ELSE i + 1]] \in Seq(S)
    BY <2>2
  <2> QED  BY <1>2, <2>3 DEF Without, at
<1> QED  BY <1>1, <1>2

(* Queue.put, del _workers[pid]).                                           *)
LEMMA WithoutDistinct ==
  ASSUME NEW S, NEW row \in Seq(S), NEW r, Distinct(row)
  PROVE  /\ Without(row, r) \in Seq(S) /\ Distinct(Without(row, r))
         /\ \A i \in 1..Len(Without(row, r)) :
              \E j \in 1..Len(row) : Without(row, r)[i] = row[j] /\ row[j] # r
         /\ Range(Without(row, r)) = Range(row) \ {r}
<1>1. CASE r \notin Range(row)
  BY <1>1 DEF Without, Range
<1>2. CASE r \in Range(row)
  <2>1. \E k \in 1..Len(row) : row[k] = r
    BY <1>2 DEF Range
  <2> DEFINE at == CHOOSE k \in 1..Len(row) : row[k] = r
             n == Len(row)
             from(i) == IF i < at THEN i ELSE i + 1
             rest == [i \in 1..(n - 1) |-> row[from(i)]]
  <2>2. at \in 1..n /\ row[at] = r /\ n \in Nat
    BY <2>1
  <2>3. Without(row, r) = rest
    BY <1>2 DEF Without
  <2>4. \A i \in 1..n : row[i] \in S
    OBVIOUS
  <2> HIDE DEF at, n
  <2>5. \A i \in 1..(n - 1) : from(i) \in (1..n) \ {at}
    BY <2>2
  <2>6. rest \in Seq(S) /\ Len(rest) = n - 1 /\ \A i \in 1..(n - 1) : rest[i] = row[from(i)]
    BY <2>2, <2>4, <2>5
  <2>7. \A i, j \in 1..n : row[i] = row[j] => i = j
    BY DEF Distinct, n
  <2>8. \A i \in 1..(n - 1) : row[from(i)] # r
    BY <2>2, <2>5, <2>7
  <2>9. \A j \in (1..n) \ {at} : \E i \in 1..(n - 1) : from(i) = j
    <3> SUFFICES ASSUME NEW j \in (1..n) \ {at}
                 PROVE  \E i \in 1..(n - 1) : from(i) = j
      OBVIOUS
    <3>1. CASE j < at
      <4>1. j \in 1..(n - 1) /\ from(j) = j
        BY <2>2, <3>1
      <4> QED  BY <4>1
    <3>2. CASE ~(j < at)
      <4>1. j - 1 \in 1..(n - 1) /\ from(j - 1) = j
        BY <2>2, <3>2
      <4> QED  BY <4>1
    <3> QED  BY <3>1, <3>2
  <2>10. \A i, j \in 1..(n - 1) : from(i) = from(j) => i = j
    BY <2>2
  <2> HIDE DEF from, rest
  <2>11. Distinct(rest)
    BY <2>5, <2>6, <2>7, <2>10 DEF Distinct
  <2>12. Range(rest) = Range(row) \ {r}
    <3>1. DOMAIN rest = 1..(n - 1) /\ DOMAIN row = 1..n
      BY <2>6 DEF n
    <3>2. \A j \in 1..n : row[j] # r => \E i \in 1..(n - 1) : rest[i] = row[j]
      BY <2>2, <2>6, <2>9
    <3>3. \A i \in 1..(n - 1) : from(i) \in 1..n
      BY <2>5
    <3> DEFINE T == Range(row)
    <3>4. \A x : x \in T <=> \E j \in 1..n : row[j] = x
      BY <3>1 DEF Range
    <3>5. \A x : x \in Range(rest) <=> \E i \in 1..(n - 1) : rest[i] = x
      BY <3>1 DEF Range
    <3> HIDE DEF T
    <3>6. \A x : x \in Range(rest) => x \in T \ {r}
      BY <2>6, <2>8, <3>3, <3>4, <3>5
    <3>7. \A x : x \in T \ {r} => x \in Range(rest)
      BY <3>2, <3>4, <3>5
    <3> QED  BY <3>6, <3>7 DEF T
  <2> QED  BY <2>3, <2>5, <2>6, <2>8, <2>11, <2>12 DEF n
<1> QED  BY <1>1, <1>2

(* An element that is new goes to the end (Queue.put, a key of a dict).       *)
LEMMA AppendDistinct ==
  ASSUME NEW S, NEW row \in Seq(S), Distinct(row), NEW x \in S, x \notin Range(row)
  PROVE  /\ Append(row, x) \in Seq(S) /\ Distinct(Append(row, x))
         /\ Range(Append(row, x)) = Range(row) \cup {x}
<1>1. /\ Append(row, x) \in Seq(S) /\ Len(Append(row, x)) = Len(row) + 1 /\ Len(row) \in Nat
      /\ \A i \in 1..(Len(row) + 1) : Append(row, x)[i] = IF i = Len(row) + 1 THEN x ELSE row[i]
  OBVIOUS
<1>2. DOMAIN Append(row, x) = 1..(Len(row) + 1) /\ DOMAIN row = 1..Len(row)
  OBVIOUS
<1>3. \A i \in 1..Len(row) : row[i] # x
  BY <1>2 DEF Range
<1>4. Distinct(Append(row, x))
  BY <1>1, <1>3 DEF Distinct
<1>5. Range(Append(row, x)) = Range(row) \cup {x}
  BY <1>1, <1>2 DEF Range
<1> QED  BY <1>1, <1>4, <1>5

(* The first k of a row without repetitions are k.                          *)
LEMMA FirstOfRow ==
  ASSUME NEW S, NEW row \in Seq(S), Distinct(row), NEW k \in 0..Len(row)
  PROVE  LET first == {row[i] : i \in 1..k}
         IN  IsFiniteSet(first) /\ Cardinality(first) = k
<1> DEFINE first == {row[i] : i \in 1..k}
           f == [i \in 1..k |-> row[i]]
<1>1. f \in Bijection(1..k, first)
  BY DEF Bijection, Injection, Surjection, IsInjective, Distinct
<1>2. ExistsBijection(1..k, first)
  BY <1>1 DEF ExistsBijection
<1>3. k \in Nat /\ IsFiniteSet(1..k) /\ Cardinality(1..k) = k
  BY FS_Interval
<1> HIDE DEF first, f
<1>4. IsFiniteSet(first) /\ Cardinality(first) = k
  BY <1>2, <1>3, FS_Bijection
<1> QED  BY <1>4 DEF first

(* Two rows, one after the other (to_batch and the queue).                   *)
LEMMA RangeOfBoth ==
  ASSUME NEW S, NEW a \in Seq(S), NEW b \in Seq(S)
  PROVE  /\ Range(a \o b) = Range(a) \cup Range(b)
         /\ Distinct(a \o b) => Distinct(a) /\ Distinct(b) /\ Range(a) \cap Range(b) = {}
<1> DEFINE row == a \o b
<1>1. /\ Len(a) \in Nat /\ Len(b) \in Nat /\ Len(row) = Len(a) + Len(b)
      /\ \A i \in 1..Len(a) : row[i] = a[i]
  OBVIOUS
<1>2. \A i \in 1..Len(b) : row[Len(a) + i] = b[i]
  OBVIOUS
<1>3. \A i \in 1..Len(row) : i \in 1..Len(a) \/ \E j \in 1..Len(b) : i = Len(a) + j
  <2> HIDE DEF row
  <2> SUFFICES ASSUME NEW i \in 1..Len(row), i \notin 1..Len(a)
               PROVE  \E j \in 1..Len(b) : i = Len(a) + j
    OBVIOUS
  <2>1. i - Len(a) \in 1..Len(b) /\ i = Len(a) + (i - Len(a))
    BY <1>1
  <2> QED  BY <2>1
<1>4. /\ \A i \in 1..Len(a) : i \in 1..Len(row)
      /\ \A i \in 1..Len(b) : Len(a) + i \in 1..Len(row)
  <2> HIDE DEF row
  <2> QED  BY <1>1
<1> HIDE DEF row
<1>5. Range(row) = Range(a) \cup Range(b)
  <2>1. DOMAIN row = 1..Len(row) /\ DOMAIN a = 1..Len(a) /\ DOMAIN b = 1..Len(b)
    BY DEF row
  <2>2. ASSUME NEW i \in 1..Len(row)
        PROVE  row[i] \in Range(a) \cup Range(b)
    BY <1>1, <1>2, <1>3, <2>1 DEF Range
  <2>3. \A x : x \in Range(a) \cup Range(b) => x \in Range(row)
    BY <1>1, <1>2, <1>4, <2>1 DEF Range
  <2> QED  BY <2>1, <2>2, <2>3 DEF Range
<1>6. ASSUME Distinct(row)
      PROVE  Distinct(a) /\ Distinct(b) /\ Range(a) \cap Range(b) = {}
  <2>1. Distinct(a)
    BY <1>1, <1>4, <1>6 DEF Distinct
  <2>2. Distinct(b)
    <3> SUFFICES ASSUME NEW i \in 1..Len(b), NEW j \in 1..Len(b), b[i] = b[j]
                 PROVE  i = j
      BY DEF Distinct
    <3>1. row[Len(a) + i] = row[Len(a) + j]
      BY <1>2
    <3>2. Len(a) + i = Len(a) + j
      BY <1>4, <1>6, <3>1 DEF Distinct
    <3> QED  BY <1>1, <3>2
  <2>3. \A i \in 1..Len(a), j \in 1..Len(b) : a[i] # b[j]
    <3> SUFFICES ASSUME NEW i \in 1..Len(a), NEW j \in 1..Len(b), a[i] = b[j]
                 PROVE  FALSE
      OBVIOUS
    <3>1. row[i] = row[Len(a) + j]
      BY <1>1, <1>2
    <3>2. i = Len(a) + j
      BY <1>4, <1>6, <3>1 DEF Distinct
    <3> QED  BY <1>1, <3>2
  <2> QED  BY <2>1, <2>2, <2>3 DEF Range
<1> QED  BY <1>5, <1>6 DEF row

(* of to_batch, which then starts again).                                   *)
LEMMA CutBatch ==
  ASSUME NEW S, NEW items \in Seq(S), Distinct(items), NEW k \in 1..Len(items)
  PROVE  LET batch == SubSeq(items, 1, k)
             rest == SubSeq(items, k + 1, Len(items))
         IN  /\ batch \in Seq(S) /\ Len(batch) = k
             /\ rest \in Seq(S) /\ Distinct(rest)
             /\ Range(batch) \cup Range(rest) = Range(items)
             /\ Range(batch) \cap Range(rest) = {}
<1> DEFINE batch == SubSeq(items, 1, k)
           rest == SubSeq(items, k + 1, Len(items))
<1>1. /\ batch \in Seq(S) /\ Len(batch) = k
      /\ \A i \in 1..k : batch[i] = items[i]
  OBVIOUS
<1>2. /\ rest \in Seq(S) /\ Len(rest) = Len(items) - k
      /\ \A i \in 1..(Len(items) - k) : rest[i] = items[k + i]
  OBVIOUS
<1> HIDE DEF batch, rest
<1>3. batch \o rest = items
  <2>1. 1 \in 1..(Len(items) + 1) /\ k \in 0..Len(items) /\ Len(items) \in k..Len(items)
    OBVIOUS
  <2>2. SubSeq(items, 1, k) \o SubSeq(items, k + 1, Len(items)) = SubSeq(items, 1, Len(items))
    BY <2>1, ConcatAdjacentSubSeq
  <2> QED  BY <2>2, SubSeqFull DEF batch, rest
<1>4. /\ Range(batch) \cup Range(rest) = Range(items)
      /\ Distinct(rest) /\ Range(batch) \cap Range(rest) = {}
  BY <1>1, <1>2, <1>3, RangeOfBoth
<1> QED  BY <1>1, <1>2, <1>4 DEF batch, rest

-----------------------------------------------------------------------------

(* The empty queue (_clear_queue, _batch_requests) is a row of no requests. *)
LEMMA EmptyRow == <<>> \in Seq(Requests) /\ Len(<<>>) = 0
OBVIOUS

(* settings.max_batch_size as load_batching lets it through (hooks.py).     *)
LEMMA Sizes == MaxBatchSize \in Nat /\ MaxBatchSize > 1 /\ 0 < MaxBatchSize
BY SizeAssumption

(* The waiting calls a queue operation wakes are calls of the module. *)
LEMMA WakePuttersTyping ==
  ASSUME TypeOK, NEW n \in Nat, WakePutters(n)
  PROVE  /\ putters' \in Seq(Requests)
         /\ client' \in [Requests -> {"idle", "blocked", "woken", "waiting"} \cup Answers]
<1>1. Minimum(n, Len(putters)) \in 0..Len(putters)
  BY DEF TypeOK, Minimum
<1>2. putters' \in Seq(Requests)
  BY <1>1 DEF WakePutters, TypeOK
<1>3. client' \in [Requests -> {"idle", "blocked", "woken", "waiting"} \cup Answers]
  BY DEF WakePutters, TypeOK
<1> QED  BY <1>2, <1>3

(* However many items a step of the batching task takes, the calls it wakes *)
(* and the putters it leaves are calls of the module.                       *)
LEMMA TakenTyping ==
  ASSUME TypeOK, queue' \in Seq(Requests), Len(queue') =< Len(queue),
         WakePutters(Len(queue) - Len(queue'))
  PROVE  /\ putters' \in Seq(Requests)
         /\ client' \in [Requests -> {"idle", "blocked", "woken", "waiting"} \cup Answers]
<1>1. Len(queue) - Len(queue') \in Nat
  BY DEF TypeOK
<1> QED  BY <1>1, WakePuttersTyping

(* The batching task keeps its part of the types and bounds, however its    *)
(* step ends.                                                               *)
LEMMA FillTyping ==
  ASSUME TypeOK,
         NEW held \in Seq(Requests), NEW unread \in Seq(Requests),
         NEW yielded \in SUBSET Batches,
         Len(held) < MaxBatchSize, Len(unread) =< MaxBatchSize,
         Fill(held, unread, yielded)
  PROVE  /\ batcher' \in {"none", "scheduled", "filling"}
         /\ filling' \in Seq(Requests) /\ Len(filling') < MaxBatchSize
         /\ queue' \in Seq(Requests) /\ Len(queue') =< MaxBatchSize
         /\ predicting' \subseteq Batches
         /\ clearing' \in BOOLEAN /\ ahead' \subseteq Requests
         /\ Len(queue') =< Len(unread)
<1> DEFINE items == held \o unread
           batch == SubSeq(items, 1, MaxBatchSize)
           rest == SubSeq(items, MaxBatchSize + 1, Len(items))
<1>0. MaxBatchSize \in Nat /\ MaxBatchSize > 1
  BY SizeAssumption
<1>1. items \in Seq(Requests) /\ Len(items) = Len(held) + Len(unread)
  OBVIOUS
<1>2. CASE Len(items) < MaxBatchSize
  <2>1. /\ batcher' = IF items = <<>> THEN "none" ELSE "filling"
        /\ filling' = items
        /\ queue' = <<>>
        /\ predicting' = predicting \cup yielded
        /\ UNCHANGED <<clearing, ahead>>
    BY <1>2 DEF Fill
  <2> HIDE DEF items
  <2> QED  BY <1>0, <1>1, <1>2, <2>1 DEF TypeOK
<1>3. CASE Len(items) >= MaxBatchSize
  <2>1. batch \in Seq(Requests)
    BY <1>0, <1>1, <1>3
  <2>2. rest \in Seq(Requests) /\ Len(rest) = Len(items) - MaxBatchSize
    BY <1>0, <1>1, <1>3
  <2>3. Batch(batch) \in Batches
    BY <2>1 DEF Batch, Batches
  <2>4. ~(Len(items) < MaxBatchSize)
    BY <1>0, <1>1, <1>3
  <2>5. Len(rest) < MaxBatchSize
    BY <1>0, <1>1, <2>2
  <2>6. CASE Mergeable(batch)
    <3>1. /\ batcher' = IF rest = <<>> THEN "none" ELSE "filling"
          /\ filling' = rest
          /\ queue' = <<>>
          /\ predicting' = predicting \cup yielded \cup {Batch(batch)}
          /\ UNCHANGED <<clearing, ahead>>
      BY <2>4, <2>6 DEF Fill
    <3> HIDE DEF items, batch, rest
    <3> QED  BY <1>0, <2>2, <2>3, <2>5, <3>1 DEF TypeOK
  <2>7. CASE ~Mergeable(batch)
    <3>1. FailBatcher(rest) /\ predicting' = predicting \cup yielded
      BY <2>4, <2>7 DEF Fill
    <3> HIDE DEF items, batch, rest
    <3>2. /\ batcher' = "none" /\ filling' = <<>> /\ queue' = rest
          /\ clearing' = TRUE /\ ahead' \subseteq Requests
      BY <3>1 DEF FailBatcher
    <3>3. predicting' \subseteq Batches
      BY <3>1 DEF TypeOK
    <3> QED  BY Sizes, EmptyRow, <1>1, <2>2, <2>5, <3>2, <3>3
  <2> QED  BY <2>6, <2>7
<1> QED  BY <1>0, <1>1, <1>2, <1>3

(* Every step of the module keeps its types and bounds. *)
LEMMA TypeStep == TypeOK /\ [Next]_vars => TypeOK'
<1> SUFFICES ASSUME TypeOK, [Next]_vars  PROVE TypeOK'
  OBVIOUS
<1>0. MaxBatchSize \in Nat /\ MaxBatchSize > 1
  BY SizeAssumption
<1>1. ASSUME NEW r \in Requests, QueueRequest(r)
      PROVE  TypeOK'
  <2>1. CASE Full
    <3>1. /\ putters' = Append(putters, r)
          /\ client' = [client EXCEPT ![r] = "blocked"]
          /\ UNCHANGED <<queue, issued, future, batcher, filling, predicting, clearing, ahead>>
      BY <1>1, <2>1 DEF QueueRequest, Suspend
    <3> QED  BY <3>1 DEF TypeOK
  <2>2. CASE ~Full
    <3>1. Len(queue) < MaxBatchSize
      BY <1>0, <2>2 DEF Full, TypeOK
    <3>2. /\ queue' = Append(queue, r)
          /\ issued' = Append(issued, r)
          /\ future' = [future EXCEPT ![r] = "pending"]
          /\ client' = [client EXCEPT ![r] = "waiting"]
          /\ batcher' = IF batcher = "none" THEN "scheduled" ELSE batcher
          /\ UNCHANGED <<putters, filling, predicting, clearing, ahead>>
      BY <1>1, <2>2 DEF QueueRequest, Enqueue
    <3>3. queue' \in Seq(Requests) /\ Len(queue') =< MaxBatchSize
      BY <1>0, <3>1, <3>2 DEF TypeOK
    <3> QED  BY <3>2, <3>3 DEF TypeOK
  <2> QED  BY <2>1, <2>2
<1>2. ASSUME NEW r \in Requests, Predict(r)
      PROVE  TypeOK'
  BY <1>1, <1>2 DEF Predict
<1>3. ASSUME NEW r \in Requests, ResumePut(r)
      PROVE  TypeOK'
  BY <1>1, <1>3 DEF ResumePut
<1>4. ASSUME NEW r \in Requests, WaitResponse(r)
      PROVE  TypeOK'
  BY <1>4 DEF TypeOK, WaitResponse, Answers
<1>5. ASSUME NEW r \in Requests, Cancel(r)
      PROVE  TypeOK'
  <2>1. CASE CancelPut(r)
    <3>1. putters' \in Seq(Requests)
      <4>1. Without(putters, r) \in Seq(Requests)
        BY WithoutTyping DEF TypeOK
      <4>2. putters # <<>> => Tail(putters) \in Seq(Requests)
        BY DEF TypeOK
      <4> QED  BY <2>1, <4>1, <4>2 DEF CancelPut
    <3>2. client' \in [Requests -> {"idle", "blocked", "woken", "waiting"} \cup Answers]
      BY <2>1 DEF CancelPut, TypeOK, Answers
    <3> QED  BY <1>5, <2>1, <3>1, <3>2 DEF Cancel, CancelPut, TypeOK
  <2>2. CASE CancelWait(r)
    BY <1>5, <2>2 DEF TypeOK, Cancel, CancelWait, Answers
  <2> QED  BY <1>5, <2>1, <2>2 DEF Cancel
<1>6. CASE RunBatcher
  <2>1. /\ batcher' \in {"none", "scheduled", "filling"}
        /\ filling' \in Seq(Requests) /\ Len(filling') < MaxBatchSize
        /\ queue' \in Seq(Requests) /\ Len(queue') =< MaxBatchSize
        /\ predicting' \subseteq Batches
        /\ clearing' \in BOOLEAN /\ ahead' \subseteq Requests
        /\ Len(queue') =< Len(queue)
    BY <1>6, FillTyping DEF TypeOK, RunBatcher
  <2> QED  BY <1>6, <2>1, TakenTyping DEF TypeOK, RunBatcher
<1>7. CASE BatchTimeout
  <2>1. /\ batcher' \in {"none", "scheduled", "filling"}
        /\ filling' \in Seq(Requests) /\ Len(filling') < MaxBatchSize
        /\ queue' \in Seq(Requests) /\ Len(queue') =< MaxBatchSize
        /\ predicting' \subseteq Batches
        /\ clearing' \in BOOLEAN /\ ahead' \subseteq Requests
        /\ Len(queue') =< Len(queue)
    <3>1. CASE Mergeable(filling)
      <4>1. {Batch(filling)} \in SUBSET Batches
        BY DEF Batch, Batches, TypeOK
      <4>2. Fill(<<>>, queue, {Batch(filling)})
        BY <1>7, <3>1 DEF BatchTimeout
      <4>3. <<>> \in Seq(Requests) /\ Len(<<>>) < MaxBatchSize
        BY <1>0
      <4> QED  BY <4>1, <4>2, <4>3, FillTyping DEF TypeOK
    <3>2. CASE ~Mergeable(filling)
      BY <1>0, <1>7, <3>2 DEF BatchTimeout, FailBatcher, TypeOK
    <3> QED  BY <3>1, <3>2
  <2> QED  BY <1>7, <2>1, TakenTyping DEF TypeOK, BatchTimeout
<1>8. CASE ClearQueue
  <2>1. queue' \in {<<>>, queue}
    BY <1>8 DEF ClearQueue
  <2>2. queue' \in Seq(Requests) /\ Len(queue') =< Len(queue) /\ Len(queue') =< MaxBatchSize
    <3>1. CASE queue' = queue
      BY <3>1 DEF TypeOK
    <3>2. CASE queue' = <<>>
      BY Sizes, EmptyRow, <3>2 DEF TypeOK
    <3> QED  BY <2>1, <3>1, <3>2
  <2>3. /\ putters' \in Seq(Requests)
        /\ client' \in [Requests -> {"idle", "blocked", "woken", "waiting"} \cup Answers]
    BY <1>8, <2>2, TakenTyping DEF ClearQueue
  <2>4. future' \in [Requests -> {"absent", "pending"} \cup Answers]
    BY <1>8 DEF ClearQueue, TypeOK, Answers
  <2>5. UNCHANGED <<issued, batcher, filling, predicting>> /\ clearing' = FALSE /\ ahead' = {}
    BY <1>8 DEF ClearQueue
  <2> QED  BY <2>2, <2>3, <2>4, <2>5 DEF TypeOK
<1>9. ASSUME NEW batch \in predicting, NEW outcome \in ModelOutcomes, FinishPredict(batch, outcome)
      PROVE  TypeOK'
  BY <1>9 DEF TypeOK, FinishPredict, Batches
<1>10. ASSUME NEW batch \in predicting, PredictCallback(batch)
       PROVE  TypeOK'
  BY <1>10 DEF TypeOK, PredictCallback, Resolve, Answers
<1>11. CASE UNCHANGED vars
  BY <1>11 DEF TypeOK, vars
<1> QED  BY <1>2, <1>3, <1>4, <1>5, <1>6, <1>7, <1>8, <1>9, <1>10, <1>11 DEF Next

(* The types and bounds hold throughout. *)
THEOREM Typing == Spec => []TypeOK
<1>1. Init => TypeOK
  <2> SUFFICES ASSUME Init PROVE TypeOK
    OBVIOUS
  <2>1. clearing \in BOOLEAN
    BY DEF Init
  <2>2. /\ queue \in Seq(Requests) /\ Len(queue) =< MaxBatchSize
        /\ filling \in Seq(Requests) /\ Len(filling) < MaxBatchSize
    BY EmptyRow, Sizes DEF Init
  <2> QED  BY <2>1, <2>2, EmptyRow DEF Init, TypeOK
<1> QED  BY <1>1, TypeStep, PTL DEF Spec

-----------------------------------------------------------------------------
(* Arrival order.  _clear_queue empties the queue and leaves to_batch       *)
(* alone, so the order survives it only because no batch is being filled    *)
(* then; hence the second and third conjunct.                               *)
OrderInv ==
  /\ ArrivalOrder
  /\ batcher # "filling" => filling = <<>>
  /\ clearing => batcher # "filling"

(* A row that ends the arrival order. *)
Ends(row, all) ==
  /\ Len(row) =< Len(all)
  /\ \A i \in 1..Len(row) : row[i] = all[Len(all) - Len(row) + i]

(* ArrivalOrder says that what is unserved ends the arrival order.           *)
LEMMA OrderAsEnds ==
  ASSUME NEW held \in Seq(Requests), NEW unread \in Seq(Requests), NEW all \in Seq(Requests)
  PROVE  LET row == held \o unread
             served == Len(all) - Len(row)
         IN (/\ served >= 0
             /\ \A i \in 1..Len(row) : row[i] = all[served + i])
            <=> Ends(row, all)
<1> DEFINE row == held \o unread
<1>1. Len(row) \in Nat /\ Len(all) \in Nat
  OBVIOUS
<1> HIDE DEF row
<1>2. Len(all) - Len(row) >= 0 <=> Len(row) =< Len(all)
  BY <1>1
<1> QED  BY <1>2 DEF Ends, row

(* The end of an end of the arrival order ends it too.                      *)
LEMMA EndsOfEnds ==
  ASSUME NEW all \in Seq(Requests), NEW row \in Seq(Requests), NEW tail \in Seq(Requests),
         Ends(row, all), Ends(tail, row)
  PROVE  Ends(tail, all)
BY DEF Ends

(* A request put into the queue arrives last: the queue still ends the      *)
(* arrival order (_queue_request).                                          *)
LEMMA EndsAppend ==
  ASSUME NEW all \in Seq(Requests), NEW row \in Seq(Requests), NEW r \in Requests,
         Ends(row, all)
  PROVE  Ends(Append(row, r), Append(all, r))
<1>1. /\ Len(Append(row, r)) = Len(row) + 1 /\ Len(Append(all, r)) = Len(all) + 1
      /\ Len(row) \in Nat /\ Len(all) \in Nat /\ Len(row) =< Len(all)
  BY DEF Ends
<1>2. ASSUME NEW i \in 1..(Len(row) + 1)
      PROVE  Append(row, r)[i] = Append(all, r)[Len(all) - Len(row) + i]
  <2>1. CASE i = Len(row) + 1
    BY <1>1, <2>1
  <2>2. CASE i \in 1..Len(row)
    BY <1>1, <2>2 DEF Ends
  <2> QED  BY <1>1, <1>2, <2>1, <2>2
<1>3. (Len(all) + 1) - (Len(row) + 1) = Len(all) - Len(row)
  BY <1>1
<1> QED  BY <1>1, <1>2, <1>3 DEF Ends

(* What the batching task leaves behind ends what it had. *)
LEMMA FillEnds ==
  ASSUME TypeOK,
         NEW held \in Seq(Requests), NEW unread \in Seq(Requests), NEW yielded,
         Fill(held, unread, yielded)
  PROVE  /\ Ends(filling' \o queue', held \o unread)
         /\ batcher' # "filling" => filling' = <<>>
         /\ batcher' = "filling" => clearing' = clearing
<1> DEFINE items == held \o unread
           batch == SubSeq(items, 1, MaxBatchSize)
           rest == SubSeq(items, MaxBatchSize + 1, Len(items))
<1>1. items \in Seq(Requests)
  OBVIOUS
<1>2. CASE Len(items) < MaxBatchSize
  <2>1. filling' = items /\ queue' = <<>> /\ batcher' = (IF items = <<>> THEN "none" ELSE "filling")
        /\ clearing' = clearing
    BY <1>2 DEF Fill
  <2> HIDE DEF items
  <2> QED  BY <1>1, <2>1 DEF Ends, items
<1>3. CASE ~(Len(items) < MaxBatchSize)
  <2>1. rest \in Seq(Requests) /\ Ends(rest, items)
    <3>1. Len(items) \in Nat /\ Len(items) >= MaxBatchSize
      BY <1>1, <1>3, Sizes
    <3> HIDE DEF items
    <3>2. rest \in Seq(Requests) /\ Len(rest) = Len(items) - MaxBatchSize
      BY <1>1, <3>1, Sizes
    <3>3. \A i \in 1..Len(rest) : rest[i] = items[MaxBatchSize + i]
      BY <1>1, <3>1, Sizes
    <3>4. Len(items) - Len(rest) = MaxBatchSize /\ Len(rest) =< Len(items)
      BY <3>1, <3>2, Sizes
    <3> HIDE DEF rest
    <3> QED  BY <3>2, <3>3, <3>4 DEF Ends
  <2>2. CASE Mergeable(batch)
    <3>1. filling' = rest /\ queue' = <<>> /\ batcher' = (IF rest = <<>> THEN "none" ELSE "filling")
          /\ clearing' = clearing
      BY <1>3, <2>2 DEF Fill
    <3>2. filling' \o queue' = rest
      BY <2>1, <3>1
    <3> QED  BY <2>1, <3>1, <3>2
  <2>3. CASE ~Mergeable(batch)
    <3>1. filling' = <<>> /\ queue' = rest /\ batcher' = "none"
      BY <1>3, <2>3 DEF Fill, FailBatcher
    <3>2. filling' \o queue' = rest
      BY <2>1, <3>1
    <3> QED  BY <2>1, <3>1, <3>2
  <2> QED  BY <2>2, <2>3
<1> QED  BY <1>2, <1>3

(* Every step of the module keeps the unserved requests the end of the      *)
(* arrival order.                                                           *)
LEMMA OrderStep == TypeOK /\ OrderInv /\ [Next]_vars => OrderInv'
<1> SUFFICES ASSUME TypeOK, OrderInv, [Next]_vars  PROVE OrderInv'
  OBVIOUS
<1>t. TypeOK'
  BY TypeStep
<1>u. /\ filling \in Seq(Requests) /\ queue \in Seq(Requests) /\ issued \in Seq(Requests)
      /\ filling \o queue \in Seq(Requests) /\ Ends(filling \o queue, issued)
  <2>1. filling \in Seq(Requests) /\ queue \in Seq(Requests) /\ issued \in Seq(Requests)
    BY DEF TypeOK
  <2>2. filling \o queue \in Seq(Requests)
    BY <2>1
  <2>3. ArrivalOrder
    BY DEF OrderInv
  <2>4. Ends(filling \o queue, issued)
    BY <2>1, <2>3, OrderAsEnds DEF ArrivalOrder
  <2> QED  BY <2>1, <2>2, <2>4
<1>v. /\ filling' \in Seq(Requests) /\ queue' \in Seq(Requests) /\ issued' \in Seq(Requests)
      /\ filling' \o queue' \in Seq(Requests)
      /\ Ends(filling' \o queue', issued') => ArrivalOrder'
  <2>1. filling' \in Seq(Requests) /\ queue' \in Seq(Requests) /\ issued' \in Seq(Requests)
    BY <1>t DEF TypeOK
  <2>2. filling' \o queue' \in Seq(Requests)
    BY <2>1
  <2>3. Ends(filling' \o queue', issued') => ArrivalOrder'
    BY <2>1, OrderAsEnds DEF ArrivalOrder
  <2> QED  BY <2>1, <2>2, <2>3
<1>1. ASSUME UNCHANGED <<queue, issued, batcher, filling, clearing>>
      PROVE  OrderInv'
  BY <1>1 DEF OrderInv, ArrivalOrder
<1>2. ASSUME NEW r \in Requests, QueueRequest(r)
      PROVE  OrderInv'
  <2>1. CASE Full
    BY <1>1, <1>2, <2>1 DEF QueueRequest, Suspend
  <2>2. CASE ~Full
    <3>1. /\ queue' = Append(queue, r) /\ issued' = Append(issued, r) /\ filling' = filling
          /\ clearing' = clearing
          /\ batcher' = IF batcher = "none" THEN "scheduled" ELSE batcher
      BY <1>2, <2>2 DEF QueueRequest, Enqueue
    <3>2. filling' \o queue' = Append(filling \o queue, r)
      BY <1>u, <3>1
    <3>3. ArrivalOrder'
      BY <1>u, <1>v, <3>1, <3>2, EndsAppend
    <3> QED  BY <3>1, <3>3 DEF OrderInv
  <2> QED  BY <2>1, <2>2
<1>3. ASSUME NEW r \in Requests, Predict(r) \/ ResumePut(r)
      PROVE  OrderInv'
  BY <1>2, <1>3 DEF Predict, ResumePut
<1>4. ASSUME NEW r \in Requests, WaitResponse(r) \/ Cancel(r)
      PROVE  OrderInv'
  BY <1>1, <1>4 DEF WaitResponse, Cancel
<1>5. CASE RunBatcher
  <2>1. Fill(filling, queue, {}) /\ ~clearing /\ issued' = issued
    BY <1>5 DEF RunBatcher
  <2>2. /\ Ends(filling' \o queue', filling \o queue)
        /\ batcher' # "filling" => filling' = <<>>
        /\ clearing' => batcher' # "filling"
    BY <1>u, <2>1, FillEnds
  <2>3. ArrivalOrder'
    BY <1>u, <1>v, <2>1, <2>2, EndsOfEnds
  <2> QED  BY <2>2, <2>3 DEF OrderInv
<1>6. CASE BatchTimeout
  <2>0. batcher = "filling" /\ ~clearing /\ issued' = issued
    BY <1>6 DEF BatchTimeout, OrderInv
  <2>1. Ends(queue, filling \o queue)
    BY <1>u DEF Ends
  <2>2. /\ Ends(filling' \o queue', queue)
        /\ batcher' # "filling" => filling' = <<>>
        /\ clearing' => batcher' # "filling"
    <3>1. CASE Mergeable(filling)
      <4>1. Fill(<<>>, queue, {Batch(filling)}) /\ <<>> \o queue = queue
        BY <1>6, <1>u, <3>1 DEF BatchTimeout
      <4> QED  BY <1>u, <2>0, <4>1, EmptyRow, FillEnds
    <3>2. CASE ~Mergeable(filling)
      <4>1. filling' = <<>> /\ queue' = queue /\ batcher' = "none"
        BY <1>6, <3>2 DEF BatchTimeout, FailBatcher
      <4> QED  BY <1>u, <4>1 DEF Ends
    <3> QED  BY <3>1, <3>2
  <2>3. ArrivalOrder'
    <3>2. Ends(queue, issued)
      BY <1>u, <2>1, EndsOfEnds
    <3> QED  BY <1>u, <1>v, <2>0, <2>2, <3>2, EndsOfEnds
  <2> QED  BY <2>2, <2>3 DEF OrderInv
<1>7. CASE ClearQueue
  <2>1. /\ queue' \in {<<>>, queue} /\ filling = <<>> /\ filling' = filling
        /\ issued' = issued /\ batcher' = batcher /\ clearing' = FALSE
    BY <1>7 DEF ClearQueue, OrderInv
  <2>2. CASE queue' = queue
    BY <2>1, <2>2 DEF OrderInv, ArrivalOrder
  <2>3. CASE queue' = <<>>
    <3>1. Ends(filling' \o queue', issued')
      BY <1>u, <2>1, <2>3 DEF Ends
    <3> QED  BY <1>v, <2>1, <3>1 DEF OrderInv
  <2> QED  BY <2>1, <2>2, <2>3
<1>8. ASSUME NEW batch \in predicting, NEW outcome \in ModelOutcomes,
             FinishPredict(batch, outcome)
      PROVE  OrderInv'
  BY <1>1, <1>8 DEF FinishPredict
<1>9. CASE UNCHANGED vars
  BY <1>1, <1>9 DEF vars
<1>10. ASSUME NEW batch \in predicting, PredictCallback(batch)
       PROVE  OrderInv'
  BY <1>1, <1>10 DEF PredictCallback
<1> QED  BY <1>3, <1>4, <1>5, <1>6, <1>7, <1>8, <1>9, <1>10 DEF Next

(* Requests are batched in the order they came, none overtaken, repeated or *)
(* skipped, whatever fails and whoever goes away (_batch_requests,          *)
(* _clear_queue).                                                           *)
THEOREM RequestsKeepOrder == Spec => []ArrivalOrder
<1>1. Init => OrderInv
  BY EmptyRow DEF Init, OrderInv, ArrivalOrder
<1>2. OrderInv => ArrivalOrder
  BY DEF OrderInv
<1> QED  BY <1>1, <1>2, OrderStep, Typing, PTL DEF Spec

-----------------------------------------------------------------------------
(* The promise of BatchService.                                             *)

(* What the promise of BatchService takes for granted. *)
Faultless ==
  /\ Unmergeable = {} /\ Headless = {} /\ Cancellable = {}
  /\ "no_outputs" \notin ModelOutcomes

(* Suspended calls are in the queue of putters once. *)
PuttersBlocked ==
  /\ Distinct(putters)
  /\ \A i \in 1..Len(putters) : client[putters[i]] = "blocked"

(* Each request that is waited for is in one place at a time, and there it   *)
(* is pending.                                                              *)
PlacesApart ==
  /\ Distinct(filling \o queue)
  /\ Range(filling \o queue) \cap InFlight = {}
  /\ \A a, b \in predicting : a # b => Range(a.ids) \cap Range(b.ids) = {}
PlacesPending ==
  \A r \in Range(filling \o queue) \cup InFlight : client[r] = "waiting" /\ future[r] = "pending"

(* No batch is empty or too large. *)
BatchesFit ==
  /\ batcher = "filling" => filling # <<>>
  /\ \A b \in predicting : b.ids # <<>> /\ Len(b.ids) =< MaxBatchSize

(* Nothing is ever cleared, and the queue has a task to take it. *)
TaskThere ==
  /\ ~clearing
  /\ queue # <<>> => batcher # "none"
  /\ batcher # "filling" => filling = <<>>

PendingPlaced == \A r \in Requests : future[r] = "pending" => r \in Range(filling \o queue) \cup InFlight

ServeInv ==
  /\ PlacesApart
  /\ PlacesPending
  /\ BatchesFit
  /\ TaskThere
  /\ PendingPlaced

(* The calls woken for a place in the queue. *)
Woken == {r \in Requests : client[r] = "woken"}

WakeInv ==
  /\ PuttersBlocked
  /\ IsFiniteSet(Woken)
  /\ PuttersServed

-----------------------------------------------------------------------------
(* Waking suspended calls.                                                  *)

(* Each place that is freed wakes a call, unless none is left suspended      *)
(* (Queue.get_nowait).                                                      *)
LEMMA WakeCounts ==
  ASSUME TypeOK, PuttersBlocked, IsFiniteSet(Woken), NEW n \in Nat, WakePutters(n)
  PROVE  /\ PuttersBlocked'
         /\ IsFiniteSet(Woken')
         /\ putters' # <<>> => Cardinality(Woken') = Cardinality(Woken) + n
<1> DEFINE k == Minimum(n, Len(putters))
           first == {putters[i] : i \in 1..k}
<1>1. /\ putters \in Seq(Requests) /\ Len(putters) \in Nat
      /\ client \in [Requests -> {"idle", "blocked", "woken", "waiting"} \cup Answers]
  BY DEF TypeOK
<1>2. k \in 0..Len(putters) /\ (k < Len(putters) => k = n)
  BY <1>1 DEF Minimum
<1>3. /\ putters' = SubSeq(putters, k + 1, Len(putters))
      /\ client' = [r \in Requests |-> IF r \in first THEN "woken" ELSE client[r]]
  BY DEF WakePutters
<1>4. IsFiniteSet(first) /\ Cardinality(first) = k
  BY <1>1, <1>2, FirstOfRow DEF PuttersBlocked
<1>5. /\ \A i \in 1..Len(putters) : putters[i] \in Requests /\ client[putters[i]] = "blocked"
      /\ Distinct(putters)
  BY <1>1 DEF PuttersBlocked
<1>6. first \cap Woken = {} /\ Woken' = Woken \cup first
  <2>1. first \subseteq Requests /\ first \cap Woken = {}
    BY <1>1, <1>2, <1>5 DEF Woken
  <2>2. Woken' = {r \in Requests : client'[r] = "woken"}
    BY DEF Woken
  <2> HIDE DEF first, k
  <2> QED  BY <1>3, <2>1, <2>2 DEF Woken
<1>7. IsFiniteSet(Woken') /\ Cardinality(Woken') = Cardinality(Woken) + k
  <2>1. IsFiniteSet(Woken \cup first)
    BY <1>4, FS_Union
  <2>2. Cardinality(Woken \cup first) = Cardinality(Woken) + Cardinality(first) - Cardinality(Woken \cap first)
    BY <1>4, FS_Union
  <2>3. Cardinality(Woken \cap first) = 0
    BY <1>6, FS_EmptySet
  <2>4. Cardinality(Woken) \in Nat /\ k \in Nat
    BY <1>2, FS_CardinalityType
  <2> HIDE DEF first, k
  <2> QED  BY <1>4, <1>6, <2>1, <2>2, <2>3, <2>4
<1>8. Len(putters') = Len(putters) - k /\ \A i \in 1..Len(putters') : putters'[i] = putters[k + i]
  BY <1>1, <1>2, <1>3
<1>9. PuttersBlocked'
  <2>1. \A i \in 1..Len(putters') : k + i \in 1..Len(putters) /\ putters'[i] \notin first
    <3> HIDE DEF k
    <3>1. \A i \in 1..Len(putters') : k + i \in 1..Len(putters) /\ k + i > k
      BY <1>1, <1>2, <1>8
    <3>2. \A i \in 1..Len(putters'), j \in 1..k : putters[j] # putters[k + i]
      BY <1>1, <1>2, <1>5, <3>1 DEF Distinct
    <3> QED  BY <1>8, <3>1, <3>2
  <2>2. \A i \in 1..Len(putters') : client'[putters'[i]] = "blocked"
    BY <1>1, <1>3, <1>5, <1>8, <2>1
  <2>3. Distinct(putters')
    <3>0. k \in Nat /\ \A i \in 1..Len(putters') : i \in Int
      BY <1>1, <1>2
    <3> HIDE DEF k, first
    <3>1. ASSUME NEW i \in 1..Len(putters'), NEW j \in 1..Len(putters'), i # j
          PROVE  putters'[i] # putters'[j]
      <4>1. k + i # k + j
        BY <3>0, <3>1
      <4>2. putters[k + i] # putters[k + j]
        BY <1>5, <2>1, <4>1 DEF Distinct
      <4> QED  BY <1>8, <4>2
    <3> QED  BY <3>1 DEF Distinct
  <2> QED  BY <2>2, <2>3 DEF PuttersBlocked, Distinct
<1>10. putters' # <<>> => k = n
  BY <1>1, <1>2, <1>3
<1> QED  BY <1>7, <1>9, <1>10

(* However a step of the batching task ends, as many calls are woken as      *)
(* items are taken.                                                         *)
LEMMA WakeTaken ==
  ASSUME TypeOK, WakeInv, TypeOK', Len(queue') =< Len(queue),
         WakePutters(Len(queue) - Len(queue'))
  PROVE  WakeInv'
<1>1. Len(queue) \in Nat /\ Len(queue') \in Nat
  BY DEF TypeOK
<1>2. Len(queue) - Len(queue') \in Nat
  BY <1>1
<1>3. putters # <<>> \/ putters' = <<>>
  <2>1. CASE putters = <<>>
    <3>1. Minimum(Len(queue) - Len(queue'), 0) = 0
      BY <1>2 DEF Minimum
    <3>2. putters' = SubSeq(<<>>, 1, 0)
      BY <2>1, <3>1 DEF WakePutters
    <3> QED  BY <3>2
  <2> QED  BY <2>1
<1>4. /\ PuttersBlocked' /\ IsFiniteSet(Woken')
      /\ putters' # <<>> => Cardinality(Woken') = Cardinality(Woken) + (Len(queue) - Len(queue'))
  BY <1>2, WakeCounts DEF WakeInv
<1>5. PuttersServed'
  <2>1. CASE putters' # <<>>
    <3>1. Len(queue) + Cardinality(Woken) >= MaxBatchSize
      BY <1>3, <2>1 DEF WakeInv, PuttersServed, Woken
    <3>2. Cardinality(Woken) \in Nat
      BY FS_CardinalityType DEF WakeInv
    <3>3. Len(queue') + Cardinality(Woken') >= MaxBatchSize
      BY <1>1, <1>4, <2>1, <3>1, <3>2, Sizes
    <3> QED  BY <3>3 DEF PuttersServed, Woken
  <2> QED  BY <2>1 DEF PuttersServed
<1> QED  BY <1>4, <1>5 DEF WakeInv

(* A call that joins the queue, or the row of putters, loses no wake-up      *)
(* (_queue_request).                                                        *)
LEMMA WakeQueueRequest ==
  ASSUME TypeOK, WakeInv, NEW r \in Requests, client[r] \in {"idle", "woken"}, QueueRequest(r)
  PROVE  WakeInv'
<1>1. /\ putters \in Seq(Requests) /\ queue \in Seq(Requests) /\ Len(queue) \in Nat
      /\ client \in [Requests -> {"idle", "blocked", "woken", "waiting"} \cup Answers]
  BY DEF TypeOK
<1>2. /\ Distinct(putters) /\ \A i \in 1..Len(putters) : client[putters[i]] = "blocked" /\ putters[i] # r
      /\ IsFiniteSet(Woken) /\ Cardinality(Woken) \in Nat
  BY FS_CardinalityType DEF WakeInv, PuttersBlocked
<1>3. Woken' = {s \in Requests : client'[s] = "woken"}
  BY DEF Woken
<1>4. ASSUME NEW c \in {"blocked", "waiting"}, client' = [client EXCEPT ![r] = c]
      PROVE  /\ Woken' = Woken \ {r}
             /\ IsFiniteSet(Woken')
             /\ Cardinality(Woken') \in Nat /\ Cardinality(Woken') + 1 >= Cardinality(Woken)
  <2>1. Woken' = Woken \ {r}
    BY <1>1, <1>3, <1>4 DEF Woken
  <2>2. IsFiniteSet(Woken \ {r})
        /\ Cardinality(Woken \ {r}) = IF r \in Woken THEN Cardinality(Woken) - 1 ELSE Cardinality(Woken)
    BY <1>2, FS_RemoveElement
  <2>3. Cardinality(Woken \ {r}) \in Nat
    BY <2>2, FS_CardinalityType
  <2>4. Cardinality(Woken \ {r}) + 1 >= Cardinality(Woken)
    BY <1>2, <2>2
  <2> QED  BY <2>1, <2>2, <2>3, <2>4
<1>5. CASE Full
  <2>1. /\ putters' = Append(putters, r) /\ client' = [client EXCEPT ![r] = "blocked"]
        /\ queue' = queue /\ Len(queue) >= MaxBatchSize
    BY <1>5 DEF QueueRequest, Suspend, Full
  <2>2. /\ Len(putters') = Len(putters) + 1 /\ putters'[Len(putters) + 1] = r
        /\ \A i \in 1..Len(putters) : putters'[i] = putters[i]
    BY <1>1, <2>1
  <2>3. PuttersBlocked'
    <3>1. Distinct(putters')
      BY <1>1, <1>2, <2>2 DEF Distinct
    <3>2. \A i \in 1..Len(putters') : client'[putters'[i]] = "blocked"
      BY <1>1, <1>2, <2>1, <2>2
    <3> QED  BY <3>1, <3>2 DEF PuttersBlocked, Distinct
  <2>4. Len(queue') + Cardinality(Woken') >= MaxBatchSize
    BY <1>1, <1>4, <2>1, Sizes
  <2> QED  BY <1>4, <2>1, <2>3, <2>4 DEF WakeInv, PuttersServed, Woken
<1>6. CASE ~Full
  <2>1. /\ putters' = putters /\ client' = [client EXCEPT ![r] = "waiting"]
        /\ queue' = Append(queue, r)
    BY <1>6 DEF QueueRequest, Enqueue
  <2>2. Len(queue') = Len(queue) + 1
    BY <1>1, <2>1
  <2>3. PuttersBlocked'
    BY <1>1, <1>2, <2>1 DEF PuttersBlocked, Distinct
  <2>4. putters # <<>> => Len(queue) + Cardinality(Woken) >= MaxBatchSize
    BY DEF WakeInv, PuttersServed, Woken
  <2>5. putters' # <<>> => Len(queue') + Cardinality(Woken') >= MaxBatchSize
    <3>1. Cardinality(Woken') \in Nat /\ Cardinality(Woken') + 1 >= Cardinality(Woken)
      BY <1>4, <2>1
    <3> QED  BY <1>1, <1>2, <2>1, <2>2, <2>4, <3>1, Sizes
  <2> QED  BY <1>4, <2>1, <2>3, <2>5 DEF WakeInv, PuttersServed, Woken
<1> QED  BY <1>5, <1>6

(* A client that goes away passes on the wake-up it had (asyncio's put).      *)
LEMMA WakeCancelPut ==
  ASSUME TypeOK, WakeInv, NEW r \in Requests, CancelPut(r), queue' = queue
  PROVE  WakeInv'
<1>1. /\ putters \in Seq(Requests) /\ queue \in Seq(Requests) /\ Len(queue) \in Nat
      /\ client \in [Requests -> {"idle", "blocked", "woken", "waiting"} \cup Answers]
  BY DEF TypeOK
<1>2. /\ Distinct(putters) /\ \A i \in 1..Len(putters) : client[putters[i]] = "blocked"
      /\ IsFiniteSet(Woken) /\ Cardinality(Woken) \in Nat
  BY FS_CardinalityType DEF WakeInv, PuttersBlocked
<1>3. Woken' = {s \in Requests : client'[s] = "woken"}
  BY DEF Woken
<1>4. putters # <<>> => Len(queue) + Cardinality(Woken) >= MaxBatchSize
  BY DEF WakeInv, PuttersServed, Woken
<1> DEFINE freed == IF client[r] = "woken" /\ ~Full /\ putters # <<>> THEN {Head(putters)} ELSE {}
<1>5. /\ client[r] \in {"blocked", "woken"}
      /\ client' = [s \in Requests |-> IF s = r THEN "cancelled"
                                       ELSE IF s \in freed THEN "woken" ELSE client[s]]
      /\ putters' = IF freed = {} THEN Without(putters, r) ELSE Tail(putters)
  BY DEF CancelPut
<1>6. CASE client[r] = "woken" /\ ~Full /\ putters # <<>>
  <2> DEFINE h == Head(putters)
  <2>1. /\ h = putters[1] /\ 1 \in 1..Len(putters) /\ h \in Requests
        /\ Len(putters') = Len(putters) - 1 /\ \A i \in 1..Len(putters') : putters'[i] = putters[i + 1]
    <3>1. putters # <<>> /\ putters' = Tail(putters)
      BY <1>5, <1>6
    <3>2. Len(putters) \in Nat /\ Len(putters) >= 1
      BY <1>1, <3>1
    <3>3. h = putters[1] /\ h \in Requests
      BY <1>1, <3>1
    <3>4. Len(putters') = Len(putters) - 1
      BY <1>1, <3>1
    <3>5. \A i \in 1..Len(putters') : putters'[i] = putters[i + 1]
      BY <1>1, <3>1
    <3> QED  BY <3>2, <3>3, <3>4, <3>5
  <2>2. client[h] = "blocked" /\ h # r /\ h \notin Woken /\ r \in Woken
    BY <1>2, <1>6, <2>1 DEF Woken
  <2>3. client' = [s \in Requests |-> IF s = r THEN "cancelled" ELSE IF s = h THEN "woken" ELSE client[s]]
    BY <1>5, <1>6
  <2> HIDE DEF h
  <2>4. Woken' = (Woken \ {r}) \cup {h}
    BY <1>1, <1>3, <2>1, <2>2, <2>3 DEF Woken
  <2>5. IsFiniteSet(Woken \ {r}) /\ Cardinality(Woken \ {r}) = Cardinality(Woken) - 1
    BY <1>2, <2>2, FS_RemoveElement
  <2>6. IsFiniteSet(Woken') /\ Cardinality(Woken') = Cardinality(Woken)
    <3>1. h \notin Woken \ {r}
      BY <2>2
    <3>2. Cardinality(Woken') = (Cardinality(Woken) - 1) + 1 /\ IsFiniteSet(Woken')
      BY <2>4, <2>5, <3>1, FS_AddElement
    <3> QED  BY <1>2, <3>2
  <2>7. PuttersBlocked'
    <3>1. \A i \in 1..Len(putters') : i + 1 \in 1..Len(putters) /\ putters[i + 1] # h
      BY <1>1, <1>2, <2>1 DEF Distinct
    <3>2. ASSUME NEW i \in 1..Len(putters')
          PROVE  client'[putters'[i]] = "blocked"
      <4>1. PICK s : s = putters[i + 1]
        OBVIOUS
      <4>2. s \in Requests /\ client[s] = "blocked" /\ s # h
        BY <1>1, <1>2, <3>1, <4>1
      <4>3. s # r
        BY <1>6, <4>2
      <4>4. client'[s] = client[s]
        BY <2>3, <4>2, <4>3
      <4>5. putters'[i] = s
        BY <2>1, <4>1
      <4> QED  BY <4>2, <4>4, <4>5
    <3>3. Distinct(putters')
      BY <1>1, <1>2, <2>1, <3>1 DEF Distinct
    <3> QED  BY <3>2, <3>3 DEF PuttersBlocked, Distinct
  <2>8. Len(queue') + Cardinality(Woken') >= MaxBatchSize
    BY <1>4, <1>6, <2>6
  <2> QED  BY <2>6, <2>7, <2>8 DEF WakeInv, PuttersServed, Woken
<1>7. CASE ~(client[r] = "woken" /\ ~Full /\ putters # <<>>)
  <2>1. /\ client' = [s \in Requests |-> IF s = r THEN "cancelled" ELSE client[s]]
        /\ putters' = Without(putters, r)
    BY <1>5, <1>7
  <2>2. Woken' = Woken \ {r}
    BY <1>1, <1>3, <2>1 DEF Woken
  <2>3. IsFiniteSet(Woken') /\ Cardinality(Woken') \in Nat
    BY <1>2, <2>2, FS_RemoveElement, FS_CardinalityType
  <2>4. PuttersBlocked'
    <3>1. Distinct(putters')
      BY <1>1, <1>2, <2>1, WithoutDistinct
    <3>2. \A i \in 1..Len(putters') : \E j \in 1..Len(putters) : putters'[i] = putters[j] /\ putters[j] # r
      BY <1>1, <1>2, <2>1, WithoutDistinct
    <3>3. \A i \in 1..Len(putters') : client'[putters'[i]] = "blocked"
      BY <1>1, <1>2, <2>1, <3>2
    <3> QED  BY <3>1, <3>3 DEF PuttersBlocked, Distinct
  <2>5. putters' # <<>> => Len(queue') + Cardinality(Woken') >= MaxBatchSize
    <3>1. CASE client[r] = "blocked"
      <4>1. Woken' = Woken
        BY <2>2, <3>1 DEF Woken
      <4>2. putters = <<>> => putters' = <<>>
        BY <2>1 DEF Without, Range
      <4> QED  BY <1>4, <4>1, <4>2
    <3>2. CASE Full
      BY <1>1, <2>3, <3>2, Sizes DEF Full
    <3>3. CASE putters = <<>>
      BY <2>1, <3>3 DEF Without, Range
    <3> QED  BY <1>5, <1>7, <3>1, <3>2, <3>3
  <2> QED  BY <2>3, <2>4, <2>5 DEF WakeInv, PuttersServed, Woken
<1> QED  BY <1>6, <1>7

(* Every step of the module keeps the count of wake-ups. *)
LEMMA WakeStep == TypeOK /\ WakeInv /\ [Next]_vars => WakeInv'
<1> SUFFICES ASSUME TypeOK, WakeInv, [Next]_vars  PROVE WakeInv'
  OBVIOUS
<1>t. TypeOK'
  BY TypeStep
<1>u. /\ queue \in Seq(Requests) /\ filling \in Seq(Requests)
      /\ Len(filling) < MaxBatchSize /\ Len(queue) =< MaxBatchSize
      /\ <<>> \in Seq(Requests) /\ Len(<<>>) < MaxBatchSize
  BY EmptyRow, Sizes DEF TypeOK
<1>1. ASSUME UNCHANGED <<client, queue, putters>>
      PROVE  WakeInv'
  BY <1>1 DEF WakeInv, PuttersBlocked, Distinct, PuttersServed, Woken
<1>2. ASSUME NEW r \in Requests, Predict(r) \/ ResumePut(r)
      PROVE  WakeInv'
  BY <1>2, WakeQueueRequest DEF Predict, ResumePut
<1>3. ASSUME NEW r \in Requests, WaitResponse(r)
      PROVE  WakeInv'
  <2>1. /\ client[r] = "waiting" /\ future[r] \in Answers
        /\ client' = [client EXCEPT ![r] = future[r]] /\ queue' = queue /\ putters' = putters
    BY <1>3 DEF WaitResponse
  <2>2. client \in [Requests -> {"idle", "blocked", "woken", "waiting"} \cup Answers]
    BY DEF TypeOK
  <2>3. Woken' = Woken
    <3>1. Woken' = {s \in Requests : client'[s] = "woken"}
      BY DEF Woken
    <3> QED  BY <2>1, <2>2, <3>1 DEF Woken, Answers
  <2>4. PuttersBlocked'
    BY <2>1, <2>2 DEF WakeInv, PuttersBlocked, Distinct, TypeOK
  <2> QED  BY <2>1, <2>3, <2>4 DEF WakeInv, PuttersServed, Woken
<1>4. ASSUME NEW r \in Requests, Cancel(r)
      PROVE  WakeInv'
  <2>1. CASE CancelPut(r)
    BY <1>4, <2>1, WakeCancelPut DEF Cancel
  <2>2. CASE CancelWait(r)
    BY <1>1, <1>4, <2>2 DEF Cancel, CancelWait
  <2> QED  BY <1>4, <2>1, <2>2 DEF Cancel
<1>5. CASE RunBatcher
  <2>1. Fill(filling, queue, {}) /\ WakePutters(Len(queue) - Len(queue'))
    BY <1>5 DEF RunBatcher
  <2>2. Len(queue') =< Len(queue)
    BY <1>u, <2>1, FillTyping
  <2> QED  BY <1>t, <2>1, <2>2, WakeTaken
<1>6. CASE BatchTimeout
  <2>1. WakePutters(Len(queue) - Len(queue'))
    BY <1>6 DEF BatchTimeout
  <2>2. Len(queue') =< Len(queue)
    <3>1. CASE Mergeable(filling)
      <4>1. {Batch(filling)} \in SUBSET Batches
        BY <1>u DEF Batch, Batches
      <4>2. Fill(<<>>, queue, {Batch(filling)})
        BY <1>6, <3>1 DEF BatchTimeout
      <4> QED  BY <1>u, <4>1, <4>2, FillTyping
    <3>2. CASE ~Mergeable(filling)
      BY <1>6, <1>u, <3>2 DEF BatchTimeout, FailBatcher
    <3> QED  BY <3>1, <3>2
  <2> QED  BY <1>t, <2>1, <2>2, WakeTaken
<1>7. CASE ClearQueue
  <2>1. WakePutters(Len(queue) - Len(queue')) /\ queue' \in {<<>>, queue}
    BY <1>7 DEF ClearQueue
  <2>2. Len(queue') =< Len(queue)
    BY <1>u, <2>1, EmptyRow
  <2> QED  BY <1>t, <2>1, <2>2, WakeTaken
<1>8. ASSUME NEW batch \in predicting, NEW outcome \in ModelOutcomes, FinishPredict(batch, outcome)
      PROVE  WakeInv'
  BY <1>1, <1>8 DEF FinishPredict
<1>9. ASSUME NEW batch \in predicting, PredictCallback(batch)
      PROVE  WakeInv'
  BY <1>1, <1>9 DEF PredictCallback
<1>10. CASE UNCHANGED vars
  BY <1>1, <1>10 DEF vars
<1> QED  BY <1>2, <1>3, <1>4, <1>5, <1>6, <1>7, <1>8, <1>9, <1>10 DEF Next

(* The wake-up count holds throughout; it starts with nobody suspended.      *)
LEMMA Waking == Spec => []WakeInv
<1>1. Init => WakeInv
  <2> SUFFICES ASSUME Init PROVE WakeInv
    OBVIOUS
  <2>1. Woken = {} /\ putters = <<>>
    BY DEF Init, Woken
  <2>2. IsFiniteSet(Woken)
    BY <2>1, FS_EmptySet
  <2>3. PuttersBlocked
    BY <2>1, EmptyRow DEF PuttersBlocked, Distinct
  <2> QED  BY <2>1, <2>2, <2>3 DEF WakeInv, PuttersServed
<1> QED  BY <1>1, WakeStep, Typing, PTL DEF Spec

(* No wake-up of Queue.put is lost: whatever fails and whoever goes away,    *)
(* while calls are suspended each free place of the queue has a woken call   *)
(* on its way to it (AdaptiveBatcher._queue_request, asyncio.Queue).        *)
THEOREM PuttersAreServed == Spec => []PuttersServed
<1>1. WakeInv => PuttersServed
  BY DEF WakeInv
<1> QED  BY <1>1, Waking, PTL

-----------------------------------------------------------------------------
(* Placing each request that is waited for.                                 *)

(* The requests of some batches. *)
IdsOf(batches) == UNION {Range(batch.ids) : batch \in batches}

(* Batches that can be handed to the model together. *)
Sound(batches) ==
  /\ batches \subseteq Batches
  /\ \A b \in batches : b.ids # <<>> /\ Len(b.ids) =< MaxBatchSize
  /\ \A a, b \in batches : a # b => Range(a.ids) \cap Range(b.ids) = {}

(* With requests that merge the batching task reads the queue to its end,   *)
(* and each request it had is then in to_batch or with the model.            *)
LEMMA FillMoves ==
  ASSUME Unmergeable = {},
         NEW held \in Seq(Requests), NEW unread \in Seq(Requests), NEW yielded,
         Fill(held, unread, yielded)
  PROVE  /\ queue' = <<>> /\ clearing' = clearing
         /\ filling' \in Seq(Requests)
         /\ batcher' = IF filling' = <<>> THEN "none" ELSE "filling"
         /\ Distinct(held \o unread) =>
              /\ Distinct(filling')
              /\ \E given \in SUBSET Batches :
                   /\ Sound(given)
                   /\ predicting' = predicting \cup yielded \cup given
                   /\ Range(filling') \cap IdsOf(given) = {}
                   /\ Range(filling') \cup IdsOf(given) = Range(held \o unread)
<1> DEFINE items == held \o unread
           batch == SubSeq(items, 1, MaxBatchSize)
           rest == SubSeq(items, MaxBatchSize + 1, Len(items))
<1>1. items \in Seq(Requests) /\ Len(items) \in Nat
  OBVIOUS
<1>2. CASE Len(items) < MaxBatchSize
  <2>1. /\ batcher' = IF items = <<>> THEN "none" ELSE "filling"
        /\ filling' = items /\ queue' = <<>> /\ clearing' = clearing
        /\ predicting' = predicting \cup yielded
    BY <1>2 DEF Fill
  <2> HIDE DEF items
  <2>2. Sound({}) /\ IdsOf({}) = {} /\ {} \in SUBSET Batches
    BY DEF Sound, IdsOf
  <2> QED  BY <1>1, <2>1, <2>2 DEF items
<1>3. CASE ~(Len(items) < MaxBatchSize)
  <2>1. Mergeable(batch)
    BY DEF Mergeable
  <2>2. /\ batcher' = IF rest = <<>> THEN "none" ELSE "filling"
        /\ filling' = rest /\ queue' = <<>> /\ clearing' = clearing
        /\ predicting' = predicting \cup yielded \cup {Batch(batch)}
    BY <1>3, <2>1 DEF Fill
  <2> HIDE DEF items
  <2>3. MaxBatchSize \in 1..Len(items)
    BY <1>1, <1>3, Sizes
  <2>4. batch \in Seq(Requests) /\ Len(batch) = MaxBatchSize /\ rest \in Seq(Requests)
    BY <1>1, <2>3
  <2> HIDE DEF batch
  <2>5. Batch(batch) \in Batches /\ Batch(batch).ids = batch
    BY <2>4 DEF Batch, Batches
  <2>6. batch # <<>>
    BY <2>4, Sizes, EmptyRow
  <2>7. Sound({Batch(batch)})
    BY <2>4, <2>5, <2>6, Sizes DEF Sound
  <2>8. IdsOf({Batch(batch)}) = Range(batch)
    BY <2>5 DEF IdsOf
  <2>9. ASSUME Distinct(items)
        PROVE  /\ Distinct(rest)
               /\ Range(batch) \cup Range(rest) = Range(items)
               /\ Range(batch) \cap Range(rest) = {}
    BY <1>1, <2>3, <2>9, CutBatch DEF batch
  <2> HIDE DEF rest
  <2>10. {Batch(batch)} \in SUBSET Batches
    BY <2>5
  <2> QED  BY <2>2, <2>4, <2>7, <2>8, <2>9, <2>10 DEF items
<1> QED  BY <1>2, <1>3

(* Only calls of predict() are placed anywhere. *)
LEMMA PlacedRequests ==
  ASSUME TypeOK
  PROVE  /\ Range(filling \o queue) \cup InFlight \subseteq Requests
         /\ Range(filling \o queue) = Range(filling) \cup Range(queue)
<1>1. filling \in Seq(Requests) /\ queue \in Seq(Requests)
  BY DEF TypeOK
<1>2. ASSUME NEW row \in Seq(Requests)
      PROVE  Range(row) \subseteq Requests
  BY DEF Range
<1>3. Range(filling \o queue) \subseteq Requests
  <2>1. filling \o queue \in Seq(Requests)
    BY <1>1
  <2> QED  BY <1>2, <2>1
<1>4. \A batch \in predicting : batch.ids \in Seq(Requests)
  BY DEF TypeOK, Batches
<1> QED  BY <1>1, <1>2, <1>3, <1>4, RangeOfBoth DEF InFlight

(* When the batching task has moved what it holds, each request is still in *)
(* one place.                                                               *)
LEMMA MovePlaces ==
  ASSUME TypeOK, ServeInv, NEW given \in SUBSET Batches, Sound(given),
         predicting' = predicting \cup given,
         queue' = <<>>, clearing' = clearing, future' = future,
         \A r \in Requests : client[r] = "waiting" => client'[r] = "waiting",
         filling' \in Seq(Requests),
         batcher' = (IF filling' = <<>> THEN "none" ELSE "filling"),
         Distinct(filling'),
         Range(filling') \cap IdsOf(given) = {},
         Range(filling') \cup IdsOf(given) = Range(filling \o queue)
  PROVE  ServeInv'
<1>1. filling' \o queue' = filling'
  BY ConcatEmptySeq
<1>2. InFlight' = InFlight \cup IdsOf(given)
  <2>1. InFlight' = UNION {Range(batch.ids) : batch \in predicting'}
    BY DEF InFlight
  <2> QED  BY <2>1 DEF InFlight, IdsOf
<1>3. Range(filling \o queue) \cap InFlight = {}
  BY DEF ServeInv, PlacesApart
<1>4. Range(filling' \o queue') \cup InFlight' = Range(filling \o queue) \cup InFlight
  BY <1>1, <1>2
<1>5. PlacesApart'
  <2>1. Range(filling' \o queue') \cap InFlight' = {}
    BY <1>1, <1>2, <1>3
  <2>2. ASSUME NEW a \in predicting', NEW b \in predicting', a # b
        PROVE  Range(a.ids) \cap Range(b.ids) = {}
    <3>1. CASE a \in predicting /\ b \in predicting
      BY <2>2, <3>1 DEF ServeInv, PlacesApart
    <3>2. CASE a \in given /\ b \in given
      BY <2>2, <3>2 DEF Sound
    <3>3. \A x \in predicting, y \in given : Range(x.ids) \cap Range(y.ids) = {}
      <4>1. IdsOf(given) \cap InFlight = {}
        BY <1>3
      <4>2. \A x \in predicting : Range(x.ids) \subseteq InFlight
        BY DEF InFlight
      <4>3. \A y \in given : Range(y.ids) \subseteq IdsOf(given)
        BY DEF IdsOf
      <4> QED  BY <4>1, <4>2, <4>3
    <3>4. (a \in predicting \/ a \in given) /\ (b \in predicting \/ b \in given)
      BY <2>2
    <3>5. CASE a \in predicting /\ b \in given
      BY <3>3, <3>5
    <3>6. CASE a \in given /\ b \in predicting
      BY <3>3, <3>6
    <3> QED  BY <3>1, <3>2, <3>4, <3>5, <3>6
  <2>3. Distinct(filling' \o queue')
    BY <1>1
  <2> QED  BY <2>1, <2>2, <2>3 DEF PlacesApart, Distinct
<1>6. PlacesPending'
  <2>1. Range(filling \o queue) \cup InFlight \subseteq Requests
    BY PlacedRequests
  <2> QED  BY <1>4, <2>1 DEF ServeInv, PlacesPending
<1>7. BatchesFit'
  BY DEF ServeInv, BatchesFit, Sound
<1>8. TaskThere'
  BY DEF ServeInv, TaskThere
<1>9. PendingPlaced'
  BY <1>4 DEF ServeInv, PendingPlaced
<1> QED  BY <1>5, <1>6, <1>7, <1>8, <1>9 DEF ServeInv

(* The callback of a batch reaches all of it, and gives all one answer, if   *)
(* everyone is still waiting (_predict_callback).                           *)
LEMMA CallbackResolves ==
  ASSUME Faultless, TypeOK, ServeInv, NEW batch \in predicting, PredictCallback(batch)
  PROVE  \E answer \in {"result", "exception"} :
           future' = [r \in Requests |-> IF r \in Range(batch.ids) THEN answer ELSE future[r]]
<1> DEFINE row == batch.ids
           all == Range(row)
<1>1. row \in Seq(Requests) /\ batch.outcome \in ModelOutcomes \cup {"running"}
  BY DEF TypeOK, Batches
<1>2. batch.outcome \in {"outputs", "error"}
  BY <1>1, OutcomeAssumption DEF PredictCallback, Faultless
<1>3. \A r \in all : r \in Requests /\ future[r] = "pending"
  <2>1. all \subseteq InFlight
    BY DEF InFlight
  <2> QED  BY <2>1, PlacedRequests DEF ServeInv, PlacesPending
<1>4. future \in [Requests -> {"absent", "pending"} \cup Answers]
  BY DEF TypeOK
<1>5. \A i \in 1..Len(row) : row[i] \in all
  BY <1>1 DEF Range
<1>6. Reached(row, all, future) = all
  <2>1. \A k \in 1..Len(row) : \A j \in 1..k : future[row[j]] = "pending"
    <3>1. \A k \in 1..Len(row) : \A j \in 1..k : j \in 1..Len(row)
      BY <1>1
    <3> HIDE DEF row, all
    <3> QED  BY <1>3, <1>5, <3>1
  <2>2. {k \in 1..Len(row) : /\ row[k] \in all
                             /\ \A j \in 1..k : row[j] \in all => future[row[j]] = "pending"} = 1..Len(row)
    <3> HIDE DEF row, all
    <3> QED  BY <1>5, <2>1
  <2>3. Reached(row, all, future) = {row[i] : i \in 1..Len(row)}
    <3> HIDE DEF row, all
    <3> QED  BY <2>2 DEF Reached
  <2>4. DOMAIN row = 1..Len(row)
    BY <1>1
  <2> QED  BY <2>3, <2>4 DEF Range
<1>7. CASE batch.outcome = "outputs"
  <2>1. Split(batch) = all
    BY <1>7 DEF Split, Faultless
  <2>2. future' = Resolve(future, row, all, "result")
    BY <1>6, <1>7, <2>1 DEF PredictCallback
  <2> QED  BY <1>6, <2>2 DEF Resolve
<1>8. CASE batch.outcome = "error"
  <2>1. Split(batch) = {}
    BY <1>8 DEF Split
  <2>2. Reached(row, {}, future) = {}
    BY DEF Reached
  <2>3. Resolve(future, row, {}, "result") = future
    BY <1>4, <2>2 DEF Resolve
  <2>4. future' = Resolve(future, row, all, "exception")
    BY <1>8, <2>1, <2>3 DEF PredictCallback
  <2> QED  BY <1>6, <2>4 DEF Resolve
<1> QED  BY <1>2, <1>7, <1>8

(* A call that joins the queue has a place of its own and a task to take it; *)
(* one that is suspended has none yet (_queue_request).                     *)
LEMMA ServeQueueRequest ==
  ASSUME TypeOK, ServeInv, NEW r \in Requests, client[r] \in {"idle", "woken"}, QueueRequest(r)
  PROVE  ServeInv'
<1>1. /\ filling \in Seq(Requests) /\ queue \in Seq(Requests) /\ filling \o queue \in Seq(Requests)
      /\ client \in [Requests -> {"idle", "blocked", "woken", "waiting"} \cup Answers]
      /\ future \in [Requests -> {"absent", "pending"} \cup Answers]
  BY DEF TypeOK
<1>2. r \notin Range(filling \o queue) \cup InFlight
  BY DEF ServeInv, PlacesPending
<1>3. /\ filling' = filling /\ predicting' = predicting /\ clearing' = clearing
      /\ InFlight' = InFlight
  BY DEF QueueRequest, InFlight
<1>p. Range(filling \o queue) \cup InFlight \subseteq Requests
  BY PlacedRequests
<1>4. CASE Full
  <2>1. /\ client' = [client EXCEPT ![r] = "blocked"]
        /\ queue' = queue /\ future' = future /\ batcher' = batcher
    BY <1>4 DEF QueueRequest, Suspend
  <2>2. filling' \o queue' = filling \o queue
    BY <1>3, <2>1
  <2>3. PlacesApart'
    BY <1>3, <2>2 DEF ServeInv, PlacesApart, Distinct
  <2>4. PlacesPending'
    BY <1>1, <1>2, <1>3, <1>p, <2>1, <2>2 DEF ServeInv, PlacesPending
  <2>5. BatchesFit' /\ TaskThere'
    BY <1>3, <2>1 DEF ServeInv, BatchesFit, TaskThere
  <2>6. PendingPlaced'
    BY <1>3, <2>1, <2>2 DEF ServeInv, PendingPlaced
  <2> QED  BY <2>3, <2>4, <2>5, <2>6 DEF ServeInv
<1>5. CASE ~Full
  <2>1. /\ client' = [client EXCEPT ![r] = "waiting"] /\ future' = [future EXCEPT ![r] = "pending"]
        /\ queue' = Append(queue, r)
        /\ batcher' = IF batcher = "none" THEN "scheduled" ELSE batcher
    BY <1>5 DEF QueueRequest, Enqueue
  <2>2. filling' \o queue' = Append(filling \o queue, r)
    BY <1>1, <1>3, <2>1
  <2>3. Distinct(filling \o queue)
    BY DEF ServeInv, PlacesApart
  <2>4. /\ Range(filling' \o queue') = Range(filling \o queue) \cup {r}
        /\ Distinct(filling' \o queue')
    <3> DEFINE row == filling \o queue
    <3>1. row \in Seq(Requests) /\ Distinct(row) /\ r \notin Range(row) /\ filling' \o queue' = Append(row, r)
      BY <1>1, <1>2, <2>2, <2>3
    <3> HIDE DEF row
    <3>2. Range(Append(row, r)) = Range(row) \cup {r} /\ Distinct(Append(row, r))
      BY <3>1, AppendDistinct
    <3> QED  BY <3>1, <3>2 DEF row
  <2>5. PlacesApart'
    <3>1. Range(filling \o queue) \cap InFlight = {}
      BY DEF ServeInv, PlacesApart
    <3>2. Range(filling' \o queue') \cap InFlight' = {}
      BY <1>2, <1>3, <2>4, <3>1
    <3>3. \A a, b \in predicting' : a # b => Range(a.ids) \cap Range(b.ids) = {}
      BY <1>3 DEF ServeInv, PlacesApart
    <3> QED  BY <2>4, <3>2, <3>3 DEF PlacesApart, Distinct
  <2>6. PlacesPending'
    BY <1>1, <1>3, <1>p, <2>1, <2>4 DEF ServeInv, PlacesPending
  <2>7. BatchesFit' /\ TaskThere'
    BY <1>3, <2>1 DEF ServeInv, BatchesFit, TaskThere
  <2>8. PendingPlaced'
    BY <1>1, <1>3, <2>1, <2>4 DEF ServeInv, PendingPlaced
  <2> QED  BY <2>5, <2>6, <2>7, <2>8 DEF ServeInv
<1> QED  BY <1>4, <1>5

(* Waking suspended calls leaves those that wait for an answer alone.        *)
LEMMA WaitersStay ==
  ASSUME TypeOK, PuttersBlocked, queue' = <<>>, WakePutters(Len(queue) - Len(queue'))
  PROVE  \A r \in Requests : client[r] = "waiting" => client'[r] = "waiting"
<1>1. putters \in Seq(Requests) /\ Len(putters) \in Nat /\ Len(queue) - Len(queue') \in Nat
  BY EmptyRow DEF TypeOK
<1>2. Minimum(Len(queue) - Len(queue'), Len(putters)) \in 0..Len(putters)
  BY <1>1 DEF Minimum
<1>3. \A i \in 1..Minimum(Len(queue) - Len(queue'), Len(putters)) : client[putters[i]] = "blocked"
  BY <1>1, <1>2 DEF PuttersBlocked
<1> QED  BY <1>3 DEF WakePutters

(* The batching task moves what it has, when it runs and when its timer      *)
(* fires.                                                                   *)
LEMMA ServeBatcher ==
  ASSUME Unmergeable = {}, TypeOK, PuttersBlocked, ServeInv, RunBatcher \/ BatchTimeout
  PROVE  ServeInv'
<1>1. /\ queue \in Seq(Requests) /\ filling \in Seq(Requests) /\ <<>> \in Seq(Requests)
      /\ Range(filling \o queue) = Range(filling) \cup Range(queue)
      /\ Distinct(filling \o queue)
  BY EmptyRow, PlacedRequests DEF TypeOK, ServeInv, PlacesApart
<1>2. CASE RunBatcher
  <2>1. /\ Fill(filling, queue, {}) /\ future' = future
        /\ WakePutters(Len(queue) - Len(queue'))
    BY <1>2 DEF RunBatcher
  <2>2. /\ queue' = <<>> /\ clearing' = clearing /\ filling' \in Seq(Requests)
        /\ batcher' = IF filling' = <<>> THEN "none" ELSE "filling"
        /\ Distinct(filling')
    BY <1>1, <2>1, FillMoves
  <2>3. PICK given \in SUBSET Batches :
          /\ Sound(given)
          /\ predicting' = predicting \cup {} \cup given
          /\ Range(filling') \cap IdsOf(given) = {}
          /\ Range(filling') \cup IdsOf(given) = Range(filling \o queue)
    BY <1>1, <2>1, FillMoves
  <2>4. predicting' = predicting \cup given
    BY <2>3
  <2>5. \A r \in Requests : client[r] = "waiting" => client'[r] = "waiting"
    BY <2>1, <2>2, WaitersStay
  <2> QED  BY <2>1, <2>2, <2>3, <2>4, <2>5, MovePlaces
<1>3. CASE BatchTimeout
  <2> DEFINE timed == {Batch(filling)}
  <2>1. /\ Fill(<<>>, queue, timed) /\ future' = future
        /\ WakePutters(Len(queue) - Len(queue'))
        /\ filling # <<>>
    BY <1>3 DEF BatchTimeout, Mergeable, ServeInv, BatchesFit
  <2>2. <<>> \o queue = queue /\ Distinct(queue) /\ Range(filling) \cap Range(queue) = {}
    BY <1>1, RangeOfBoth, ConcatEmptySeq
  <2>3. /\ queue' = <<>> /\ clearing' = clearing /\ filling' \in Seq(Requests)
        /\ batcher' = IF filling' = <<>> THEN "none" ELSE "filling"
        /\ Distinct(filling')
    BY <1>1, <2>1, <2>2, FillMoves
  <2>4. PICK given \in SUBSET Batches :
          /\ Sound(given)
          /\ predicting' = predicting \cup timed \cup given
          /\ Range(filling') \cap IdsOf(given) = {}
          /\ Range(filling') \cup IdsOf(given) = Range(queue)
    <3> DEFINE none == <<>>
    <3>1. none \in Seq(Requests) /\ Fill(none, queue, timed) /\ Distinct(none \o queue)
      BY <1>1, <2>1, <2>2
    <3> HIDE DEF timed, none
    <3>2. \E given \in SUBSET Batches :
            /\ Sound(given)
            /\ predicting' = predicting \cup timed \cup given
            /\ Range(filling') \cap IdsOf(given) = {}
            /\ Range(filling') \cup IdsOf(given) = Range(none \o queue)
      BY <1>1, <3>1, FillMoves
    <3>3. none \o queue = queue
      BY <2>2 DEF none
    <3> QED  BY <3>2, <3>3
  <2> DEFINE all == timed \cup given
  <2>5. IdsOf(timed) = Range(filling) /\ Batch(filling) \in Batches /\ Batch(filling).ids = filling
    BY <1>1 DEF IdsOf, Batch, Batches
  <2>6. Len(filling) =< MaxBatchSize
    BY Sizes DEF TypeOK
  <2>7. IdsOf(all) = Range(filling) \cup IdsOf(given)
    BY <2>5 DEF IdsOf
  <2>8. \A b \in given : Range(b.ids) \cap Range(filling) = {}
    <3>1. IdsOf(given) \cap Range(filling) = {}
      BY <2>2, <2>4
    <3> QED  BY <3>1 DEF IdsOf
  <2>9. Sound(all)
    BY <2>1, <2>4, <2>5, <2>6, <2>8 DEF Sound
  <2>10. /\ Range(filling') \cap IdsOf(all) = {}
         /\ Range(filling') \cup IdsOf(all) = Range(filling \o queue)
    BY <1>1, <2>2, <2>4, <2>7
  <2>11. predicting' = predicting \cup all /\ all \in SUBSET Batches
    BY <2>4, <2>5
  <2>12. \A r \in Requests : client[r] = "waiting" => client'[r] = "waiting"
    BY <2>1, <2>3, WaitersStay
  <2> HIDE DEF all
  <2> QED  BY <2>1, <2>3, <2>9, <2>10, <2>11, <2>12, MovePlaces
<1> QED  BY <1>2, <1>3

(* Every step of a batcher without faults keeps each request that is waited  *)
(* for in its place.                                                        *)
LEMMA ServeStep ==
  ASSUME Faultless
  PROVE  TypeOK /\ WakeInv /\ ServeInv /\ [Next]_vars => ServeInv'
<1> SUFFICES ASSUME TypeOK, WakeInv, ServeInv, [Next]_vars  PROVE ServeInv'
  OBVIOUS
<1>u. /\ client \in [Requests -> {"idle", "blocked", "woken", "waiting"} \cup Answers]
      /\ future \in [Requests -> {"absent", "pending"} \cup Answers]
      /\ Range(filling \o queue) \cup InFlight \subseteq Requests
  BY PlacedRequests DEF TypeOK
<1>v. ASSUME UNCHANGED <<filling, queue, predicting, batcher, clearing>>
      PROVE  /\ PlacesApart' /\ BatchesFit' /\ TaskThere'
             /\ filling' \o queue' = filling \o queue /\ InFlight' = InFlight
  <2>1. filling' \o queue' = filling \o queue /\ InFlight' = InFlight
    BY <1>v DEF InFlight
  <2> QED  BY <1>v, <2>1 DEF ServeInv, PlacesApart, BatchesFit, TaskThere, Distinct
<1>1. ASSUME NEW r \in Requests, Predict(r) \/ ResumePut(r)
      PROVE  ServeInv'
  BY <1>1, ServeQueueRequest DEF Predict, ResumePut
<1>2. ASSUME NEW r \in Requests, WaitResponse(r)
      PROVE  ServeInv'
  <2>1. /\ future[r] \in Answers
        /\ client' = [client EXCEPT ![r] = future[r]] /\ future' = [future EXCEPT ![r] = "absent"]
        /\ UNCHANGED <<filling, queue, predicting, batcher, clearing>>
    BY <1>2 DEF WaitResponse
  <2>2. r \notin Range(filling \o queue) \cup InFlight
    BY <2>1 DEF ServeInv, PlacesPending, Answers
  <2>3. /\ PlacesApart' /\ BatchesFit' /\ TaskThere'
        /\ filling' \o queue' = filling \o queue /\ InFlight' = InFlight
    BY <1>v, <2>1
  <2>4. PlacesPending'
    BY <1>u, <2>1, <2>2, <2>3 DEF ServeInv, PlacesPending
  <2>5. PendingPlaced'
    BY <1>u, <2>1, <2>3 DEF ServeInv, PendingPlaced
  <2> QED  BY <2>3, <2>4, <2>5 DEF ServeInv
<1>3. ASSUME NEW r \in Requests, Cancel(r)
      PROVE  ServeInv'
  BY <1>3 DEF Cancel, Faultless
<1>4. CASE RunBatcher \/ BatchTimeout
  BY <1>4, ServeBatcher DEF Faultless, WakeInv
<1>5. CASE ClearQueue
  BY <1>5 DEF ClearQueue, ServeInv, TaskThere
<1>6. ASSUME NEW batch \in predicting, NEW outcome \in ModelOutcomes, FinishPredict(batch, outcome)
      PROVE  ServeInv'
  <2> DEFINE ended == [batch EXCEPT !.outcome = outcome]
  <2>1. /\ predicting' = (predicting \ {batch}) \cup {ended}
        /\ UNCHANGED <<client, queue, future, batcher, filling, clearing>>
    BY <1>6 DEF FinishPredict
  <2>2. ended.ids = batch.ids
    BY DEF TypeOK, Batches
  <2> HIDE DEF ended
  <2>3. InFlight' = InFlight
    <3>1. InFlight' = UNION {Range(b.ids) : b \in predicting'}
      BY DEF InFlight
    <3> QED  BY <2>1, <2>2, <3>1 DEF InFlight
  <2>4. filling' \o queue' = filling \o queue
    BY <2>1
  <2>5. \A a, b \in predicting' : a # b => Range(a.ids) \cap Range(b.ids) = {}
    BY <2>1, <2>2 DEF ServeInv, PlacesApart
  <2>6. PlacesApart'
    BY <2>3, <2>4, <2>5 DEF ServeInv, PlacesApart, Distinct
  <2>7. BatchesFit' /\ TaskThere'
    BY <2>1, <2>2 DEF ServeInv, BatchesFit, TaskThere
  <2>8. PlacesPending' /\ PendingPlaced'
    BY <2>1, <2>3, <2>4 DEF ServeInv, PlacesPending, PendingPlaced
  <2> QED  BY <2>6, <2>7, <2>8 DEF ServeInv
<1>7. ASSUME NEW batch \in predicting, PredictCallback(batch)
      PROVE  ServeInv'
  <2>1. PICK answer \in {"result", "exception"} :
          future' = [r \in Requests |-> IF r \in Range(batch.ids) THEN answer ELSE future[r]]
    BY <1>7, CallbackResolves
  <2>2. /\ predicting' = predicting \ {batch}
        /\ UNCHANGED <<client, queue, batcher, filling, clearing>>
    BY <1>7 DEF PredictCallback
  <2>3. InFlight' = InFlight \ Range(batch.ids)
    <3>1. InFlight' = UNION {Range(b.ids) : b \in predicting'}
      BY DEF InFlight
    <3>2. \A b \in predicting : b # batch => Range(b.ids) \cap Range(batch.ids) = {}
      BY DEF ServeInv, PlacesApart
    <3> QED  BY <2>2, <3>1, <3>2 DEF InFlight
  <2>4. Range(batch.ids) \subseteq InFlight /\ Range(filling \o queue) \cap Range(batch.ids) = {}
    <3>1. Range(batch.ids) \subseteq InFlight
      BY DEF InFlight
    <3>2. Range(filling \o queue) \cap InFlight = {}
      BY DEF ServeInv, PlacesApart
    <3> QED  BY <3>1, <3>2
  <2>5. filling' \o queue' = filling \o queue
    BY <2>2
  <2>6. PlacesApart'
    <3>1. Range(filling' \o queue') \cap InFlight' = {}
      BY <2>3, <2>5 DEF ServeInv, PlacesApart
    <3> QED  BY <2>2, <2>5, <3>1 DEF ServeInv, PlacesApart, Distinct
  <2>7. BatchesFit' /\ TaskThere'
    BY <2>2 DEF ServeInv, BatchesFit, TaskThere
  <2>8. PlacesPending'
    BY <1>u, <2>1, <2>2, <2>3, <2>4, <2>5 DEF ServeInv, PlacesPending
  <2>9. PendingPlaced'
    BY <1>u, <2>1, <2>3, <2>5 DEF ServeInv, PendingPlaced
  <2> QED  BY <2>6, <2>7, <2>8, <2>9 DEF ServeInv
<1>8. CASE UNCHANGED vars
  <2>1. UNCHANGED <<client, queue, future, predicting, batcher, filling, clearing>>
    BY <1>8 DEF vars
  <2>2. /\ PlacesApart' /\ BatchesFit' /\ TaskThere'
        /\ filling' \o queue' = filling \o queue /\ InFlight' = InFlight
    BY <1>v, <2>1
  <2> QED  BY <2>1, <2>2 DEF ServeInv, PlacesPending, PendingPlaced
<1> QED  BY <1>1, <1>2, <1>3, <1>4, <1>5, <1>6, <1>7, <1>8 DEF Next

(* At the start nothing is queued, filled or with the model. *)
LEMMA ServeInit == Init => ServeInv
<1> SUFFICES ASSUME Init PROVE ServeInv
  OBVIOUS
<1>1. /\ queue = <<>> /\ filling = <<>> /\ predicting = {} /\ ~clearing /\ batcher = "none"
      /\ future = [r \in Requests |-> "absent"]
  BY DEF Init
<1>2. InFlight = {} /\ filling \o queue = <<>>
  BY <1>1 DEF InFlight
<1>3. Range(filling \o queue) = {}
  BY <1>2 DEF Range
<1>4. PlacesApart
  BY <1>1, <1>2, <1>3, EmptyRow DEF PlacesApart, Distinct
<1> QED
  BY <1>1, <1>2, <1>3, <1>4 DEF ServeInv, PlacesPending, BatchesFit, TaskThere, PendingPlaced

(* The places of the requests hold throughout. *)
LEMMA Serving == Faultless => (Spec => []ServeInv)
<1> SUFFICES ASSUME Faultless PROVE Spec => []ServeInv
  OBVIOUS
<1>1. TypeOK /\ WakeInv /\ ServeInv /\ [Next]_vars => ServeInv'
  BY ServeStep
<1> QED  BY <1>1, ServeInit, Waking, Typing, PTL DEF Spec

(* With requests that merge, models that answer or raise and clients that    *)
(* stay, no future is left pending with nobody to resolve it (_batcher,     *)
(* _predict_callback): it would hang its caller.                            *)
THEOREM NobodyOrphaned == Faultless => (Spec => []NoOrphan)
<1> SUFFICES ASSUME Faultless PROVE Spec => []NoOrphan
  OBVIOUS
<1>1. TypeOK /\ ServeInv => NoOrphan
  <2> SUFFICES ASSUME TypeOK, ServeInv PROVE NoOrphan
    OBVIOUS
  <2>1. Range(filling \o queue) = Range(filling) \cup Range(queue)
    BY PlacedRequests
  <2> QED  BY <2>1 DEF ServeInv, PendingPlaced, NoOrphan
<1>2. Spec => []ServeInv
  BY Serving
<1> QED  BY <1>1, <1>2, Typing, PTL

(* Where requests merge, whatever else fails and whoever goes away, each     *)
(* step leaves a task with a queue that has requests.                       *)
LEMMA TaskStep ==
  ASSUME Unmergeable = {}
  PROVE  TypeOK /\ TaskThere /\ [Next]_vars => TaskThere'
<1> SUFFICES ASSUME TypeOK, TaskThere, [Next]_vars  PROVE TaskThere'
  OBVIOUS
<1>u. queue \in Seq(Requests) /\ filling \in Seq(Requests) /\ <<>> \in Seq(Requests)
  BY EmptyRow DEF TypeOK
<1>1. ASSUME UNCHANGED <<queue, batcher, filling, clearing>>
      PROVE  TaskThere'
  BY <1>1 DEF TaskThere
<1>2. ASSUME NEW r \in Requests, QueueRequest(r)
      PROVE  TaskThere'
  <2>1. CASE Full
    BY <1>1, <1>2, <2>1 DEF QueueRequest, Suspend
  <2>2. CASE ~Full
    BY <1>2, <2>2 DEF QueueRequest, Enqueue, TaskThere
  <2> QED  BY <2>1, <2>2
<1>3. ASSUME NEW r \in Requests, Predict(r) \/ ResumePut(r)
      PROVE  TaskThere'
  BY <1>2, <1>3 DEF Predict, ResumePut
<1>4. ASSUME NEW r \in Requests, WaitResponse(r) \/ Cancel(r)
      PROVE  TaskThere'
  BY <1>1, <1>4 DEF WaitResponse, Cancel
<1>5. CASE RunBatcher
  <2>1. Fill(filling, queue, {})
    BY <1>5 DEF RunBatcher
  <2>2. queue' = <<>> /\ clearing' = clearing /\ batcher' = IF filling' = <<>> THEN "none" ELSE "filling"
    BY <1>u, <2>1, FillMoves
  <2> QED  BY <2>2 DEF TaskThere
<1>6. CASE BatchTimeout
  <2>1. Fill(<<>>, queue, {Batch(filling)})
    BY <1>6 DEF BatchTimeout, Mergeable
  <2>2. queue' = <<>> /\ clearing' = clearing /\ batcher' = IF filling' = <<>> THEN "none" ELSE "filling"
    BY <1>u, <2>1, FillMoves
  <2> QED  BY <2>2 DEF TaskThere
<1>7. CASE ClearQueue
  BY <1>7 DEF ClearQueue, TaskThere
<1>8. ASSUME NEW batch \in predicting, NEW outcome \in ModelOutcomes, FinishPredict(batch, outcome)
      PROVE  TaskThere'
  BY <1>1, <1>8 DEF FinishPredict
<1>9. ASSUME NEW batch \in predicting, PredictCallback(batch)
      PROVE  TaskThere'
  BY <1>1, <1>9 DEF PredictCallback
<1>10. CASE UNCHANGED vars
  BY <1>1, <1>10 DEF vars
<1> QED  BY <1>3, <1>4, <1>5, <1>6, <1>7, <1>8, <1>9, <1>10 DEF Next

(* Where requests merge, a request in the queue has a batching task to take  *)
(* it (_start_batcher_if_needed), even when models and clients fail.        *)
THEOREM QueueIsServed == Unmergeable = {} => (Spec => []QueueServed)
<1> SUFFICES ASSUME Unmergeable = {} PROVE Spec => []QueueServed
  OBVIOUS
<1>1. Init => TaskThere
  BY DEF Init, TaskThere
<1>2. TaskThere => QueueServed
  BY DEF TaskThere, QueueServed
<1>3. TypeOK /\ TaskThere /\ [Next]_vars => TaskThere'
  BY TaskStep
<1> QED  BY <1>1, <1>2, <1>3, Typing, PTL DEF Spec

-----------------------------------------------------------------------------
(* The promise to the callers.                                              *)

(* What a batch answers its callers is one answer to a group that fits in a *)
(* batch (_predict_callback).                                               *)
LEMMA BatchTogether ==
  ASSUME Faultless, TypeOK, ServeInv, NEW batch \in predicting, PredictCallback(batch)
  PROVE  Promise!Next
<1> DEFINE row == batch.ids
           group == Range(row)
<1>1. PICK answer \in {"result", "exception"} :
        future' = [r \in Requests |-> IF r \in group THEN answer ELSE future[r]]
  BY CallbackResolves
<1>2. client' = client
  BY DEF PredictCallback
<1>3. row \in Seq(Requests) /\ row # <<>> /\ Len(row) =< MaxBatchSize /\ Len(row) \in Nat
  BY DEF TypeOK, Batches, ServeInv, BatchesFit
<1>4. group \in SUBSET Requests /\ group # {}
  <2>1. 1 \in DOMAIN row /\ DOMAIN row = 1..Len(row)
    BY <1>3
  <2>2. \A i \in 1..Len(row) : row[i] \in Requests
    BY <1>3
  <2> QED  BY <2>1, <2>2 DEF Range
<1>5. \A r \in group : client[r] = "waiting" /\ future[r] = "pending"
  <2>1. group \subseteq InFlight
    BY DEF InFlight
  <2> QED  BY <2>1 DEF ServeInv, PlacesPending
<1>6. Cardinality(group) =< MaxBatchSize
  <2>1. row \in Surjection(1..Len(row), group)
    BY <1>3 DEF Surjection, Range
  <2>2. ExistsSurjection(1..Len(row), group)
    BY <2>1 DEF ExistsSurjection
  <2>3. Cardinality(group) =< Len(row)
    BY <1>3, <2>2, FS_SurjCardinalityBound
  <2>4. Cardinality(group) \in Nat
    <3>1. IsFiniteSet(1..Len(row))
      BY <1>3, FS_Interval
    <3>2. IsFiniteSet(group)
      BY <2>1, <3>1, FS_Surjection
    <3> QED  BY <3>2, FS_CardinalityType
  <2> HIDE DEF row, group
  <2> QED  BY <1>3, <2>3, <2>4, Sizes
<1> HIDE DEF row, group
<1>7. \A r \in group : AnswerOf[r] = "pending"
  BY <1>4, <1>5 DEF AnswerOf
<1>8. AnswerOf' = [r \in Requests |-> IF r \in group THEN answer ELSE AnswerOf[r]]
  <2>1. AnswerOf' = [r \in Requests |->
           CASE client'[r] = "idle" -> "none"
             [] client'[r] \in {"blocked", "woken"} -> "pending"
             [] client'[r] = "waiting" -> future'[r]
             [] OTHER -> client'[r]]
    BY DEF AnswerOf
  <2> QED  BY <1>1, <1>2, <1>4, <1>5, <2>1 DEF AnswerOf
<1>9. Promise!Cardinality(group) = Cardinality(group)
  BY DEF Promise!Cardinality, Cardinality
<1> QED  BY <1>4, <1>6, <1>7, <1>8, <1>9 DEF Promise!Next, Promise!AnswerTogether

(* Every step of a batcher without faults is a step of BatchService, or does *)
(* not show to the callers.                                                 *)
LEMMA PromiseStep ==
  ASSUME Faultless
  PROVE  TypeOK /\ WakeInv /\ ServeInv /\ [Next]_vars => [Promise!Next]_AnswerOf
<1> SUFFICES ASSUME TypeOK, WakeInv, ServeInv, [Next]_vars  PROVE Promise!Next \/ AnswerOf' = AnswerOf
  OBVIOUS
<1>u. /\ client \in [Requests -> {"idle", "blocked", "woken", "waiting"} \cup Answers]
      /\ future \in [Requests -> {"absent", "pending"} \cup Answers]
      /\ putters \in Seq(Requests)
  BY DEF TypeOK
<1>v. AnswerOf' = [r \in Requests |->
         CASE client'[r] = "idle" -> "none"
           [] client'[r] \in {"blocked", "woken"} -> "pending"
           [] client'[r] = "waiting" -> future'[r]
           [] OTHER -> client'[r]]
  BY DEF AnswerOf
<1>1. ASSUME UNCHANGED <<client, future>>
      PROVE  AnswerOf' = AnswerOf
  BY <1>1, <1>v DEF AnswerOf
<1>2. ASSUME NEW r \in Requests, QueueRequest(r)
      PROVE  AnswerOf' = [AnswerOf EXCEPT ![r] = "pending"]
  <2>1. CASE Full
    <3>1. client' = [client EXCEPT ![r] = "blocked"] /\ future' = future
      BY <1>2, <2>1 DEF QueueRequest, Suspend
    <3> QED  BY <1>u, <1>v, <3>1 DEF AnswerOf
  <2>2. CASE ~Full
    <3>1. client' = [client EXCEPT ![r] = "waiting"] /\ future' = [future EXCEPT ![r] = "pending"]
      BY <1>2, <2>2 DEF QueueRequest, Enqueue
    <3> QED  BY <1>u, <1>v, <3>1 DEF AnswerOf
  <2> QED  BY <2>1, <2>2
<1>3. ASSUME NEW r \in Requests, Predict(r)
      PROVE  Promise!Next
  <2>1. AnswerOf[r] = "none" /\ AnswerOf' = [AnswerOf EXCEPT ![r] = "pending"]
    BY <1>2, <1>3 DEF Predict, AnswerOf
  <2> QED  BY <2>1 DEF Promise!Next, Promise!Ask
<1>4. ASSUME NEW r \in Requests, ResumePut(r)
      PROVE  AnswerOf' = AnswerOf
  <2>1. AnswerOf[r] = "pending" /\ AnswerOf' = [AnswerOf EXCEPT ![r] = "pending"]
    BY <1>2, <1>4 DEF ResumePut, AnswerOf
  <2> QED  BY <2>1 DEF AnswerOf
<1>5. ASSUME NEW r \in Requests, WaitResponse(r)
      PROVE  AnswerOf' = AnswerOf
  <2>1. /\ client[r] = "waiting" /\ future[r] \in Answers
        /\ client' = [client EXCEPT ![r] = future[r]] /\ future' = [future EXCEPT ![r] = "absent"]
    BY <1>5 DEF WaitResponse
  <2> QED  BY <1>u, <1>v, <2>1 DEF AnswerOf, Answers
<1>6. ASSUME NEW r \in Requests, Cancel(r)
      PROVE  FALSE
  BY <1>6 DEF Cancel, Faultless
<1>7. CASE RunBatcher \/ BatchTimeout
  <2>1. future' = future /\ WakePutters(Len(queue) - Len(queue'))
    BY <1>7 DEF RunBatcher, BatchTimeout
  <2>2. Len(queue) - Len(queue') \in Nat
    <3>1. queue' = <<>>
      <4>1. queue \in Seq(Requests) /\ filling \in Seq(Requests) /\ <<>> \in Seq(Requests)
        BY EmptyRow DEF TypeOK
      <4>2. Fill(filling, queue, {}) \/ Fill(<<>>, queue, {Batch(filling)})
        BY <1>7 DEF RunBatcher, BatchTimeout, Mergeable, Faultless
      <4>3. Unmergeable = {}
        BY DEF Faultless
      <4> QED  BY <4>1, <4>2, <4>3, FillMoves
    <3> QED  BY <3>1, EmptyRow DEF TypeOK
  <2> DEFINE k == Minimum(Len(queue) - Len(queue'), Len(putters))
             first == {r \in Requests : \E i \in 1..k : putters[i] = r}
  <2>3. k \in 0..Len(putters)
    BY <1>u, <2>2 DEF Minimum
  <2>4. \A r \in first : client[r] = "blocked"
    BY <1>u, <2>3 DEF WakeInv, PuttersBlocked
  <2>5. client' = [r \in Requests |-> IF r \in first THEN "woken" ELSE client[r]]
    BY <2>1 DEF WakePutters
  <2> HIDE DEF first
  <2> QED  BY <1>u, <1>v, <2>1, <2>4, <2>5 DEF AnswerOf
<1>8. CASE ClearQueue
  BY <1>8 DEF ClearQueue, ServeInv, TaskThere
<1>9. ASSUME NEW batch \in predicting, NEW outcome \in ModelOutcomes, FinishPredict(batch, outcome)
      PROVE  AnswerOf' = AnswerOf
  BY <1>1, <1>9 DEF FinishPredict
<1>10. ASSUME NEW batch \in predicting, PredictCallback(batch)
       PROVE  Promise!Next
  BY <1>10, BatchTogether
<1>11. CASE UNCHANGED vars
  BY <1>1, <1>11 DEF vars
<1> QED  BY <1>3, <1>4, <1>5, <1>6, <1>7, <1>8, <1>9, <1>10, <1>11 DEF Next

(* A batcher without faults implements BatchService: a call of predict() is  *)
(* answered once, and those of a batch are answered together.               *)
THEOREM BatcherKeepsPromise == Faultless => (Spec => AnswersTogether)
<1> SUFFICES ASSUME Faultless PROVE Spec => AnswersTogether
  OBVIOUS
<1>1. Init => Promise!Init
  BY DEF Init, Promise!Init, AnswerOf
<1>2. TypeOK /\ WakeInv /\ ServeInv /\ [Next]_vars => [Promise!Next]_AnswerOf
  BY PromiseStep
<1>3. Spec => []ServeInv
  BY Serving
<1> QED  BY <1>1, <1>2, <1>3, Waking, Typing, PTL DEF Spec, AnswersTogether, Promise!Spec
=============================================================================
