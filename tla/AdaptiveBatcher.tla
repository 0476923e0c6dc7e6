--------------------------- MODULE AdaptiveBatcher ---------------------------
(***************************************************************************)
(* mlserver/batching/adaptive.py: the AdaptiveBatcher of one model.        *)
(*                                                                         *)
(* Calls of predict() put their request on a bounded asyncio.Queue and     *)
(* wait for a future.  One _batcher task drains the queue into batches of  *)
(* at most max_batch_size, waiting at most max_batch_time to fill one, and *)
(* runs the model on each batch as a task of its own whose done callback   *)
(* resolves the futures.                                                   *)
(*                                                                         *)
(* All of it runs on one event loop, so an action is what a task or a      *)
(* callback does between two suspensions.  The loop's FIFO order is        *)
(* abstracted to "any runnable task is next", except where an order that   *)
(* the loop can never produce would matter (RunBatcher).                   *)
(***************************************************************************)
EXTENDS Integers, Sequences, FiniteSets, Functions, Rows

CONSTANTS
  Requests,       (* calls of predict(); one internal_id each              *)
  MaxBatchSize,   (* settings.max_batch_size, also the queue's maxsize     *)
  Unmergeable,    (* requests whose batch BatchedRequests fails to merge   *)
  Headless,       (* requests with an empty list of inputs                 *)
  Cancellable,    (* requests whose client may go away                     *)
  ModelOutcomes   (* how a call of the model may end                       *)

(* hooks.load_batching leaves the model alone when max_batch_size <= 1. *)
ASSUME SizeAssumption == MaxBatchSize \in Nat \ {0, 1}
ASSUME OutcomeAssumption == ModelOutcomes \subseteq {"outputs", "no_outputs", "error"}
ASSUME FaultAssumption ==
  Unmergeable \subseteq Requests /\ Headless \subseteq Requests /\ Cancellable \subseteq Requests

VARIABLES
  client,         (* where each call of predict() is                       *)
  queue,          (* __requests                                            *)
  putters,        (* calls suspended in Queue.put, in order                *)
  issued,         (* ids in the order they entered _async_responses        *)
  future,         (* _async_responses: absent, pending, or how it is done  *)
  batcher,        (* _batching_task: none (or done), scheduled, filling    *)
  filling,        (* to_batch, the batch _batch_requests is filling        *)
  predicting,     (* batches handed to the model, callback not yet run     *)
  clearing,       (* _batching_task_callback is due with an error          *)
  ahead           (* calls whose wake-up the loop runs before that callback *)

vars == <<client, queue, putters, issued, future, batcher, filling, predicting, clearing, ahead>>

Answers == {"result", "exception", "cancelled"}
Batches == [ids : Seq(Requests), outcome : ModelOutcomes \cup {"running"}]

(* Types, and the two bounds of the code: the queue holds at most maxsize   *)
(* requests and a suspended _batch_requests less than a full batch.         *)
TypeOK ==
  /\ client \in [Requests -> {"idle", "blocked", "woken", "waiting"} \cup Answers]
  /\ queue \in Seq(Requests) /\ Len(queue) =< MaxBatchSize
  /\ putters \in Seq(Requests)
  /\ issued \in Seq(Requests)
  /\ future \in [Requests -> {"absent", "pending"} \cup Answers]
  /\ batcher \in {"none", "scheduled", "filling"}
  /\ filling \in Seq(Requests) /\ Len(filling) < MaxBatchSize
  /\ predicting \subseteq Batches
  /\ clearing \in BOOLEAN
  /\ ahead \subseteq Requests

Init ==
  /\ client = [r \in Requests |-> "idle"]
  /\ queue = <<>>
  /\ putters = <<>>
  /\ issued = <<>>
  /\ future = [r \in Requests |-> "absent"]
  /\ batcher = "none"
  /\ filling = <<>>
  /\ predicting = {}
  /\ clearing = FALSE
  /\ ahead = {}

-----------------------------------------------------------------------------
(* asyncio.Queue, as the batcher uses it.                                   *)

(* Mutant: one place too many. *)
FullOffByOne == Len(queue) > MaxBatchSize

Full == Len(queue) >= MaxBatchSize

(* Each item taken wakes the first of the suspended putters. *)
Minimum(m, n) == IF m < n THEN m ELSE n

WakePutters(taken) ==
  LET n == Minimum(taken, Len(putters)) IN
  /\ putters' = SubSeq(putters, n + 1, Len(putters))
  /\ client' = [r \in Requests |->
                  IF \E i \in 1..n : putters[i] = r THEN "woken" ELSE client[r]]

-----------------------------------------------------------------------------
(* Calls of predict().                                                      *)

(* Mutant: a batching task that has ended is not replaced. *)
EnqueueStartsBatcherOnce(r) ==
  /\ queue' = Append(queue, r)
  /\ issued' = Append(issued, r)
  /\ future' = [future EXCEPT ![r] = "pending"]
  /\ client' = [client EXCEPT ![r] = "waiting"]
  /\ batcher' = IF issued = <<>> THEN "scheduled" ELSE batcher
  /\ UNCHANGED putters

(* The put has room: the future is registered and the batcher started      *)
(* before the call suspends again.                                         *)
Enqueue(r) ==
  /\ queue' = Append(queue, r)
  /\ issued' = Append(issued, r)
  /\ future' = [future EXCEPT ![r] = "pending"]
  /\ client' = [client EXCEPT ![r] = "waiting"]
  /\ batcher' = IF batcher = "none" THEN "scheduled" ELSE batcher
  /\ UNCHANGED putters

Suspend(r) ==
  /\ putters' = Append(putters, r)
  /\ client' = [client EXCEPT ![r] = "blocked"]
  /\ UNCHANGED <<queue, issued, future, batcher>>

QueueRequest(r) ==
  /\ IF Full THEN Suspend(r) ELSE Enqueue(r)
  /\ UNCHANGED <<filling, predicting, clearing, ahead>>

Predict(r) == client[r] = "idle" /\ QueueRequest(r)

ResumePut(r) == client[r] = "woken" /\ QueueRequest(r)

(* _wait_response: the entry is deleted whatever the future's outcome. *)
WaitResponse(r) ==
  /\ client[r] = "waiting"
  /\ clearing => r \in ahead
  /\ future[r] \in Answers
  /\ client' = [client EXCEPT ![r] = future[r]]
  /\ future' = [future EXCEPT ![r] = "absent"]
  /\ UNCHANGED <<queue, putters, issued, batcher, filling, predicting, clearing, ahead>>

(* The client goes away.  A putter leaves the queue and, if it had been     *)
(* woken for a free place, passes the wake-up on.  A waiting call has its   *)
(* future cancelled; WaitResponse deletes the entry later.                  *)
CancelPut(r) ==
  LET freed == IF client[r] = "woken" /\ ~Full /\ putters # <<>> THEN {Head(putters)} ELSE {} IN
  /\ client[r] \in {"blocked", "woken"}
  /\ client' = [s \in Requests |-> IF s = r THEN "cancelled"
                                   ELSE IF s \in freed THEN "woken" ELSE client[s]]
  /\ putters' = IF freed = {} THEN Without(putters, r) ELSE Tail(putters)
  /\ UNCHANGED future

CancelWait(r) ==
  /\ client[r] = "waiting"
  /\ future' = [future EXCEPT ![r] = "cancelled"]
  /\ UNCHANGED <<client, putters>>

Cancel(r) ==
  /\ r \in Cancellable
  /\ CancelPut(r) \/ CancelWait(r)
  /\ UNCHANGED <<queue, issued, batcher, filling, predicting, clearing, ahead>>

-----------------------------------------------------------------------------
(* The batching task.                                                       *)

Mergeable(ids) == Range(ids) \cap Unmergeable = {}

Batch(ids) == [ids |-> ids, outcome |-> "running"]

(* Mutant: the requests of the failed batch stay in to_batch. *)
FailBatcherKeepsBatch(unread) ==
  /\ batcher' = "none"
  /\ UNCHANGED filling
  /\ queue' = unread
  /\ clearing' = TRUE
  /\ ahead' = {r \in Requests : future[r] \in Answers}

(* BatchedRequests(to_batch) raises: the generator and the task end.  The   *)
(* task's done callback joins the end of the loop's queue, behind the       *)
(* callers already resolved and the predictions already finished.           *)
FailBatcher(unread) ==
  /\ batcher' = "none"
  /\ filling' = <<>>
  /\ queue' = unread
  /\ clearing' = TRUE
  /\ ahead' = {r \in Requests : future[r] \in Answers}

(* Mutant: one request too many in a batch. *)
FillOneMore(held, unread, yielded) ==
  LET items == held \o unread
      size == MaxBatchSize + 1
      rest == SubSeq(items, size + 1, Len(items))
      ends == items = <<>> \/ (Len(items) >= size /\ rest = <<>>)
  IN
  /\ batcher' = IF ends THEN "none" ELSE "filling"
  /\ filling' = IF Len(items) < size THEN items ELSE rest
  /\ queue' = <<>>
  /\ predicting' = predicting \cup yielded
                     \cup (IF Len(items) < size THEN {} ELSE {Batch(SubSeq(items, 1, size))})
  /\ UNCHANGED <<clearing, ahead>>

(* What the task does from the top of the inner loop of _batch_requests    *)
(* until it suspends or ends, with `held` in to_batch and `unread` in the  *)
(* queue: together they are fewer than two full batches.  `yielded` are    *)
(* the batches of this step handed to the model so far.                    *)
Fill(held, unread, yielded) ==
  LET items == held \o unread
      batch == SubSeq(items, 1, MaxBatchSize)
      rest == SubSeq(items, MaxBatchSize + 1, Len(items))
  IN
  IF Len(items) < MaxBatchSize
  THEN /\ batcher' = IF items = <<>> THEN "none" ELSE "filling"
       /\ filling' = items
       /\ queue' = <<>>
       /\ predicting' = predicting \cup yielded
       /\ UNCHANGED <<clearing, ahead>>
  ELSE IF Mergeable(batch)
  THEN /\ batcher' = IF rest = <<>> THEN "none" ELSE "filling"
       /\ filling' = rest
       /\ queue' = <<>>
       /\ predicting' = predicting \cup yielded \cup {Batch(batch)}
       /\ UNCHANGED <<clearing, ahead>>
  ELSE /\ FailBatcher(rest)
       /\ predicting' = predicting \cup yielded

(* The task starts, or _get_request returns an item.  A failed task's done *)
(* callback is in the loop's queue ahead of the next task's first step.    *)
RunBatcher ==
  /\ ~clearing
  /\ batcher = "scheduled" \/ (batcher = "filling" /\ queue # <<>>)
  /\ Fill(filling, queue, {})
  /\ WakePutters(Len(queue) - Len(queue'))
  /\ UNCHANGED <<issued, future>>

(* wait_for raises TimeoutError: the batch goes as it is, and the outer     *)
(* loop looks at the queue again.                                           *)
BatchTimeout ==
  /\ batcher = "filling"
  /\ IF Mergeable(filling)
     THEN Fill(<<>>, queue, {Batch(filling)})
     ELSE FailBatcher(queue) /\ UNCHANGED predicting
  /\ WakePutters(Len(queue) - Len(queue'))
  /\ UNCHANGED <<issued, future>>

(* Mutant: the queue is replaced by an empty one. *)
ClearQueueReplaces ==
  /\ clearing
  /\ \A r \in ahead : future[r] \notin Answers
  /\ \A batch \in predicting : batch.outcome = "running"
  /\ clearing' = FALSE
  /\ ahead' = {}
  /\ future' = [r \in Requests |-> IF future[r] = "pending" THEN "exception" ELSE future[r]]
  /\ queue' = <<>>
  /\ UNCHANGED <<client, putters, issued, batcher, filling, predicting>>

(* _clear_queue iterates _async_responses in insertion order; set_exception *)
(* raises InvalidStateError on a future that is done but not yet collected, *)
(* which ends the callback there.                                           *)
ClearQueue ==
  LET stops == {i \in 1..Len(issued) : future[issued[i]] \in Answers}
      cleared == {i \in 1..Len(issued) : \A j \in stops : i < j}
  IN
  /\ clearing
  /\ \A r \in ahead : future[r] \notin Answers
  /\ \A batch \in predicting : batch.outcome = "running"
  /\ clearing' = FALSE
  /\ ahead' = {}
  /\ future' = [r \in Requests |->
                  IF future[r] = "pending" /\ \E i \in cleared : issued[i] = r
                  THEN "exception" ELSE future[r]]
  /\ queue' = IF stops = {} THEN <<>> ELSE queue
  /\ WakePutters(Len(queue) - Len(queue'))
  /\ UNCHANGED <<issued, batcher, filling, predicting>>

-----------------------------------------------------------------------------
(* The prediction tasks.                                                    *)

(* The model's predict ends. While _batching_task_callback is due it makes  *)
(* no difference: the prediction's own callback comes after it.             *)
FinishPredict(batch, outcome) ==
  /\ ~clearing
  /\ batch.outcome = "running"
  /\ predicting' = (predicting \ {batch}) \cup {[batch EXCEPT !.outcome = outcome]}
  /\ UNCHANGED <<client, queue, putters, issued, future, batcher, filling, clearing, ahead>>

(* The ids BatchedRequests.split_response has an answer for: those with a   *)
(* minibatch size, and none when the model returned no output.              *)
Split(batch) ==
  IF batch.outcome = "outputs" THEN Range(batch.ids) \ Headless ELSE {}

(* The loops of _predict_callback go through `among` in the batch's order   *)
(* and stop at the first id whose entry is gone (KeyError) or done          *)
(* (InvalidStateError).                                                     *)
Reached(ids, among, f) ==
  {ids[i] : i \in {k \in 1..Len(ids) :
     /\ ids[k] \in among
     /\ \A j \in 1..k : ids[j] \in among => f[ids[j]] = "pending"}}

Resolve(f, ids, among, answer) ==
  [r \in Requests |-> IF r \in Reached(ids, among, f) THEN answer ELSE f[r]]

(* Mutant: an error of the model is not passed on. *)
PredictCallbackIgnoresError(batch) ==
  /\ batch.outcome # "running"
  /\ predicting' = predicting \ {batch}
  /\ future' = Resolve(future, batch.ids, Split(batch), "result")
  /\ UNCHANGED <<client, queue, putters, issued, batcher, filling, clearing, ahead>>

PredictCallback(batch) ==
  LET targets == Split(batch)
      answered == Resolve(future, batch.ids, targets, "result")
      failed == batch.outcome = "error" \/ Reached(batch.ids, targets, future) # targets
  IN
  /\ batch.outcome # "running"
  /\ predicting' = predicting \ {batch}
  /\ future' = IF failed THEN Resolve(answered, batch.ids, Range(batch.ids), "exception") ELSE answered
  /\ UNCHANGED <<client, queue, putters, issued, batcher, filling, clearing, ahead>>

-----------------------------------------------------------------------------
Next ==
  \/ \E r \in Requests : Predict(r)
  \/ \E r \in Requests : ResumePut(r)
  \/ \E r \in Requests : WaitResponse(r)
  \/ \E r \in Requests : Cancel(r)
  \/ RunBatcher
  \/ BatchTimeout
  \/ ClearQueue
  \/ \E batch \in predicting, outcome \in ModelOutcomes : FinishPredict(batch, outcome)
  \/ \E batch \in predicting : PredictCallback(batch)

(* The loop runs every runnable task and callback, the timer fires and the  *)
(* model's predict returns; nothing makes a client call or go away.         *)
Fairness ==
  /\ \A r \in Requests : WF_vars(ResumePut(r)) /\ WF_vars(WaitResponse(r))
  /\ WF_vars(RunBatcher)
  /\ WF_vars(BatchTimeout)
  /\ WF_vars(ClearQueue)
  /\ WF_vars(\E batch \in predicting, outcome \in ModelOutcomes : FinishPredict(batch, outcome))
  /\ WF_vars(\E batch \in predicting : PredictCallback(batch))

Spec == Init /\ [][Next]_vars /\ Fairness

-----------------------------------------------------------------------------
(* Properties.                                                              *)

InFlight == UNION {Range(batch.ids) : batch \in predicting}

(* Every pending future is somebody's to resolve: its request is queued, in *)
(* the batch being filled, with the model, or about to be failed by         *)
(* _clear_queue.  A pending future outside of these hangs its caller.       *)
NoOrphan ==
  \A r \in Requests : future[r] = "pending" =>
    clearing \/ r \in Range(queue) \cup Range(filling) \cup InFlight

(* A request in the queue has a batching task to take it: predict() may    *)
(* skip starting one only while the current one will look at the queue     *)
(* again (_start_batcher_if_needed).                                       *)
QueueServed == queue # <<>> => batcher # "none" \/ clearing

(* No lost wake-up of Queue.put: while calls are suspended, each free place *)
(* of the queue has a woken call on its way to it.                          *)
PuttersServed ==
  putters # <<>> =>
    Len(queue) + Cardinality({r \in Requests : client[r] = "woken"}) >= MaxBatchSize

(* Requests leave in the order they came: what the batcher holds followed   *)
(* by what it has not read is always the end of the arrival order, so a     *)
(* request is never overtaken, duplicated or skipped.                       *)
ArrivalOrder ==
  LET unserved == filling \o queue
      served == Len(issued) - Len(unserved)
  IN
  /\ served >= 0
  /\ \A i \in 1..Len(unserved) : unserved[i] = issued[served + i]

(* Every call of predict() returns. *)
EveryCallAnswered ==
  \A r \in Requests : client[r] \in {"blocked", "waiting"} ~> client[r] \in Answers

(* What a caller knows of its call.                                         *)
AnswerOf ==
  [r \in Requests |->
     CASE client[r] = "idle" -> "none"
       [] client[r] \in {"blocked", "woken"} -> "pending"
       [] client[r] = "waiting" -> future[r]
       [] OTHER -> client[r]]

(* The promise to the callers: see BatchService. *)
Promise == INSTANCE BatchService WITH answer <- AnswerOf

AnswersTogether == Promise!Spec
=============================================================================
