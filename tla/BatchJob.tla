------------------------------ MODULE BatchJob ------------------------------
(***************************************************************************)
(* mlserver/batch_processing.py: the `mlserver infer` command.             *)
(*                                                                         *)
(* process_batch reads a file of requests, one per line, and groups them   *)
(* into micro-batches on a bounded queue.  Workers take a batch each, send *)
(* it to the server as one merged request, with retries, and put what came *)
(* of it on a second bounded queue, which the finalizer writes out.  The   *)
(* job ends when both queues have been joined and the tasks cancelled.     *)
(*                                                                         *)
(* An action is what a task does between two suspensions on the one event  *)
(* loop.  A record of the output is known by the line it is for: whether   *)
(* it holds an answer or an error is left out, as is the pacing of the     *)
(* workers, which only delays a step that is free to be late.              *)
(***************************************************************************)
EXTENDS Integers, Sequences, FiniteSets

CONSTANTS
  Workers,    (* the consumers; --workers is how many                      *)
  Files,      (* input files: sequences of lines                           *)
  BatchSize,  (* --batch-size                                              *)
  Retries     (* --retries: how often a batch is sent at most              *)

Kinds == {"request", "no_inputs", "invalid", "broken"}
NoId == "no id"

(* A line is a request, one with an empty list of inputs, JSON that is not  *)
(* a request, or something that makes preprocess_items raise.  Its id tells *)
(* requests of one batch apart; without one, a fresh one is made up.        *)
ASSUME FileAssumption == \A f \in Files : f \in Seq([kind : Kinds, id : STRING])
ASSUME WorkerAssumption == IsFiniteSet(Workers) /\ Workers # {}
ASSUME SizeAssumption == BatchSize \in Nat \ {0} /\ Retries \in Nat

VARIABLES
  file,           (* the input                                             *)
  read,           (* how many of its lines produce has read                *)
  batch,          (* the lines produce has not put yet                     *)
  queueIn,        (* queue_in: batches, sets of line numbers               *)
  unfinishedIn,   (* its count of items without a task_done                *)
  worker,         (* each consumer: where it is, with what                 *)
  queueOut,       (* queue_out: the lines each output batch has a record of *)
  unfinishedOut,
  sink,           (* the finalizer, and the output batch in its hands      *)
  output,         (* how many records of each line are in the output file  *)
  reported,       (* lines given up on with an error in the log            *)
  blank,          (* history: requests answered in a batch without outputs *)
  job             (* where process_batch is                                *)

input == <<file, read, batch>>
finalizer == <<sink, output, reported, blank>>
vars == <<input, queueIn, unfinishedIn, worker, queueOut, unfinishedOut, finalizer, job>>

Lines == 1..Len(file)
MaxQueue == 2 * Cardinality(Workers)
Idle == [at |-> "idle", items |-> {}, tries |-> 0, result |-> {}]

Init ==
  /\ file \in Files
  /\ read = 0
  /\ batch = {}
  /\ queueIn = <<>> /\ unfinishedIn = 0
  /\ worker = [w \in Workers |-> Idle]
  /\ queueOut = <<>> /\ unfinishedOut = 0
  /\ sink = [at |-> "opening", items |-> {}]
  /\ output = [l \in Lines |-> 0]
  /\ reported = {} /\ blank = {}
  /\ job = "producing"

-----------------------------------------------------------------------------
(* produce                                                                  *)

ReadLine ==
  /\ job = "producing" /\ read < Len(file) /\ Cardinality(batch) < BatchSize
  /\ read' = read + 1
  /\ batch' = batch \cup {read'}
  /\ UNCHANGED <<file, queueIn, unfinishedIn, worker, queueOut, unfinishedOut, finalizer, job>>

(* A full batch, or the rest of the file.  The put waits for a place. *)
PutBatch ==
  /\ job = "producing"
  /\ batch # {} /\ (Cardinality(batch) = BatchSize \/ read = Len(file))
  /\ Len(queueIn) < MaxQueue
  /\ queueIn' = Append(queueIn, batch)
  /\ unfinishedIn' = unfinishedIn + 1
  /\ batch' = {}
  /\ UNCHANGED <<file, read, worker, queueOut, unfinishedOut, finalizer, job>>

(* Mutant: the rest of the file, less than a batch, is forgotten. *)
FinishProducingForgetsRest ==
  /\ job = "producing" /\ read = Len(file) /\ Cardinality(batch) < BatchSize
  /\ job' = "joining input"
  /\ UNCHANGED <<input, queueIn, unfinishedIn, worker, queueOut, unfinishedOut, finalizer>>

FinishProducing ==
  /\ job = "producing" /\ read = Len(file) /\ batch = {}
  /\ job' = "joining input"
  /\ UNCHANGED <<input, queueIn, unfinishedIn, worker, queueOut, unfinishedOut, finalizer>>

-----------------------------------------------------------------------------
(* consume: preprocess_items, send_requests and postprocess_items.          *)

Invalid(b) == {l \in b : file[l].kind = "invalid"}

(* inference_requests and item_indices are dictionaries on the request's    *)
(* id: the last line of the batch with an id stands for all of them.        *)
Indices(b) ==
  {l \in b \ Invalid(b) :
     file[l].id = NoId \/ \A k \in b \ Invalid(b) : k > l => file[k].id # file[l].id}

(* The requests that split_response has an entry for, if there are outputs. *)
Answered(b) == {l \in Indices(b) : file[l].kind # "no_inputs"}

(* Mutant: the batch is not marked as done. *)
DiscardWithoutDone(w, b) ==
  /\ worker' = [worker EXCEPT ![w] = Idle]
  /\ reported' = reported \cup b
  /\ UNCHANGED unfinishedIn

(* An exception out of process_items is logged and ends the batch. *)
Discard(w, b) ==
  /\ worker' = [worker EXCEPT ![w] = Idle]
  /\ reported' = reported \cup b
  /\ unfinishedIn' = unfinishedIn - 1

Finish(w, lines) ==
  /\ worker' = [worker EXCEPT ![w] = [@ EXCEPT !.at = "putting", !.result = lines]]
  /\ UNCHANGED <<unfinishedIn, reported>>

(* Up to the first request there is nothing to wait for.  With no retries  *)
(* at all there is no request either, and no answer to postprocess.        *)
TakeBatch(w) ==
  /\ worker[w].at = "idle" /\ queueIn # <<>>
  /\ queueIn' = Tail(queueIn)
  /\ LET b == Head(queueIn) IN
     \/ /\ Invalid(b) = b
        /\ worker' = [worker EXCEPT ![w] = [Idle EXCEPT !.at = "putting", !.items = b, !.result = b]]
        /\ UNCHANGED <<unfinishedIn, reported>>
     \/ /\ Invalid(b) # b
        /\ (\E l \in b : file[l].kind = "broken") \/ Retries = 0
        /\ Discard(w, b)
     \/ /\ Invalid(b) # b
        /\ ~ \E l \in b : file[l].kind = "broken"
        /\ Retries > 0
        /\ worker' = [worker EXCEPT ![w] = [Idle EXCEPT !.at = "sending", !.items = b]]
        /\ UNCHANGED <<unfinishedIn, reported>>
  /\ UNCHANGED <<input, queueOut, unfinishedOut, sink, output, blank, job>>

(* The server answers the batch: split_response makes a response for each   *)
(* request with inputs out of every output, and none at all without outputs. *)
Answer(w) ==
  LET b == worker[w].items IN
  /\ worker[w].at = "sending"
  /\ \/ Finish(w, Answered(b) \cup Invalid(b)) /\ UNCHANGED blank
     \/ Finish(w, Invalid(b)) /\ blank' = blank \cup Answered(b)
  /\ UNCHANGED <<input, queueIn, queueOut, unfinishedOut, sink, output, job>>

(* It answers something postprocess_items cannot take apart: the exception *)
(* is caught, and the name it left unbound raises another one.             *)
AnswerMalformed(w) ==
  /\ worker[w].at = "sending"
  /\ Discard(w, worker[w].items)
  /\ UNCHANGED <<input, queueIn, queueOut, unfinishedOut, sink, output, blank, job>>

(* Mutant: one attempt too many. *)
AttemptOnceMore(w) ==
  LET b == worker[w].items
      n == worker[w].tries + 1
  IN  IF n > Retries
      THEN Finish(w, Indices(b) \cup Invalid(b))
      ELSE /\ worker' = [worker EXCEPT ![w] = [@ EXCEPT !.at = "retrying", !.tries = n]]
           /\ UNCHANGED <<unfinishedIn, reported>>

(* An error, a lost connection or a timeout.  The last one is the result.  *)
Attempt(w) ==
  LET b == worker[w].items
      n == worker[w].tries + 1
  IN  IF n = Retries
      THEN Finish(w, Indices(b) \cup Invalid(b))
      ELSE /\ worker' = [worker EXCEPT ![w] = [@ EXCEPT !.at = "retrying", !.tries = n]]
           /\ UNCHANGED <<unfinishedIn, reported>>

FailAttempt(w) ==
  /\ worker[w].at = "sending"
  /\ Attempt(w)
  /\ UNCHANGED <<input, queueIn, queueOut, unfinishedOut, sink, output, blank, job>>

Retry(w) ==
  /\ worker[w].at = "retrying"
  /\ worker' = [worker EXCEPT ![w].at = "sending"]
  /\ UNCHANGED <<input, queueIn, unfinishedIn, queueOut, unfinishedOut, finalizer, job>>

(* The put may wait for a place; task_done follows it in the same step. *)
PutResult(w) ==
  /\ worker[w].at = "putting" /\ Len(queueOut) < MaxQueue
  /\ queueOut' = Append(queueOut, worker[w].result)
  /\ unfinishedOut' = unfinishedOut + 1
  /\ unfinishedIn' = unfinishedIn - 1
  /\ worker' = [worker EXCEPT ![w] = Idle]
  /\ UNCHANGED <<input, queueIn, finalizer, job>>

-----------------------------------------------------------------------------
(* finalize                                                                 *)

OpenOutput ==
  /\ sink.at = "opening" /\ job \notin {"ended", "failed"}
  /\ \E at \in {"idle", "dead"} : sink' = [sink EXCEPT !.at = at]
  /\ UNCHANGED <<input, queueIn, unfinishedIn, worker, queueOut, unfinishedOut, output, reported, blank, job>>

TakeResult ==
  /\ sink.at = "idle" /\ queueOut # <<>> /\ job \notin {"ended", "failed"}
  /\ sink' = [at |-> "writing", items |-> Head(queueOut)]
  /\ queueOut' = Tail(queueOut)
  /\ UNCHANGED <<input, queueIn, unfinishedIn, worker, unfinishedOut, output, reported, blank, job>>

(* A write that fails is logged, and the next record is written. *)
Write(bad) ==
  /\ output' = [l \in Lines |-> output[l] + IF l \in sink.items \ bad THEN 1 ELSE 0]
  /\ reported' = reported \cup bad

WriteResult ==
  /\ sink.at = "writing" /\ job \notin {"ended", "failed"}
  /\ \E bad \in SUBSET sink.items : Write(bad)
  /\ sink' = [at |-> "idle", items |-> {}]
  /\ unfinishedOut' = unfinishedOut - 1
  /\ UNCHANGED <<input, queueIn, unfinishedIn, worker, queueOut, blank, job>>

-----------------------------------------------------------------------------
(* process_batch, after produce: two joins, then the tasks are cancelled.   *)

(* Mutant: only the queue of results is joined. *)
JoinInputAtOnce ==
  /\ job = "joining input"
  /\ job' = "joining output"
  /\ UNCHANGED <<input, queueIn, unfinishedIn, worker, queueOut, unfinishedOut, finalizer>>

JoinInput ==
  /\ job = "joining input" /\ unfinishedIn = 0
  /\ job' = "joining output"
  /\ UNCHANGED <<input, queueIn, unfinishedIn, worker, queueOut, unfinishedOut, finalizer>>

(* A consumer is cancelled wherever it is, with what it holds. *)
JoinOutput ==
  /\ job = "joining output" /\ unfinishedOut = 0
  /\ worker' = [w \in Workers |-> [worker[w] EXCEPT !.at = "cancelled"]]
  /\ job' = "stopping"
  /\ UNCHANGED <<input, queueIn, unfinishedIn, queueOut, unfinishedOut, finalizer>>

(* The finalizer is cancelled and awaited: if it could not open the file,  *)
(* its error comes out here, and only here.                                *)
Stop ==
  /\ job = "stopping"
  /\ job' = IF sink.at = "dead" THEN "failed" ELSE "ended"
  /\ UNCHANGED <<input, queueIn, unfinishedIn, worker, queueOut, unfinishedOut, finalizer>>

Produce == ReadLine \/ PutBatch \/ FinishProducing
Reply(w) == Answer(w) \/ AnswerMalformed(w) \/ FailAttempt(w)
Consume(w) == TakeBatch(w) \/ Reply(w) \/ Retry(w) \/ PutResult(w)
Finalize == OpenOutput \/ TakeResult \/ WriteResult
Join == JoinInput \/ JoinOutput \/ Stop

Next == Produce \/ (\E w \in Workers : Consume(w)) \/ Finalize \/ Join

(* The event loop runs every task that can run; the server answers, or the *)
(* client's timeout does.  Nothing says which of the two.                  *)
Fairness ==
  /\ WF_vars(Produce)
  /\ \A w \in Workers : WF_vars(Consume(w))
  /\ WF_vars(Finalize)
  /\ WF_vars(Join)

Spec == Init /\ [][Next]_vars /\ Fairness

-----------------------------------------------------------------------------
Places == {"idle", "sending", "retrying", "putting", "cancelled"}

WorkerStates == [at : Places, items : SUBSET Lines, tries : 0..Retries, result : SUBSET Lines]

Shapes ==
  /\ file \in Files /\ read \in 0..Len(file)
  /\ batch \subseteq Lines /\ Cardinality(batch) =< BatchSize
  /\ queueIn \in Seq(SUBSET Lines) /\ Len(queueIn) =< MaxQueue
  /\ worker \in [Workers -> WorkerStates]
  /\ \A w \in Workers : worker[w].at \in {"sending", "retrying"} => worker[w].tries < Retries
  /\ queueOut \in Seq(SUBSET Lines) /\ Len(queueOut) =< MaxQueue
  /\ sink \in [at : {"opening", "idle", "writing", "dead"}, items : SUBSET Lines]
  /\ output \in [Lines -> Nat]
  /\ reported \subseteq Lines /\ blank \subseteq Lines
  /\ job \in {"producing", "joining input", "joining output", "stopping", "ended", "failed"}

(* Types, and the limits of the code: both queues stay within twice the    *)
(* workers, no batch is sent more often than --retries says, and task_done *)
(* is never called more often than put (asyncio would raise ValueError).   *)
TypeOK == Shapes /\ unfinishedIn \in Nat /\ unfinishedOut \in Nat

(* The batch that produce made line l part of. *)
BatchOf(l) == {k \in Lines : (k - 1) \div BatchSize = (l - 1) \div BatchSize}

(* Lines the code drops without a word: a request that shares its id with a *)
(* later one of its batch, one without inputs, and those of a batch that    *)
(* the server answers without outputs.                                      *)
Unaccounted ==
  {l \in Lines : l \notin Answered(BatchOf(l)) \cup Invalid(BatchOf(l))} \cup blank

(* When process_batch returns, every line of the input has one record in    *)
(* the output or an error in the log, never both and never two, except the  *)
(* unaccounted ones, which have at most one: the joins, the cancellations,  *)
(* the retries and the errors between them lose and repeat nothing.         *)
EachLineOnce ==
  job = "ended" =>
    \A l \in Lines :
      LET n == output[l] + IF l \in reported THEN 1 ELSE 0 IN
      n = 1 \/ (n = 0 /\ l \in Unaccounted)

(* Once the consumers are cancelled, none of them holds a batch, both queues *)
(* are empty and the finalizer has written what it took: the counts that    *)
(* join() waits for really cover everything under way.                      *)
StopLosesNothing ==
  job \in {"stopping", "ended"} =>
    /\ queueIn = <<>> /\ queueOut = <<>> /\ batch = {}
    /\ \A w \in Workers : worker[w].items = {}
    /\ sink.items = {}

Busy == {w \in Workers : worker[w].items # {}}

(* Why: the counts are those of what is queued or in some task's hands, and *)
(* each stage of process_batch leaves the one before it empty for good.     *)
JoinsCount ==
  /\ unfinishedIn = Len(queueIn) + Cardinality(Busy)
  /\ unfinishedOut = Len(queueOut) + IF sink.at = "writing" THEN 1 ELSE 0
  /\ \A i \in 1..Len(queueIn) : queueIn[i] # {}
  /\ \A w \in Workers : worker[w].at # "cancelled" => (worker[w].at = "idle" <=> worker[w].items = {})
  /\ sink.at # "writing" => sink.items = {}
  /\ job # "producing" => batch = {}
  /\ job \notin {"producing", "joining input"} => queueIn = <<>> /\ Busy = {}
  /\ job \in {"stopping", "ended", "failed"} => queueOut = <<>> /\ sink.at # "writing"

(* The job comes to its end whatever the server answers and however often  *)
(* both queues fill up, unless the output file could not be opened: then    *)
(* nobody takes the results, and it ends only if there are none.            *)
JobEnds == <>(job = "ended" \/ sink.at = "dead")
=============================================================================
