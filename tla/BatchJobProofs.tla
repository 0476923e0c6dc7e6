--------------------------- MODULE BatchJobProofs ---------------------------
(* Proofs about BatchJob, for any files, workers, batch size and retries:   *)
(* its types and bounds, and that stopping the job loses nothing.           *)
EXTENDS BatchJob, FiniteSetTheorems, TLAPS

(* asyncio.Queue(2 * workers): the limit of both queues is a number.        *)
LEMMA QueueLimit == MaxQueue \in Nat
BY WorkerAssumption, FS_CardinalityType DEF MaxQueue

(* The lines of any file are finitely many, and so are those of a batch.    *)
LEMMA FiniteLines ==
  ASSUME file \in Files
  PROVE  /\ Len(file) \in Nat
         /\ IsFiniteSet(Lines)
<1>1. Len(file) \in Nat
  BY FileAssumption
<1> QED  BY <1>1, FS_Interval DEF Lines

(* A line read is at most one line more in the batch of produce.            *)
LEMMA BatchGrows ==
  ASSUME Shapes, NEW l, Cardinality(batch) < BatchSize
  PROVE  Cardinality(batch \cup {l}) =< BatchSize
<1>1. IsFiniteSet(batch)
  BY FiniteLines, FS_Subset DEF Shapes
<1>2. Cardinality(batch) \in Nat
  BY <1>1, FS_CardinalityType
<1>3. Cardinality(batch \cup {l}) \in {Cardinality(batch), Cardinality(batch) + 1}
  BY <1>1, FS_AddElement
<1> QED  BY <1>2, <1>3, SizeAssumption

(* A worker with nothing to do, as it starts and after each batch.          *)
LEMMA IdleTyping ==
  /\ Idle \in WorkerStates
  /\ Idle.items = {} /\ Idle.at = "idle"
BY SizeAssumption DEF Idle, WorkerStates, Places

(* A consumer's state, its count of attempts below the retries.             *)
Kept(s) == s \in WorkerStates /\ (s.at \in {"sending", "retrying"} => s.tries < Retries)

(* A step that gives one consumer such a state keeps the types of all.      *)
LEMMA KeptTyping ==
  ASSUME Shapes, NEW w \in Workers, NEW s, Kept(s), worker' = [worker EXCEPT ![w] = s],
         UNCHANGED file
  PROVE  /\ (worker \in [Workers -> WorkerStates])'
         /\ \A v \in Workers : worker'[v].at \in {"sending", "retrying"} => worker'[v].tries < Retries
BY DEF Shapes, Kept, WorkerStates, Lines

(* consume drops a batch: the worker is idle, its lines are in the log.     *)
LEMMA DiscardKeeps ==
  ASSUME Shapes, NEW w \in Workers, Discard(w, worker[w].items)
  PROVE  /\ Kept(Idle) /\ worker' = [worker EXCEPT ![w] = Idle]
         /\ reported' \subseteq Lines
BY IdleTyping DEF Shapes, Discard, Kept, WorkerStates

(* process_items has a result for some lines of the file.                   *)
LEMMA FinishKeeps ==
  ASSUME Shapes, NEW w \in Workers, NEW lines, lines \subseteq Lines, Finish(w, lines)
  PROVE  /\ \E s : Kept(s) /\ worker' = [worker EXCEPT ![w] = s]
         /\ reported' \subseteq Lines
<1>1. worker[w] \in WorkerStates
  BY DEF Shapes
<1>2. Kept([worker[w] EXCEPT !.at = "putting", !.result = lines])
  BY <1>1 DEF Kept, WorkerStates, Places
<1> QED  BY <1>2 DEF Finish, Shapes

(* send_requests counts an attempt that failed, or gives up at the last.    *)
LEMMA AttemptKeeps ==
  ASSUME Shapes, NEW w \in Workers, worker[w].at = "sending", Attempt(w)
  PROVE  /\ \E s : Kept(s) /\ worker' = [worker EXCEPT ![w] = s]
         /\ reported' \subseteq Lines
<1> DEFINE b == worker[w].items
           n == worker[w].tries + 1
<1>1. CASE n = Retries
  <2>1. Indices(b) \cup Invalid(b) \subseteq Lines
    BY DEF Shapes, WorkerStates, Indices, Invalid
  <2>2. Finish(w, Indices(b) \cup Invalid(b))
    BY <1>1 DEF Attempt
  <2> QED  BY <2>1, <2>2, FinishKeeps
<1>2. CASE n # Retries
  <2>0. worker[w] \in WorkerStates /\ worker[w].tries < Retries
    BY DEF Shapes
  <2>3. worker[w].tries \in 0..Retries
    BY <2>0 DEF WorkerStates
  <2>1. worker[w] \in WorkerStates /\ n \in 0..Retries /\ n < Retries
    BY <1>2, <2>0, <2>3, SizeAssumption
  <2>2. Kept([worker[w] EXCEPT !.at = "retrying", !.tries = n])
    BY <2>1 DEF Kept, WorkerStates, Places
  <2> QED  BY <1>2, <2>2 DEF Attempt, Shapes
<1> QED  BY <1>1, <1>2

-----------------------------------------------------------------------------
(* The job starts with empty queues, idle workers and nothing read.         *)
LEMMA ShapesInit == Init => Shapes
<1> SUFFICES ASSUME Init PROVE Shapes
  OBVIOUS
<1>1. Len(file) \in Nat /\ read \in 0..Len(file)
  BY FiniteLines DEF Init
<1>2. Cardinality(batch) =< BatchSize
  BY FS_EmptySet, SizeAssumption DEF Init
<1> QED  BY <1>1, <1>2, IdleTyping, QueueLimit DEF Init, Shapes

(* While the file is the same, so are its lines and what is made of them.   *)
LEMMA SameFile ==
  ASSUME UNCHANGED file
  PROVE  Lines' = Lines /\ WorkerStates' = WorkerStates /\ MaxQueue' = MaxQueue
BY DEF Lines, WorkerStates, MaxQueue, Places

(* Taking the first batch off a queue leaves a queue within its limit.      *)
LEMMA TakeTyping ==
  ASSUME NEW S, NEW q \in Seq(S), Len(q) =< MaxQueue, q # <<>>
  PROVE  Head(q) \in S /\ Tail(q) \in Seq(S) /\ Len(Tail(q)) = Len(q) - 1 /\ Len(Tail(q)) =< MaxQueue
BY QueueLimit

(* Every step of produce, of the finalizer and of process_batch keeps the   *)
(* types and the limits of the queues.                                      *)
LEMMA ShapesOfTheRest ==
  ASSUME Shapes, Produce \/ Finalize \/ Join
  PROVE  Shapes'
<1> USE DEF Shapes
<1>l. file' = file /\ Lines' = Lines /\ WorkerStates' = WorkerStates /\ MaxQueue' = MaxQueue
  BY SameFile DEF Produce, ReadLine, PutBatch, FinishProducing, Finalize, OpenOutput, TakeResult, WriteResult,
         Join, JoinInput, JoinOutput, Stop, input, Lines
<1>1. CASE ReadLine
  <2>1. Len(file) \in Nat /\ read' \in 1..Len(file)
    BY <1>1, FiniteLines DEF ReadLine
  <2>2. Cardinality(batch') =< BatchSize
    BY <1>1, BatchGrows DEF ReadLine
  <2>3. read' \in 0..Len(file') /\ batch' \subseteq Lines'
    BY <1>l, <1>1, <2>1 DEF ReadLine, Lines
  <2>4. UNCHANGED <<queueIn, worker, queueOut, sink, output, reported, blank, job>>
    BY <1>1 DEF ReadLine, finalizer
  <2> QED  BY <1>l, <2>2, <2>3, <2>4
<1>2. CASE PutBatch
  <2>1. queueIn' \in Seq(SUBSET Lines) /\ Len(queueIn') =< MaxQueue
    BY <1>2, QueueLimit DEF PutBatch
  <2>2. Cardinality(batch') =< BatchSize
    BY <1>2, FS_EmptySet, SizeAssumption DEF PutBatch
  <2>3. batch' \subseteq Lines /\ UNCHANGED <<read, worker, queueOut, sink, output, reported, blank, job>>
    BY <1>2 DEF PutBatch, finalizer
  <2> QED  BY <1>l, <2>1, <2>2, <2>3
<1>3. CASE FinishProducing
  BY <1>l, <1>3 DEF FinishProducing, input, finalizer
<1>4. CASE OpenOutput
  BY <1>l, <1>4 DEF OpenOutput, input
<1>5. CASE TakeResult
  <2>1. Head(queueOut) \in SUBSET Lines /\ Tail(queueOut) \in Seq(SUBSET Lines)
        /\ Len(Tail(queueOut)) =< MaxQueue
    BY <1>5, TakeTyping DEF TakeResult
  <2> QED  BY <1>l, <1>5, <2>1 DEF TakeResult, input
<1>6. CASE WriteResult
  <2>1. PICK bad \in SUBSET sink.items : Write(bad)
    BY <1>6 DEF WriteResult
  <2>2. reported' \subseteq Lines
    BY <2>1 DEF Write
  <2>3. output' \in [Lines -> Nat]
    <3> DEFINE more(l) == IF l \in sink.items \ bad THEN 1 ELSE 0
    <3>1. \A l \in Lines : more(l) \in Nat
      OBVIOUS
    <3>2. output' = [l \in Lines |-> output[l] + more(l)]
      BY <2>1 DEF Write
    <3>3. output \in [Lines -> Nat]
      OBVIOUS
    <3> HIDE DEF more, Shapes
    <3> QED  BY <3>1, <3>2, <3>3
  <2> QED  BY <1>l, <1>6, <2>2, <2>3 DEF WriteResult, input
<1>7. CASE JoinInput \/ Stop
  BY <1>l, <1>7 DEF JoinInput, Stop, input, finalizer
<1>8. CASE JoinOutput
  <2>1. /\ worker' \in [Workers -> WorkerStates]
        /\ \A w \in Workers : worker'[w].at = "cancelled"
    BY <1>8 DEF JoinOutput, WorkerStates, Places
  <2> QED  BY <1>l, <1>8, <2>1 DEF JoinOutput, input, finalizer
<1> QED  BY <1>1, <1>2, <1>3, <1>4, <1>5, <1>6, <1>7, <1>8 DEF Produce, Finalize, Join

(* The steps of a worker keep the types: what it takes and what it makes of *)
(* it are lines of the file, and the queues stay within their limit.        *)
LEMMA ShapesOfConsume ==
  ASSUME Shapes, NEW w \in Workers, Consume(w)
  PROVE  Shapes'
<1>l. file' = file /\ Lines' = Lines /\ WorkerStates' = WorkerStates /\ MaxQueue' = MaxQueue
  BY SameFile DEF Consume, Reply, TakeBatch, Answer, AnswerMalformed, FailAttempt, Retry, PutResult, input
<1>s. UNCHANGED <<read, batch, sink, output, job>>
  BY DEF Consume, Reply, TakeBatch, Answer, AnswerMalformed, FailAttempt, Retry, PutResult, input, finalizer
<1>b. blank' \subseteq Lines'
  <2>1. Answered(worker[w].items) \subseteq Lines
    BY DEF Shapes, WorkerStates, Answered, Indices, Invalid
  <2>2. blank' \subseteq blank \cup Answered(worker[w].items)
    BY DEF Consume, Reply, TakeBatch, Answer, AnswerMalformed, FailAttempt, Retry, PutResult, finalizer
  <2> QED  BY <1>l, <2>1, <2>2 DEF Shapes
<1>1. SUFFICES /\ \E s : Kept(s) /\ worker' = [worker EXCEPT ![w] = s]
               /\ reported' \subseteq Lines
               /\ queueIn' \in Seq(SUBSET Lines) /\ Len(queueIn') =< MaxQueue
               /\ queueOut' \in Seq(SUBSET Lines) /\ Len(queueOut') =< MaxQueue
  <2>1. PICK s : Kept(s) /\ worker' = [worker EXCEPT ![w] = s]
    BY <1>1
  <2>2. /\ worker' \in [Workers -> WorkerStates']
        /\ \A v \in Workers : worker'[v].at \in {"sending", "retrying"} => worker'[v].tries < Retries
    BY <1>l, <2>1, KeptTyping
  <2>3. /\ file' \in Files /\ read' \in 0..Len(file')
        /\ batch' \subseteq Lines' /\ Cardinality(batch') =< BatchSize
        /\ sink' \in [at : {"opening", "idle", "writing", "dead"}, items : SUBSET Lines']
        /\ output' \in [Lines' -> Nat]
        /\ job' \in {"producing", "joining input", "joining output", "stopping", "ended", "failed"}
    BY <1>l, <1>s DEF Shapes
  <2> QED  BY <1>1, <1>b, <1>l, <2>2, <2>3 DEF Shapes
<1>t. worker[w] \in WorkerStates
  BY DEF Shapes
<1>2. CASE TakeBatch(w)
  <2> DEFINE b == Head(queueIn)
  <2>1. b \in SUBSET Lines /\ queueIn' \in Seq(SUBSET Lines) /\ Len(queueIn') =< MaxQueue
    BY <1>2, TakeTyping DEF TakeBatch, Shapes
  <2>2. \E s : Kept(s) /\ worker' = [worker EXCEPT ![w] = s]
    <3> HIDE DEF b
    <3>1. Kept([Idle EXCEPT !.at = "putting", !.items = b, !.result = b])
      BY <2>1, IdleTyping DEF Kept, WorkerStates, Places
    <3>2. Retries > 0 => Kept([Idle EXCEPT !.at = "sending", !.items = b])
      BY <2>1, IdleTyping DEF Kept, WorkerStates, Places, Idle
    <3>3. Kept(Idle)
      BY IdleTyping DEF Kept
    <3> QED  BY <1>2, <3>1, <3>2, <3>3 DEF TakeBatch, Discard, b
  <2>3. reported' \subseteq Lines
    BY <1>2, <2>1 DEF TakeBatch, Discard, Shapes
  <2> QED  BY <1>2, <2>1, <2>2, <2>3 DEF TakeBatch, Shapes
<1>3. CASE Answer(w)
  <2>1. Answered(worker[w].items) \cup Invalid(worker[w].items) \subseteq Lines
    BY <1>t DEF WorkerStates, Answered, Indices, Invalid
  <2>2. Finish(w, Answered(worker[w].items) \cup Invalid(worker[w].items)) \/ Finish(w, Invalid(worker[w].items))
    BY <1>3 DEF Answer
  <2>3. /\ \E s : Kept(s) /\ worker' = [worker EXCEPT ![w] = s]
        /\ reported' \subseteq Lines
    BY <2>1, <2>2, FinishKeeps
  <2> QED  BY <1>3, <2>3 DEF Answer, Shapes
<1>4. CASE AnswerMalformed(w)
  BY <1>4, DiscardKeeps DEF AnswerMalformed, Shapes
<1>5. CASE FailAttempt(w)
  BY <1>5, AttemptKeeps DEF FailAttempt, Shapes
<1>6. CASE Retry(w)
  <2>1. Kept([worker[w] EXCEPT !.at = "sending"])
    BY <1>6, <1>t DEF Retry, Shapes, Kept, WorkerStates, Places
  <2> QED  BY <1>6, <2>1 DEF Retry, Shapes, finalizer
<1>7. CASE PutResult(w)
  <2>1. Kept(Idle)
    BY IdleTyping DEF Kept
  <2>2. worker[w].result \in SUBSET Lines
    BY <1>t DEF WorkerStates
  <2>3. queueOut' \in Seq(SUBSET Lines) /\ Len(queueOut') =< MaxQueue
    <3>1. queueOut \in Seq(SUBSET Lines) /\ Len(queueOut) < MaxQueue
      BY <1>7 DEF PutResult, Shapes
    <3>2. queueOut' = Append(queueOut, worker[w].result)
      BY <1>7 DEF PutResult
    <3> QED  BY <2>2, <3>1, <3>2, QueueLimit
  <2> QED  BY <1>7, <2>1, <2>3 DEF PutResult, Shapes, finalizer
<1> QED  BY <1>2, <1>3, <1>4, <1>5, <1>6, <1>7 DEF Consume, Reply
-----------------------------------------------------------------------------
(* The workers with a batch are finitely many, and one that takes a batch   *)
(* or lets go of it is one more or one less.                                *)
LEMMA BusyCount ==
  /\ IsFiniteSet(Busy) /\ Cardinality(Busy) \in Nat
  /\ \A w \in Workers : w \notin Busy => Cardinality(Busy \cup {w}) = Cardinality(Busy) + 1
  /\ \A w \in Busy : Cardinality(Busy \ {w}) = Cardinality(Busy) - 1
<1>1. IsFiniteSet(Busy)
  BY WorkerAssumption, FS_Subset DEF Busy
<1> QED  BY <1>1, FS_CardinalityType, FS_AddElement, FS_RemoveElement

(* Nothing is counted yet, and nothing is there to be counted.              *)
LEMMA JoinsCountInit == Init => JoinsCount
<1> SUFFICES ASSUME Init PROVE JoinsCount
  OBVIOUS
<1>1. Busy = {}
  BY IdleTyping DEF Init, Busy
<1> QED  BY <1>1, IdleTyping, FS_EmptySet DEF Init, JoinsCount

(* produce adds batches that are not empty, and leaves none behind; the     *)
(* finalizer's count follows its hands; each join waits for its count.      *)
LEMMA JoinsCountOfTheRest ==
  ASSUME Shapes, JoinsCount, Produce \/ Finalize \/ Join
  PROVE  JoinsCount'
<1> DEFINE held == IF sink.at = "writing" THEN 1 ELSE 0
<1>q. queueIn \in Seq(SUBSET Lines) /\ queueOut \in Seq(SUBSET Lines)
  BY DEF Shapes
<1>h. held \in Nat /\ (held = 0 <=> sink.at # "writing")
  OBVIOUS
<1>u. unfinishedIn = Len(queueIn) + Cardinality(Busy) /\ unfinishedOut = Len(queueOut) + held
  BY DEF JoinsCount
<1>n. /\ Len(queueIn) \in Nat /\ Len(queueOut) \in Nat /\ Cardinality(Busy) \in Nat
      /\ unfinishedIn = 0 => Len(queueIn) = 0 /\ Cardinality(Busy) = 0
      /\ unfinishedOut = 0 => Len(queueOut) = 0 /\ held = 0
  <2> HIDE DEF held
  <2>1. Len(queueIn) \in Nat /\ Len(queueOut) \in Nat /\ Cardinality(Busy) \in Nat
    BY <1>q, BusyCount
  <2> QED  BY <1>u, <1>h, <2>1
<1>1. CASE ReadLine
  <2>1. Busy' = Busy
    BY <1>1 DEF ReadLine, Busy
  <2> QED  BY <1>1, <2>1 DEF ReadLine, finalizer, JoinsCount
<1>2. CASE PutBatch
  <2>1. Busy' = Busy
    BY <1>2 DEF PutBatch, Busy
  <2>2. /\ queueIn' = Append(queueIn, batch) /\ batch # {} /\ job = "producing"
        /\ unfinishedIn' = unfinishedIn + 1 /\ batch' = {}
        /\ UNCHANGED <<worker, queueOut, unfinishedOut, sink, job>>
    BY <1>2 DEF PutBatch, finalizer
  <2>3. queueIn \in Seq(SUBSET Lines) /\ batch \in SUBSET Lines
    BY DEF Shapes
  <2>4. /\ Len(queueIn') = Len(queueIn) + 1
        /\ \A i \in 1..Len(queueIn') : queueIn'[i] # {}
    BY <2>2, <2>3 DEF JoinsCount
  <2>5. unfinishedIn' = Len(queueIn') + Cardinality(Busy')
    BY <1>n, <1>u, <2>1, <2>2, <2>4
  <2> QED  BY <2>1, <2>2, <2>4, <2>5 DEF JoinsCount
<1>3. CASE FinishProducing
  <2>1. Busy' = Busy
    BY <1>3 DEF FinishProducing, Busy
  <2> QED  BY <1>3, <2>1 DEF FinishProducing, input, finalizer, JoinsCount
<1>4. CASE OpenOutput
  <2>1. Busy' = Busy
    BY <1>4 DEF OpenOutput, Busy
  <2>2. sink'.at # "writing" /\ sink.at # "writing" /\ sink'.items = sink.items
    BY <1>4 DEF OpenOutput, Shapes
  <2> QED  BY <1>4, <2>1, <2>2 DEF OpenOutput, input, JoinsCount
<1>5. CASE TakeResult
  <2>1. Busy' = Busy
    BY <1>5 DEF TakeResult, Busy
  <2>2. sink.at = "idle" /\ sink'.at = "writing" /\ queueOut # <<>> /\ queueOut' = Tail(queueOut)
        /\ UNCHANGED <<batch, queueIn, unfinishedIn, worker, unfinishedOut, job>>
    BY <1>5 DEF TakeResult, input
  <2>3. unfinishedOut' = Len(queueOut') + 1
    BY <1>q, <1>u, <2>2
  <2>4. /\ unfinishedIn' = Len(queueIn') + Cardinality(Busy')
        /\ job' \notin {"stopping", "ended", "failed"}
    BY <2>1, <2>2 DEF JoinsCount
  <2> QED  BY <2>1, <2>2, <2>3, <2>4 DEF JoinsCount
<1>6. CASE WriteResult
  <2>1. Busy' = Busy
    BY <1>6 DEF WriteResult, Busy
  <2>2. sink.at = "writing" /\ sink'.at = "idle" /\ sink'.items = {} /\ unfinishedOut' = unfinishedOut - 1
    BY <1>6 DEF WriteResult
  <2>3. UNCHANGED <<batch, queueIn, unfinishedIn, worker, queueOut, job>>
    BY <1>6 DEF WriteResult, input
  <2>4. unfinishedOut' = Len(queueOut') + 0
    BY <1>n, <1>u, <2>2, <2>3
  <2> QED  BY <2>1, <2>2, <2>3, <2>4 DEF JoinsCount
<1>7. CASE JoinInput
  <2>1. Busy' = Busy /\ Len(queueIn) = 0 /\ Cardinality(Busy) = 0
    BY <1>7, <1>n DEF JoinInput, Busy
  <2>2. Busy = {} /\ queueIn = <<>>
    BY <1>q, <2>1, BusyCount, FS_EmptySet
  <2> QED  BY <1>7, <2>1, <2>2 DEF JoinInput, input, finalizer, JoinsCount
<1>8. CASE JoinOutput
  <2>1. /\ \A w \in Workers : worker'[w].items = worker[w].items /\ worker'[w].at = "cancelled"
        /\ Busy' = Busy
    BY <1>8 DEF JoinOutput, Busy, Shapes, WorkerStates
  <2>2. Len(queueOut) = 0 /\ held = 0
    BY <1>8, <1>n DEF JoinOutput
  <2>3. queueOut = <<>> /\ sink.at # "writing"
    BY <1>q, <1>h, <2>2
  <2> QED  BY <1>8, <2>1, <2>3 DEF JoinOutput, input, finalizer, JoinsCount
<1>9. CASE Stop
  <2>1. Busy' = Busy
    BY <1>9 DEF Stop, Busy
  <2> QED  BY <1>9, <2>1 DEF Stop, input, finalizer, JoinsCount
<1> QED  BY <1>1, <1>2, <1>3, <1>4, <1>5, <1>6, <1>7, <1>8, <1>9 DEF Produce, Finalize, Join

(* A worker counts for as long as it holds a batch: from the get until the  *)
(* task_done, which comes in the step that lets go of it.                   *)
LEMMA JoinsCountOfConsume ==
  ASSUME Shapes, JoinsCount, NEW w \in Workers, Consume(w)
  PROVE  JoinsCount'
<1>q. queueIn \in Seq(SUBSET Lines) /\ queueOut \in Seq(SUBSET Lines) /\ worker \in [Workers -> WorkerStates]
  BY DEF Shapes
<1>u. /\ unfinishedIn = Len(queueIn) + Cardinality(Busy) /\ Cardinality(Busy) \in Nat
      /\ Len(queueIn) \in Nat /\ Len(queueOut) \in Nat
      /\ unfinishedOut = Len(queueOut) + IF sink.at = "writing" THEN 1 ELSE 0
  <2>1. Len(queueIn) \in Nat /\ Len(queueOut) \in Nat
    BY <1>q
  <2> QED  BY <2>1, BusyCount DEF JoinsCount
<1>s. UNCHANGED <<batch, sink, job>>
  BY DEF Consume, Reply, TakeBatch, Answer, AnswerMalformed, FailAttempt, Retry, PutResult, input, finalizer
<1>f. worker[w].at # "cancelled" /\ (worker[w].at = "idle" => queueIn # <<>>)
  BY DEF Consume, Reply, TakeBatch, Answer, AnswerMalformed, FailAttempt, Retry, PutResult
<1>j. job \in {"producing", "joining input"}
  BY <1>f DEF Shapes, JoinsCount, Busy
(* What there is to show of a step, on the queues and on the worker itself. *)
<1>1. ASSUME unfinishedIn' = Len(queueIn') + Cardinality(Busy'),
             \/ UNCHANGED <<queueOut, unfinishedOut>>
             \/ \E r : queueOut' = Append(queueOut, r) /\ unfinishedOut' = unfinishedOut + 1,
             \A i \in 1..Len(queueIn') : queueIn'[i] # {},
             NEW s \in WorkerStates, worker' = [worker EXCEPT ![w] = s], s.at = "idle" <=> s.items = {}
      PROVE  JoinsCount'
  <2>1. \A v \in Workers : worker'[v].at # "cancelled" => (worker'[v].at = "idle" <=> worker'[v].items = {})
    BY <1>q, <1>1 DEF JoinsCount
  <2>2. unfinishedOut' = Len(queueOut') + IF sink.at = "writing" THEN 1 ELSE 0
    <3>1. CASE UNCHANGED <<queueOut, unfinishedOut>>
      BY <1>u, <3>1
    <3>2. ASSUME NEW r, queueOut' = Append(queueOut, r), unfinishedOut' = unfinishedOut + 1
          PROVE  unfinishedOut' = Len(queueOut') + IF sink.at = "writing" THEN 1 ELSE 0
      <4>1. Len(queueOut') = Len(queueOut) + 1
        BY <1>q, <3>2
      <4> QED  BY <1>u, <3>2, <4>1
    <3> QED  BY <1>1, <3>1, <3>2
  <2> QED  BY <1>1, <1>s, <1>j, <2>1, <2>2 DEF JoinsCount
<1>t. worker[w] \in WorkerStates
  BY <1>q
<1>e. \A i \in 1..Len(queueIn) : queueIn[i] # {}
  BY DEF JoinsCount
<1>2. CASE TakeBatch(w)
  <2> DEFINE b == Head(queueIn)
             sending == [Idle EXCEPT !.at = "sending", !.items = b]
             putting == [Idle EXCEPT !.at = "putting", !.items = b, !.result = b]
  <2>1. queueIn # <<>> /\ queueIn' = Tail(queueIn) /\ worker[w].at = "idle"
        /\ UNCHANGED <<queueOut, unfinishedOut>>
    BY <1>2 DEF TakeBatch
  <2>2. /\ b \in SUBSET Lines /\ b # {} /\ Len(queueIn') = Len(queueIn) - 1
        /\ \A i \in 1..Len(queueIn') : queueIn'[i] # {}
    <3>1. queueIn[1] \in SUBSET Lines /\ queueIn[1] # {} /\ b = queueIn[1]
      BY <1>q, <1>e, <2>1
    <3>2. Len(queueIn') = Len(queueIn) - 1 /\ \A i \in 1..Len(queueIn') : queueIn'[i] = queueIn[i + 1]
      BY <1>q, <2>1
    <3>3. \A i \in 1..Len(queueIn') : i + 1 \in 1..Len(queueIn)
      BY <1>u, <3>2
    <3> QED  BY <1>e, <3>1, <3>2, <3>3
  <2>3. w \notin Busy
    BY <2>1 DEF JoinsCount, Busy
  <2>4. \/ worker' = [worker EXCEPT ![w] = Idle] /\ unfinishedIn' = unfinishedIn - 1
        \/ /\ worker' = [worker EXCEPT ![w] = sending] \/ worker' = [worker EXCEPT ![w] = putting]
           /\ unfinishedIn' = unfinishedIn
    BY <1>2 DEF TakeBatch, Discard
  <2>5. /\ sending \in WorkerStates /\ putting \in WorkerStates
        /\ sending.items = b /\ putting.items = b /\ sending.at # "idle" /\ putting.at # "idle"
    BY <2>2, IdleTyping, SizeAssumption DEF WorkerStates, Places, Idle
  <2> HIDE DEF b, sending, putting
  <2>7. CASE worker' = [worker EXCEPT ![w] = Idle] /\ unfinishedIn' = unfinishedIn - 1
    <3>1. Busy' = Busy
      BY <1>q, <2>3, <2>7, IdleTyping DEF Busy
    <3>2. unfinishedIn' = Len(queueIn') + Cardinality(Busy')
      BY <1>u, <2>2, <2>7, <3>1
    <3> QED  BY <1>1, <2>1, <2>2, <2>7, <3>2, IdleTyping
  <2>8. ASSUME NEW s \in {sending, putting}, worker' = [worker EXCEPT ![w] = s],
               unfinishedIn' = unfinishedIn
        PROVE  /\ unfinishedIn' = Len(queueIn') + Cardinality(Busy')
               /\ s \in WorkerStates /\ (s.at = "idle" <=> s.items = {})
    <3>1. Busy' = Busy \cup {w}
      BY <1>q, <2>2, <2>5, <2>8 DEF Busy
    <3>2. Cardinality(Busy \cup {w}) = Cardinality(Busy) + 1
      BY <2>3, BusyCount
    <3>3. unfinishedIn' = Len(queueIn') + Cardinality(Busy')
      BY <1>u, <2>2, <2>8, <3>1, <3>2
    <3>4. s \in WorkerStates /\ s.at # "idle" /\ s.items = b
      BY <2>5, <2>8
    <3> QED  BY <2>2, <3>3, <3>4
  <2> QED  BY <1>1, <2>1, <2>2, <2>4, <2>7, <2>8, IdleTyping
(* A worker that goes on with its batch changes no count.                   *)
<1>3. ASSUME NEW s, worker' = [worker EXCEPT ![w] = s],
             s \in WorkerStates, s.items = worker[w].items, s.at # "idle", worker[w].at # "idle",
             UNCHANGED <<queueIn, unfinishedIn, queueOut, unfinishedOut>>
      PROVE  JoinsCount'
  <2>1. worker[w].items # {}
    BY <1>f, <1>3 DEF JoinsCount
  <2>2. Busy' = Busy
    BY <1>q, <1>3 DEF Busy
  <2>3. unfinishedIn' = Len(queueIn') + Cardinality(Busy')
    BY <1>u, <1>3, <2>2
  <2> QED  BY <1>1, <1>3, <1>e, <2>1, <2>3
(* One that is done with it is no longer busy, and has called task_done.    *)
<1>4. ASSUME worker' = [worker EXCEPT ![w] = Idle], unfinishedIn' = unfinishedIn - 1,
             worker[w].at # "idle", UNCHANGED queueIn,
             \/ UNCHANGED <<queueOut, unfinishedOut>>
             \/ \E r : queueOut' = Append(queueOut, r) /\ unfinishedOut' = unfinishedOut + 1
      PROVE  JoinsCount'
  <2>1. w \in Busy
    BY <1>f, <1>4 DEF JoinsCount, Busy
  <2>2. Busy' = Busy \ {w}
    BY <1>q, <1>4, IdleTyping DEF Busy
  <2>3. unfinishedIn' = Len(queueIn') + Cardinality(Busy')
    BY <1>u, <1>4, <2>1, <2>2, BusyCount
  <2> QED  BY <1>1, <1>4, <1>e, <2>3, IdleTyping
<1>5. ASSUME NEW lines, lines \subseteq Lines, Finish(w, lines), worker[w].at = "sending",
             UNCHANGED <<queueIn, queueOut, unfinishedOut>>
      PROVE  JoinsCount'
  <2> DEFINE s == [worker[w] EXCEPT !.at = "putting", !.result = lines]
  <2>1. s \in WorkerStates /\ s.items = worker[w].items /\ s.at # "idle"
    BY <1>t, <1>5 DEF WorkerStates, Places
  <2>2. worker' = [worker EXCEPT ![w] = s] /\ UNCHANGED unfinishedIn
    BY <1>5 DEF Finish
  <2> HIDE DEF s
  <2> QED  BY <1>3, <1>5, <2>1, <2>2
<1>6. CASE Answer(w)
  <2>1. Answered(worker[w].items) \cup Invalid(worker[w].items) \subseteq Lines
    BY <1>t DEF WorkerStates, Answered, Indices, Invalid
  <2> QED  BY <1>5, <1>6, <2>1 DEF Answer
<1>7. CASE AnswerMalformed(w)
  BY <1>4, <1>7 DEF AnswerMalformed, Discard
<1>8. CASE FailAttempt(w)
  <2> DEFINE b == worker[w].items
             n == worker[w].tries + 1
             s == [worker[w] EXCEPT !.at = "retrying", !.tries = n]
  <2>1. CASE n = Retries
    <3>1. Indices(b) \cup Invalid(b) \subseteq Lines
      BY <1>t DEF WorkerStates, Indices, Invalid
    <3> QED  BY <1>5, <1>8, <2>1, <3>1 DEF FailAttempt, Attempt
  <2>2. CASE n # Retries
    <3>1. worker[w].tries \in 0..Retries /\ worker[w].tries < Retries
      BY <1>8, <1>t DEF FailAttempt, Shapes, WorkerStates
    <3>2. n \in 0..Retries
      BY <3>1, SizeAssumption
    <3>3. s \in WorkerStates /\ s.items = worker[w].items /\ s.at # "idle"
      BY <1>t, <3>2 DEF WorkerStates, Places
    <3>4. /\ worker' = [worker EXCEPT ![w] = s] /\ worker[w].at = "sending"
          /\ UNCHANGED <<queueIn, unfinishedIn, queueOut, unfinishedOut>>
      BY <1>8, <2>2 DEF FailAttempt, Attempt
    <3> HIDE DEF s
    <3> QED  BY <1>3, <3>3, <3>4
  <2> QED  BY <2>1, <2>2
<1>9. CASE Retry(w)
  <2> DEFINE s == [worker[w] EXCEPT !.at = "sending"]
  <2>1. s \in WorkerStates /\ s.items = worker[w].items /\ s.at # "idle"
    BY <1>t DEF WorkerStates, Places
  <2>2. /\ worker' = [worker EXCEPT ![w] = s] /\ worker[w].at = "retrying"
        /\ UNCHANGED <<queueIn, unfinishedIn, queueOut, unfinishedOut>>
    BY <1>9 DEF Retry
  <2> HIDE DEF s
  <2> QED  BY <1>3, <2>1, <2>2
<1>10. CASE PutResult(w)
  BY <1>4, <1>10 DEF PutResult
<1> QED  BY <1>2, <1>6, <1>7, <1>8, <1>9, <1>10 DEF Consume, Reply
-----------------------------------------------------------------------------
(* The types and the counts are inductive together, for any files, any      *)
(* number of workers and any batch size and retries.                        *)
LEMMA Invariance == Spec => [](Shapes /\ JoinsCount)
<1>1. Init => Shapes /\ JoinsCount
  BY ShapesInit, JoinsCountInit
<1>2. Shapes /\ JoinsCount /\ [Next]_vars => (Shapes /\ JoinsCount)'
  <2> SUFFICES ASSUME Shapes, JoinsCount, [Next]_vars
               PROVE  Shapes' /\ JoinsCount'
    OBVIOUS
  <2>1. CASE Produce \/ Finalize \/ Join
    BY <2>1, ShapesOfTheRest, JoinsCountOfTheRest
  <2>2. ASSUME NEW w \in Workers, Consume(w)
        PROVE  Shapes' /\ JoinsCount'
    BY <2>2, ShapesOfConsume, JoinsCountOfConsume
  <2>3. CASE UNCHANGED vars
    <3>1. /\ UNCHANGED <<file, read, batch, queueIn, unfinishedIn, worker, queueOut, unfinishedOut>>
          /\ UNCHANGED <<sink, output, reported, blank, job>>
      BY <2>3 DEF vars, input, finalizer
    <3>2. Lines' = Lines /\ WorkerStates' = WorkerStates /\ MaxQueue' = MaxQueue /\ Busy' = Busy
      BY <3>1, SameFile DEF Busy
    <3> QED  BY <3>1, <3>2 DEF Shapes, JoinsCount
  <2> QED  BY <2>1, <2>2, <2>3 DEF Next
<1> QED  BY <1>1, <1>2, PTL DEF Spec

(* asyncio.Queue: both queues keep their limit, a batch is sent at most     *)
(* --retries times, and task_done is called no more often than put, which   *)
(* is what lets the counts that join() waits for stay natural numbers.      *)
THEOREM Typing == Spec => []TypeOK
<1>1. Shapes /\ JoinsCount => TypeOK
  <2> SUFFICES ASSUME Shapes, JoinsCount PROVE unfinishedIn \in Nat /\ unfinishedOut \in Nat
    BY DEF TypeOK
  <2>1. queueIn \in Seq(SUBSET Lines) /\ queueOut \in Seq(SUBSET Lines)
    BY DEF Shapes
  <2>2. Len(queueIn) \in Nat /\ Len(queueOut) \in Nat
    BY <2>1
  <2> DEFINE held == IF sink.at = "writing" THEN 1 ELSE 0
  <2>3. held \in Nat /\ unfinishedOut = Len(queueOut) + held
    BY DEF JoinsCount
  <2>4. unfinishedIn = Len(queueIn) + Cardinality(Busy)
    BY DEF JoinsCount
  <2> HIDE DEF held
  <2> QED  BY <2>2, <2>3, <2>4, BusyCount
<1> QED  BY <1>1, Invariance, PTL

(* process_batch: when it cancels the consumers and the finalizer, neither  *)
(* queue nor any of them holds anything.                                    *)
THEOREM StoppingLosesNothing == Spec => []StopLosesNothing
<1>1. Shapes /\ JoinsCount => StopLosesNothing
  BY DEF JoinsCount, Busy, StopLosesNothing
<1> QED  BY <1>1, Invariance, PTL

-----------------------------------------------------------------------------
(* Where each line is: not read yet, in the hands of produce, in the first  *)
(* queue, with a worker, in the second queue, with the finalizer, or done.  *)

LinesOf(q) == UNION {q[i] : i \in 1..Len(q)}
InHand == UNION {worker[w].items : w \in Workers}
Done == {l \in Lines : output[l] > 0} \cup reported
Stations == <<(read + 1)..Len(file), batch, LinesOf(queueIn), InHand, LinesOf(queueOut), sink.items, Done>>

DisjointIn(q) == \A i, j \in 1..Len(q) : i # j => q[i] \cap q[j] = {}

(* A batch that is put is all of one, whichever of its lines one looks at.  *)
Whole(b) == \A l \in b : BatchOf(l) = b
(* produce puts the lines since the last full batch, or the rest of them.   *)
Pending ==
  \/ batch = {} /\ read = Len(file)
  \/ \E c \in Nat : BatchSize * c =< read /\ batch = (BatchSize * c + 1)..read

(* Each line is in one place, unless it is one of the unaccounted, ...      *)
Parted(S) == \A i, j \in 1..7 : i # j => S[i] \cap S[j] = {}
InOnePlace ==
  /\ Parted(Stations)
  /\ \A l \in Lines : l \in Unaccounted \/ \E i \in 1..7 : l \in Stations[i]

(* ... and in one batch there; what is done has one record or one error.    *)
LinesInv ==
  /\ InOnePlace
  /\ DisjointIn(queueIn) /\ DisjointIn(queueOut)
  /\ \A v, w \in Workers : v # w => worker[v].items \cap worker[w].items = {}
  /\ \A i \in 1..Len(queueIn) : Whole(queueIn[i])
  /\ \A w \in Workers : Whole(worker[w].items)
  /\ \A w \in Workers : worker[w].at = "putting" =>
       /\ worker[w].result \subseteq worker[w].items
       /\ worker[w].items \ worker[w].result \subseteq Unaccounted
  /\ \A l \in Lines : output[l] =< 1 /\ (output[l] = 1 => l \notin reported)
  /\ Pending
  /\ job # "producing" => read = Len(file)

(* Lines that go from one place to another are still in one, or are dropped. *)
Moved(S, T, i, j, b, c) ==
  \A p \in 1..7 : T[p] = IF p = i THEN S[p] \ b ELSE IF p = j THEN S[p] \cup c ELSE S[p]

StillThere(S, T, gone) == \A p \in 1..7 : \A l \in S[p] : l \in gone \/ \E q \in 1..7 : l \in T[q]

(* If lines go from one place to another, the places stay disjoint, and a   *)
(* line is still in one of them unless it was dropped on the way.           *)
LEMMA MovedApart ==
  ASSUME NEW S, NEW T, NEW i \in 1..7, NEW j \in 1..7, i # j, NEW b, NEW c,
         b \subseteq S[i], c \subseteq b, Moved(S, T, i, j, b, c), Parted(S)
  PROVE  /\ Parted(T)
         /\ StillThere(S, T, b \ c)
<1>1. /\ T[i] = S[i] \ b /\ T[j] = S[j] \cup c
      /\ \A p \in 1..7 : p # i /\ p # j => T[p] = S[p]
  BY DEF Moved
<1>2. \A q \in 1..7 : q # i => S[q] \cap b = {}
  BY DEF Parted
<1>3. ASSUME NEW p \in 1..7, NEW q \in 1..7, p # q
      PROVE  T[p] \cap T[q] = {}
  BY <1>1, <1>2, <1>3 DEF Parted
<1>4. ASSUME NEW p \in 1..7, NEW l \in S[p]
      PROVE  l \in b \ c \/ \E q \in 1..7 : l \in T[q]
  BY <1>1, <1>4
<1> QED  BY <1>3, <1>4 DEF Parted, StillThere

(* The lines of a queue that one batch is put on, or taken off.             *)
LEMMA AppendLines ==
  ASSUME NEW S, NEW q \in Seq(SUBSET S), NEW b \in SUBSET S
  PROVE  /\ LinesOf(Append(q, b)) = LinesOf(q) \cup b
         /\ DisjointIn(q) /\ b \cap LinesOf(q) = {} => DisjointIn(Append(q, b))
<1>1. PICK n \in Nat : n = Len(q)
  OBVIOUS
<1>2. PICK r : r = Append(q, b)
  OBVIOUS
<1>3. Len(r) = n + 1 /\ r[n + 1] = b /\ \A i \in 1..n : r[i] = q[i]
  BY <1>1, <1>2
<1>4. \A i \in 1..(n + 1) : i \in 1..n \/ i = n + 1
  BY <1>1
<1>5. LinesOf(r) = LinesOf(q) \cup b
  BY <1>1, <1>3, <1>4 DEF LinesOf
<1>6. ASSUME DisjointIn(q), b \cap LinesOf(q) = {}
      PROVE  DisjointIn(r)
  <2>1. \A i \in 1..n : q[i] \cap b = {}
    BY <1>1, <1>6 DEF LinesOf
  <2> QED  BY <1>1, <1>3, <1>4, <1>6, <2>1 DEF DisjointIn
<1> QED  BY <1>2, <1>5, <1>6

(* The batch at the head of a queue of disjoint batches takes its lines     *)
(* with it, and no others.                                                  *)
LEMMA TailLines ==
  ASSUME NEW S, NEW q \in Seq(SUBSET S), q # <<>>, DisjointIn(q)
  PROVE  /\ LinesOf(Tail(q)) = LinesOf(q) \ Head(q) /\ Head(q) \subseteq LinesOf(q)
         /\ DisjointIn(Tail(q))
         /\ Head(q) = q[1] /\ 1 \in 1..Len(q)
         /\ \A i \in 1..Len(Tail(q)) : Tail(q)[i] = q[i + 1] /\ i + 1 \in 1..Len(q)
<1>1. PICK n \in Nat : n = Len(q)
  OBVIOUS
<1>2. PICK r : r = Tail(q)
  OBVIOUS
<1>3. n > 0 /\ Len(r) = n - 1 /\ \A i \in 1..(n - 1) : r[i] = q[i + 1]
  BY <1>1, <1>2
<1>4. /\ \A i \in 1..n : i = 1 \/ (i - 1 \in 1..(n - 1) /\ i = (i - 1) + 1)
      /\ \A i \in 1..(n - 1) : i + 1 \in 1..n /\ i + 1 # 1
      /\ \A i, k \in 1..(n - 1) : i # k => i + 1 # k + 1
      /\ 1 \in 1..n
  BY <1>1, <1>3
<1>5. Head(q) = q[1]
  BY <1>1, <1>3
<1>6. LinesOf(r) = LinesOf(q) \ q[1]
  <2>1. \A l \in LinesOf(r) : l \in LinesOf(q) /\ l \notin q[1]
    <3>1. ASSUME NEW i \in 1..(n - 1), NEW l \in r[i]
          PROVE  l \in LinesOf(q) /\ l \notin q[1]
      BY <1>1, <1>3, <1>4, <3>1 DEF LinesOf, DisjointIn
    <3> QED  BY <1>3, <3>1 DEF LinesOf
  <2>2. ASSUME NEW i \in 1..n, NEW l \in q[i], l \notin q[1]
        PROVE  l \in LinesOf(r)
    <3>1. PICK k \in 1..(n - 1) : i = k + 1
      BY <1>4, <2>2
    <3> QED  BY <1>3, <2>2, <3>1 DEF LinesOf
  <2>3. \A l \in LinesOf(q) : l \notin q[1] => l \in LinesOf(r)
    BY <1>1, <2>2 DEF LinesOf
  <2> QED  BY <2>1, <2>3
<1>7. DisjointIn(r)
  BY <1>1, <1>3, <1>4 DEF DisjointIn
<1>8. q[1] \subseteq LinesOf(q)
  BY <1>1, <1>4 DEF LinesOf
<1> QED  BY <1>1, <1>2, <1>3, <1>4, <1>5, <1>6, <1>7, <1>8

(* What the workers hold, when one of them takes or lets go of a batch.     *)
LEMMA HandsChange ==
  ASSUME worker \in [Workers -> WorkerStates], NEW w \in Workers, NEW s, worker' = [worker EXCEPT ![w] = s],
         \A v, u \in Workers : v # u => worker[v].items \cap worker[u].items = {}
  PROVE  /\ InHand' = (InHand \ worker[w].items) \cup s.items
         /\ s.items \cap InHand = {} \/ s.items \subseteq worker[w].items =>
              \A v, u \in Workers : v # u => worker'[v].items \cap worker'[u].items = {}
         /\ worker[w].items \subseteq InHand
<1>1. worker'[w] = s /\ \A v \in Workers : v # w => worker'[v] = worker[v]
  OBVIOUS
<1>2. InHand = UNION {worker[v].items : v \in Workers} /\ InHand' = UNION {worker'[v].items : v \in Workers}
  BY DEF InHand
<1>3. InHand' = (InHand \ worker[w].items) \cup s.items
  <2>1. \A l \in InHand' : l \in (InHand \ worker[w].items) \cup s.items
    BY <1>1, <1>2
  <2>2. \A l \in s.items : l \in InHand'
    BY <1>1, <1>2
  <2>3. \A l \in InHand \ worker[w].items : l \in InHand'
    BY <1>1, <1>2
  <2> QED  BY <2>1, <2>2, <2>3
<1>4. worker[w].items \subseteq InHand
  BY <1>2
<1>5. ASSUME s.items \cap InHand = {} \/ s.items \subseteq worker[w].items, NEW v \in Workers, NEW u \in Workers, v # u
      PROVE  worker'[v].items \cap worker'[u].items = {}
  <2>1. \A t \in Workers : t # w => s.items \cap worker[t].items = {}
    BY <1>2, <1>5
  <2> QED  BY <1>1, <1>5, <2>1
<1> QED  BY <1>3, <1>4, <1>5

(* Lines of one batch are those whose numbers have one quotient.            *)
LEMMA Quotient ==
  ASSUME NEW n \in Nat \ {0}, NEW k \in Nat, NEW c \in Nat
  PROVE  k \div n = c <=> n * c =< k /\ k < n * c + n
<1>1. PICK d \in Int : d = k \div n
  OBVIOUS
<1>2. n * d =< k /\ k < n * d + n
  BY <1>1
<1>3. ASSUME NEW a \in Int, NEW e \in Int, a < e
      PROVE  n * a + n =< n * e
  <2>1. PICK m \in Nat : e = a + 1 + m
    <3>1. e - a - 1 \in Nat /\ e = a + 1 + (e - a - 1)
      BY <1>3
    <3> QED  BY <3>1
  <2>2. n * m \in Nat
    OBVIOUS
  <2>3. n * e = n * a + n + n * m
    BY <2>1
  <2>4. n * a \in Int
    OBVIOUS
  <2> QED  BY <2>2, <2>3, <2>4
<1>4. ASSUME n * c =< k, k < n * c + n
      PROVE  c = d
  <2>1. n * c \in Int /\ n * d \in Int
    OBVIOUS
  <2>2. ~(c < d)
    <3>1. c < d => n * c + n =< n * d
      BY <1>3
    <3> QED  BY <1>2, <1>4, <2>1, <3>1
  <2>3. ~(d < c)
    <3>1. d < c => n * d + n =< n * c
      BY <1>3
    <3> QED  BY <1>2, <1>4, <2>1, <3>1
  <2> QED  BY <2>2, <2>3
<1> QED  BY <1>1, <1>2, <1>4

(* What produce has read, as numbers.                                       *)
LEMMA ReadTyping ==
  ASSUME Shapes
  PROVE  /\ BatchSize \in Nat \ {0} /\ read \in Nat /\ Len(file) \in Nat /\ read =< Len(file)
         /\ Cardinality(batch) =< BatchSize /\ batch \subseteq Lines
<1>1. Len(file) \in Nat /\ read \in 0..Len(file)
  BY FiniteLines DEF Shapes
<1>2. Cardinality(batch) =< BatchSize /\ batch \subseteq Lines
  BY DEF Shapes
<1> QED  BY <1>1, <1>2, SizeAssumption

(* A batch that produce puts is whole.                                      *)
LEMMA PutWhole ==
  ASSUME Shapes, Pending, batch # {}, Cardinality(batch) = BatchSize \/ read = Len(file)
  PROVE  /\ Whole(batch)
         /\ read # Len(file) => \E c \in Nat : BatchSize * c =< read /\ (BatchSize * c + 1)..read = {}
<1>1. PICK c \in Nat : BatchSize * c =< read /\ batch = (BatchSize * c + 1)..read
  BY DEF Pending
<1>2. BatchSize \in Nat \ {0} /\ read \in Nat /\ Len(file) \in Nat /\ read =< Len(file)
  BY ReadTyping
<1>3. PICK a \in Nat : a = BatchSize * c
  BY <1>2
<1>4. batch = (a + 1)..read /\ a < read
  BY <1>1, <1>2, <1>3
<1>5. Cardinality(batch) = read - a
  BY <1>2, <1>4, FS_Interval
<1>6. read =< a + BatchSize /\ (read = a + BatchSize \/ read = Len(file))
  <2>1. Cardinality(batch) =< BatchSize
    BY ReadTyping
  <2> QED  BY <1>2, <1>4, <1>5, <2>1
<1>7. \A l \in Lines : (l - 1) \div BatchSize = c <=> l \in (a + 1)..(a + BatchSize)
  <2>1. ASSUME NEW l \in Lines
        PROVE  (l - 1) \div BatchSize = c <=> l \in (a + 1)..(a + BatchSize)
    <3>1. PICK k \in Nat : k = l - 1 /\ l \in Nat
      BY <1>2 DEF Lines
    <3>2. k \div BatchSize = c <=> a =< k /\ k < a + BatchSize
      BY <1>2, <1>3, Quotient
    <3>3. l \in (a + 1)..(a + BatchSize) <=> a =< k /\ k < a + BatchSize
      BY <1>2, <3>1
    <3> QED  BY <3>1, <3>2, <3>3
  <2> QED  BY <2>1
<1>8. \A l \in Lines : l \in (a + 1)..(a + BatchSize) <=> l \in batch
  BY <1>2, <1>4, <1>6 DEF Lines
<1>9. batch \subseteq Lines
  BY ReadTyping
<1>10. Whole(batch)
  <2>1. ASSUME NEW l \in batch
        PROVE  BatchOf(l) = batch
    <3>1. \A k \in Lines : (k - 1) \div BatchSize = (l - 1) \div BatchSize <=> k \in batch
      BY <1>7, <1>8, <1>9
    <3> QED  BY <1>9, <3>1 DEF BatchOf
  <2> QED  BY <2>1 DEF Whole
<1>11. ASSUME read # Len(file)
       PROVE  \E d \in Nat : BatchSize * d =< read /\ (BatchSize * d + 1)..read = {}
  <2>1. c + 1 \in Nat /\ BatchSize * (c + 1) = a + BatchSize
    BY <1>2, <1>3
  <2>2. read = a + BatchSize /\ (a + BatchSize + 1)..read = {}
    BY <1>2, <1>6, <1>11
  <2>3. BatchSize * (c + 1) =< read /\ (BatchSize * (c + 1) + 1)..read = {}
    BY <1>2, <2>1, <2>2
  <2>4. c + 1 \in Nat
    OBVIOUS
  <2> QED  BY <2>3, <2>4
<1> QED  BY <1>10, <1>11

(* While the file is the same, so are the batches it is cut into.           *)
LEMMA SameBatches ==
  ASSUME UNCHANGED file
  PROVE  /\ Lines' = Lines
         /\ \A l : BatchOf(l)' = BatchOf(l)
         /\ \A b : Whole(b)' <=> Whole(b)
<1>1. Lines' = Lines
  BY DEF Lines
<1>2. \A l : BatchOf(l)' = BatchOf(l)
  BY <1>1 DEF BatchOf
<1> QED  BY <1>1, <1>2 DEF Whole

(* Lines that are dropped stay so.                                          *)
LEMMA DroppedForGood ==
  ASSUME UNCHANGED file, blank \subseteq blank'
  PROVE  Unaccounted \subseteq Unaccounted'
<1>1. Lines' = Lines
  BY DEF Lines
<1>2. \A l : Answered(BatchOf(l))' = Answered(BatchOf(l)) /\ Invalid(BatchOf(l))' = Invalid(BatchOf(l))
  BY <1>1 DEF BatchOf, Answered, Indices, Invalid
<1>3. {l \in Lines : l \notin Answered(BatchOf(l)) \cup Invalid(BatchOf(l))}'
        = {l \in Lines : l \notin Answered(BatchOf(l)) \cup Invalid(BatchOf(l))}
  BY <1>1, <1>2
<1> QED  BY <1>3 DEF Unaccounted

(* A step that takes the lines b from place i, and c of them to place j.    *)
Gone(p, X, i, j, b, c) == IF p = i THEN X \ b ELSE IF p = j THEN X \cup c ELSE X

(* Lines may move between any two places, if none but unaccounted ones are  *)
(* lost.                                                                    *)
LEMMA LinesMove ==
  ASSUME InOnePlace, UNCHANGED file, blank \subseteq blank',
         NEW i \in 1..7, NEW j \in 1..7, i # j, NEW b, NEW c,
         b \subseteq Stations[i], c \subseteq b, b \ c \subseteq Unaccounted,
         (read' + 1)..Len(file) = Gone(1, (read + 1)..Len(file), i, j, b, c),
         batch' = Gone(2, batch, i, j, b, c),
         LinesOf(queueIn') = Gone(3, LinesOf(queueIn), i, j, b, c),
         InHand' = Gone(4, InHand, i, j, b, c),
         LinesOf(queueOut') = Gone(5, LinesOf(queueOut), i, j, b, c),
         sink'.items = Gone(6, sink.items, i, j, b, c),
         Done' = Gone(7, Done, i, j, b, c)
  PROVE  InOnePlace'
<1>1. PICK S : S = Stations
  OBVIOUS
<1>2. PICK T : T = Stations'
  OBVIOUS
<1>3. /\ S[1] = (read + 1)..Len(file) /\ S[2] = batch /\ S[3] = LinesOf(queueIn) /\ S[4] = InHand
      /\ S[5] = LinesOf(queueOut) /\ S[6] = sink.items /\ S[7] = Done
  BY <1>1 DEF Stations
<1>4. /\ T[1] = (read' + 1)..Len(file) /\ T[2] = batch' /\ T[3] = LinesOf(queueIn') /\ T[4] = InHand'
      /\ T[5] = LinesOf(queueOut') /\ T[6] = sink'.items /\ T[7] = Done'
  <2>1. Stations' = <<(read' + 1)..Len(file'), batch', LinesOf(queueIn'), InHand', LinesOf(queueOut'),
                      sink'.items, Done'>>
    BY DEF Stations, LinesOf
  <2> QED  BY <1>2, <2>1
<1>5. \A p \in 1..7 : p = 1 \/ p = 2 \/ p = 3 \/ p = 4 \/ p = 5 \/ p = 6 \/ p = 7
  OBVIOUS
<1>6. /\ T[1] = Gone(1, S[1], i, j, b, c) /\ T[2] = Gone(2, S[2], i, j, b, c)
      /\ T[3] = Gone(3, S[3], i, j, b, c) /\ T[4] = Gone(4, S[4], i, j, b, c)
      /\ T[5] = Gone(5, S[5], i, j, b, c) /\ T[6] = Gone(6, S[6], i, j, b, c)
      /\ T[7] = Gone(7, S[7], i, j, b, c)
  BY <1>3, <1>4
<1>7. \A p \in 1..7 : T[p] = Gone(p, S[p], i, j, b, c)
  BY <1>5, <1>6
<1>8. Moved(S, T, i, j, b, c)
  BY <1>7 DEF Moved, Gone
<1>9. /\ Parted(S) /\ b \subseteq S[i]
      /\ \A l \in Lines : l \in Unaccounted \/ \E p \in 1..7 : l \in S[p]
  BY <1>1 DEF InOnePlace
<1>10. Parted(T) /\ StillThere(S, T, b \ c)
  BY <1>8, <1>9, MovedApart
<1>11. \A l \in Lines : l \in Unaccounted \/ \E p \in 1..7 : l \in T[p]
  BY <1>9, <1>10 DEF StillThere
<1>12. Parted(Stations')
  BY <1>2, <1>10
<1>13. \A l \in Lines' : l \in Unaccounted' \/ \E p \in 1..7 : l \in Stations'[p]
  BY <1>2, <1>11, SameBatches, DroppedForGood
<1> QED  BY <1>12, <1>13 DEF InOnePlace, Parted

(* A step that leaves every line where it is.                               *)
LEMMA LinesStay ==
  ASSUME InOnePlace, UNCHANGED <<file, read, batch, queueIn, queueOut, output, reported>>, blank \subseteq blank',
         sink'.items = sink.items, InHand' = InHand
  PROVE  InOnePlace'
<1>1. Done' = Done
  BY SameBatches DEF Done
<1>2. \A p, X : Gone(p, X, 1, 2, {}, {}) = X
  BY DEF Gone
<1>3. 1 \in 1..7 /\ 2 \in 1..7 /\ 1 # 2
  OBVIOUS
<1>4. PICK e : e = {}
  OBVIOUS
<1>5. /\ e \subseteq Stations[1] /\ e \subseteq e /\ e \ e \subseteq Unaccounted
      /\ (read' + 1)..Len(file) = Gone(1, (read + 1)..Len(file), 1, 2, e, e)
      /\ batch' = Gone(2, batch, 1, 2, e, e)
      /\ LinesOf(queueIn') = Gone(3, LinesOf(queueIn), 1, 2, e, e)
      /\ InHand' = Gone(4, InHand, 1, 2, e, e)
      /\ LinesOf(queueOut') = Gone(5, LinesOf(queueOut), 1, 2, e, e)
      /\ sink'.items = Gone(6, sink.items, 1, 2, e, e)
      /\ Done' = Gone(7, Done, 1, 2, e, e)
  BY <1>1, <1>2, <1>4
<1> QED  BY <1>3, <1>5, LinesMove

(* The places, and what is known of two of them.                            *)
LEMMA StationsAre ==
  /\ Stations[1] = (read + 1)..Len(file) /\ Stations[2] = batch /\ Stations[3] = LinesOf(queueIn)
  /\ Stations[4] = InHand /\ Stations[5] = LinesOf(queueOut) /\ Stations[6] = sink.items
  /\ Stations[7] = Done
  /\ InOnePlace =>
       /\ batch \cap LinesOf(queueIn) = {} /\ InHand \cap LinesOf(queueIn) = {}
       /\ InHand \cap LinesOf(queueOut) = {} /\ sink.items \cap Done = {}
<1>1. /\ Stations[1] = (read + 1)..Len(file) /\ Stations[2] = batch /\ Stations[3] = LinesOf(queueIn)
      /\ Stations[4] = InHand /\ Stations[5] = LinesOf(queueOut) /\ Stations[6] = sink.items
      /\ Stations[7] = Done
  BY DEF Stations
<1>2. InOnePlace => /\ Stations[2] \cap Stations[3] = {} /\ Stations[4] \cap Stations[3] = {}
                    /\ Stations[4] \cap Stations[5] = {} /\ Stations[6] \cap Stations[7] = {}
  <2>1. 2 \in 1..7 /\ 3 \in 1..7 /\ 4 \in 1..7 /\ 5 \in 1..7 /\ 6 \in 1..7 /\ 7 \in 1..7
    OBVIOUS
  <2> QED  BY <2>1 DEF InOnePlace, Parted
<1> QED  BY <1>1, <1>2

(* produce reads a line, and puts a batch.                                  *)
LEMMA LinesRead ==
  ASSUME Shapes, LinesInv, ReadLine
  PROVE  InOnePlace' /\ Pending' /\ job' = "producing"
<1>1. /\ read < Len(file) /\ read' = read + 1 /\ batch' = batch \cup {read'} /\ job' = "producing"
      /\ UNCHANGED <<file, queueIn, worker, queueOut, sink, output, reported, blank>>
  BY DEF ReadLine, finalizer
<1>2. BatchSize \in Nat \ {0} /\ read \in Nat /\ Len(file) \in Nat
  BY ReadTyping
<1>3. PICK b : b = {read + 1}
  OBVIOUS
<1>4. /\ (read' + 1)..Len(file) = ((read + 1)..Len(file)) \ b
      /\ b \subseteq (read + 1)..Len(file)
  BY <1>1, <1>2, <1>3
<1>5. InHand' = InHand /\ Done' = Done /\ LinesOf(queueIn') = LinesOf(queueIn) /\ LinesOf(queueOut') = LinesOf(queueOut)
  BY <1>1, SameBatches DEF InHand, Done
<1>6. /\ b \subseteq Stations[1] /\ b \subseteq b /\ b \ b \subseteq Unaccounted
      /\ (read' + 1)..Len(file) = Gone(1, (read + 1)..Len(file), 1, 2, b, b)
      /\ batch' = Gone(2, batch, 1, 2, b, b)
      /\ LinesOf(queueIn') = Gone(3, LinesOf(queueIn), 1, 2, b, b)
      /\ InHand' = Gone(4, InHand, 1, 2, b, b)
      /\ LinesOf(queueOut') = Gone(5, LinesOf(queueOut), 1, 2, b, b)
      /\ sink'.items = Gone(6, sink.items, 1, 2, b, b)
      /\ Done' = Gone(7, Done, 1, 2, b, b)
  BY <1>1, <1>3, <1>4, <1>5, StationsAre DEF Gone
<1>7. InOnePlace'
  <2>1. 1 \in 1..7 /\ 2 \in 1..7 /\ 1 # 2
    OBVIOUS
  <2> QED  BY <1>1, <1>6, <2>1, LinesMove DEF LinesInv
<1>8. Pending'
  <2>1. PICK c \in Nat : BatchSize * c =< read /\ batch = (BatchSize * c + 1)..read
    BY <1>1, <1>2 DEF LinesInv, Pending
  <2>2. PICK a \in Nat : a = BatchSize * c
    BY <1>2
  <2>3. a =< read' /\ batch' = (a + 1)..read'
    BY <1>1, <1>2, <2>1, <2>2
  <2> QED  BY <2>2, <2>3 DEF Pending
<1> QED  BY <1>1, <1>7, <1>8

(* produce puts what it holds: all of it moves to the first queue, as one   *)
(* whole batch.                                                             *)
LEMMA LinesPut ==
  ASSUME Shapes, LinesInv, PutBatch
  PROVE  /\ InOnePlace' /\ Pending' /\ job' = "producing"
         /\ DisjointIn(queueIn') /\ \A i \in 1..Len(queueIn') : Whole(queueIn'[i])
<1>1. /\ batch # {} /\ (Cardinality(batch) = BatchSize \/ read = Len(file))
      /\ queueIn' = Append(queueIn, batch) /\ batch' = {} /\ job' = "producing"
      /\ UNCHANGED <<file, read, worker, queueOut, sink, output, reported, blank>>
  BY DEF PutBatch, finalizer
<1>2. queueIn \in Seq(SUBSET Lines) /\ batch \in SUBSET Lines
  BY DEF Shapes
<1>3. PICK b : b = batch
  OBVIOUS
<1>4. LinesOf(queueIn') = LinesOf(queueIn) \cup b /\ DisjointIn(queueIn')
  <2>1. DisjointIn(queueIn) /\ b \cap LinesOf(queueIn) = {}
    BY <1>3, StationsAre DEF LinesInv
  <2>2. queueIn' = Append(queueIn, b) /\ b \in SUBSET Lines
    BY <1>1, <1>2, <1>3
  <2> QED  BY <1>2, <2>1, <2>2, AppendLines
<1>5. InHand' = InHand /\ Done' = Done /\ LinesOf(queueOut') = LinesOf(queueOut)
  BY <1>1, SameBatches DEF InHand, Done
<1>6. /\ b \subseteq Stations[2] /\ b \subseteq b /\ b \ b \subseteq Unaccounted
      /\ (read' + 1)..Len(file) = Gone(1, (read + 1)..Len(file), 2, 3, b, b)
      /\ batch' = Gone(2, batch, 2, 3, b, b)
      /\ LinesOf(queueIn') = Gone(3, LinesOf(queueIn), 2, 3, b, b)
      /\ InHand' = Gone(4, InHand, 2, 3, b, b)
      /\ LinesOf(queueOut') = Gone(5, LinesOf(queueOut), 2, 3, b, b)
      /\ sink'.items = Gone(6, sink.items, 2, 3, b, b)
      /\ Done' = Gone(7, Done, 2, 3, b, b)
  BY <1>1, <1>3, <1>4, <1>5, StationsAre DEF Gone
<1>7. InOnePlace'
  <2>1. 2 \in 1..7 /\ 3 \in 1..7 /\ 2 # 3
    OBVIOUS
  <2> QED  BY <1>1, <1>6, <2>1, LinesMove DEF LinesInv
<1>8. Whole(b) /\ (read # Len(file) => \E c \in Nat : BatchSize * c =< read /\ (BatchSize * c + 1)..read = {})
  BY <1>1, <1>3, PutWhole DEF LinesInv
<1>9. Pending'
  <2>1. CASE read = Len(file)
    BY <1>1, <2>1 DEF Pending
  <2>2. CASE read # Len(file)
    <3>1. PICK c \in Nat : BatchSize * c =< read /\ (BatchSize * c + 1)..read = {}
      BY <1>8, <2>2
    <3>2. BatchSize * c =< read' /\ batch' = (BatchSize * c + 1)..read'
      BY <1>1, <3>1
    <3> QED  BY <3>2 DEF Pending
  <2> QED  BY <2>1, <2>2
<1>10. \A i \in 1..Len(queueIn') : Whole(queueIn'[i])
  <2>1. Len(queueIn') = Len(queueIn) + 1 /\ queueIn'[Len(queueIn) + 1] = b
        /\ \A i \in 1..Len(queueIn) : queueIn'[i] = queueIn[i]
    BY <1>1, <1>2, <1>3
  <2>2. Len(queueIn) \in Nat
    BY <1>2
  <2>3. \A i \in 1..Len(queueIn') : i \in 1..Len(queueIn) \/ i = Len(queueIn) + 1
    BY <2>1, <2>2
  <2> QED  BY <1>8, <2>1, <2>3 DEF LinesInv
<1> QED  BY <1>1, <1>4, <1>7, <1>9, <1>10

(* The finalizer takes a batch, and writes each line of it or reports it.   *)
LEMMA LinesTaken ==
  ASSUME Shapes, JoinsCount, LinesInv, TakeResult
  PROVE  InOnePlace' /\ DisjointIn(queueOut')
<1>1. /\ sink.at = "idle" /\ queueOut # <<>> /\ sink' = [at |-> "writing", items |-> Head(queueOut)]
      /\ queueOut' = Tail(queueOut)
      /\ UNCHANGED <<file, read, batch, queueIn, worker, output, reported, blank>>
  BY DEF TakeResult, input
<1>2. queueOut \in Seq(SUBSET Lines) /\ sink.items = {}
  BY <1>1 DEF Shapes, JoinsCount
<1>3. PICK b : b = Head(queueOut)
  OBVIOUS
<1>4. LinesOf(queueOut') = LinesOf(queueOut) \ b /\ b \subseteq LinesOf(queueOut) /\ DisjointIn(queueOut')
  BY <1>1, <1>2, <1>3, TailLines DEF LinesInv
<1>5. InHand' = InHand /\ Done' = Done /\ LinesOf(queueIn') = LinesOf(queueIn) /\ sink'.items = b
  BY <1>1, <1>3, SameBatches DEF InHand, Done
<1>6. /\ b \subseteq Stations[5] /\ b \subseteq b /\ b \ b \subseteq Unaccounted
      /\ (read' + 1)..Len(file) = Gone(1, (read + 1)..Len(file), 5, 6, b, b)
      /\ batch' = Gone(2, batch, 5, 6, b, b)
      /\ LinesOf(queueIn') = Gone(3, LinesOf(queueIn), 5, 6, b, b)
      /\ InHand' = Gone(4, InHand, 5, 6, b, b)
      /\ LinesOf(queueOut') = Gone(5, LinesOf(queueOut), 5, 6, b, b)
      /\ sink'.items = Gone(6, sink.items, 5, 6, b, b)
      /\ Done' = Gone(7, Done, 5, 6, b, b)
  BY <1>1, <1>2, <1>4, <1>5, StationsAre DEF Gone
<1>7. InOnePlace'
  <2>1. 5 \in 1..7 /\ 6 \in 1..7 /\ 5 # 6
    OBVIOUS
  <2> QED  BY <1>1, <1>6, <2>1, LinesMove DEF LinesInv
<1> QED  BY <1>4, <1>7

(* Every line the finalizer holds is written or reported; as the places are *)
(* disjoint, none of them had been.                                         *)
LEMMA LinesWritten ==
  ASSUME Shapes, LinesInv, WriteResult
  PROVE  InOnePlace' /\ \A l \in Lines : output'[l] =< 1 /\ (output'[l] = 1 => l \notin reported')
<1>1. /\ sink' = [at |-> "idle", items |-> {}]
      /\ UNCHANGED <<file, read, batch, queueIn, worker, queueOut, blank>>
  BY DEF WriteResult, input
<1>2. PICK bad \in SUBSET sink.items : Write(bad)
  BY DEF WriteResult
<1>3. /\ output' = [l \in Lines |-> output[l] + IF l \in sink.items \ bad THEN 1 ELSE 0]
      /\ reported' = reported \cup bad
  BY <1>2 DEF Write
<1>4. output \in [Lines -> Nat] /\ sink.items \subseteq Lines /\ reported \subseteq Lines
  BY DEF Shapes
<1>5. \A l \in Lines : /\ l \in sink.items \ bad => output'[l] = output[l] + 1
                       /\ l \notin sink.items \ bad => output'[l] = output[l]
  <2>1. ASSUME NEW l \in Lines
        PROVE  output[l] \in Nat
    BY <1>4
  <2> QED  BY <1>3, <2>1
<1>6. \A l \in sink.items : output[l] = 0 /\ l \notin reported
  <2>1. sink.items \cap Done = {}
    BY StationsAre DEF LinesInv
  <2>2. \A l \in Lines : output[l] \in Nat
    BY <1>4
  <2> QED  BY <1>4, <2>1, <2>2 DEF Done
<1>7. PICK b : b = sink.items
  OBVIOUS
<1>8. Done' = Done \cup b
  <2>1. Done' = {l \in Lines : output'[l] > 0} \cup reported'
    BY <1>1, SameBatches DEF Done
  <2>2. \A l \in Lines : output[l] \in Nat
    BY <1>4
  <2>3. \A l \in Lines : output'[l] > 0 <=> output[l] > 0 \/ l \in sink.items \ bad
    BY <1>5, <2>2
  <2> QED  BY <1>3, <1>4, <1>7, <2>1, <2>3 DEF Done
<1>9. InHand' = InHand /\ LinesOf(queueIn') = LinesOf(queueIn) /\ LinesOf(queueOut') = LinesOf(queueOut)
      /\ sink'.items = {}
  BY <1>1 DEF InHand
<1>10. /\ b \subseteq Stations[6] /\ b \subseteq b /\ b \ b \subseteq Unaccounted
       /\ (read' + 1)..Len(file) = Gone(1, (read + 1)..Len(file), 6, 7, b, b)
       /\ batch' = Gone(2, batch, 6, 7, b, b)
       /\ LinesOf(queueIn') = Gone(3, LinesOf(queueIn), 6, 7, b, b)
       /\ InHand' = Gone(4, InHand, 6, 7, b, b)
       /\ LinesOf(queueOut') = Gone(5, LinesOf(queueOut), 6, 7, b, b)
       /\ sink'.items = Gone(6, sink.items, 6, 7, b, b)
       /\ Done' = Gone(7, Done, 6, 7, b, b)
  BY <1>1, <1>7, <1>8, <1>9, StationsAre DEF Gone
<1>11. InOnePlace'
  <2>1. 6 \in 1..7 /\ 7 \in 1..7 /\ 6 # 7
    OBVIOUS
  <2> QED  BY <1>1, <1>10, <2>1, LinesMove DEF LinesInv
<1>12. ASSUME NEW l \in Lines
       PROVE  output'[l] =< 1 /\ (output'[l] = 1 => l \notin reported')
  <2>1. output[l] \in Nat /\ output[l] =< 1 /\ (output[l] = 1 => l \notin reported)
    BY <1>4 DEF LinesInv
  <2>2. CASE l \in sink.items
    BY <1>3, <1>5, <1>6, <2>1, <2>2
  <2>3. CASE l \notin sink.items
    BY <1>3, <1>5, <2>1, <2>3
  <2> QED  BY <2>2, <2>3
<1> QED  BY <1>11, <1>12

(* What there is to show of a step: the rest of LinesInv is about the file.  *)
WholeQueue(q) == \A i \in 1..Len(q) : Whole(q[i])
WholeHands(h) == \A w \in Workers : Whole(h[w].items)
ApartHands(h) == \A v, w \in Workers : v # w => h[v].items \cap h[w].items = {}
Answering(h) ==
  \A w \in Workers : h[w].at = "putting" =>
    h[w].result \subseteq h[w].items /\ h[w].items \ h[w].result \subseteq Unaccounted
OneRecord(o, r) == \A l \in Lines : o[l] =< 1 /\ (o[l] = 1 => l \notin r)

(* LinesInv, by the parts a step has to keep.                               *)
LEMMA LinesParts ==
  LinesInv <=>
    /\ InOnePlace /\ DisjointIn(queueIn) /\ DisjointIn(queueOut)
    /\ ApartHands(worker) /\ WholeQueue(queueIn) /\ WholeHands(worker) /\ Answering(worker)
    /\ OneRecord(output, reported) /\ Pending /\ (job # "producing" => read = Len(file))
BY DEF LinesInv, ApartHands, WholeQueue, WholeHands, Answering, OneRecord

KeepsLines ==
  /\ InOnePlace' /\ DisjointIn(queueIn') /\ DisjointIn(queueOut')
  /\ ApartHands(worker') /\ WholeQueue(queueIn') /\ WholeHands(worker') /\ Answering(worker)'
  /\ OneRecord(output', reported') /\ Pending' /\ (job' # "producing" => read' = Len(file))

(* A step on the same file that keeps the parts keeps LinesInv.             *)
LEMMA LinesKept ==
  ASSUME UNCHANGED file, KeepsLines
  PROVE  LinesInv'
<1>1. Lines' = Lines /\ \A l : BatchOf(l)' = BatchOf(l)
  BY SameBatches
<1>2. ASSUME NEW i \in 1..Len(queueIn')
      PROVE  Whole(queueIn[i])'
  <2>1. Whole(queueIn'[i])
    BY DEF KeepsLines, WholeQueue
  <2> QED  BY <1>1, <2>1 DEF Whole
<1>3. ASSUME NEW w \in Workers
      PROVE  Whole(worker[w].items)'
  <2>1. Whole(worker'[w].items)
    BY DEF KeepsLines, WholeHands
  <2> QED  BY <1>1, <2>1 DEF Whole
<1>4. \A v, w \in Workers : v # w => worker'[v].items \cap worker'[w].items = {}
  BY DEF KeepsLines, ApartHands
<1>5. \A w \in Workers : worker'[w].at = "putting" =>
        worker'[w].result \subseteq worker'[w].items /\ worker'[w].items \ worker'[w].result \subseteq Unaccounted'
  BY DEF KeepsLines, Answering
<1>6. \A l \in Lines' : output'[l] =< 1 /\ (output'[l] = 1 => l \notin reported')
  BY <1>1 DEF KeepsLines, OneRecord
<1>7. /\ InOnePlace' /\ DisjointIn(queueIn)' /\ DisjointIn(queueOut)' /\ Pending'
      /\ job' # "producing" => read' = Len(file')
  BY DEF KeepsLines, DisjointIn
<1> QED  BY <1>2, <1>3, <1>4, <1>5, <1>6, <1>7 DEF LinesInv

(* A step that leaves the workers as they are leaves what they answered.    *)
LEMMA AnswersStay ==
  ASSUME UNCHANGED <<file, worker, blank>>, Answering(worker)
  PROVE  Answering(worker)'
BY DroppedForGood DEF Answering

(* The steps of produce, of the finalizer and of process_batch.             *)
LEMMA LinesOfTheRest ==
  ASSUME Shapes, JoinsCount, LinesInv, Produce \/ Finalize \/ Join
  PROVE  LinesInv'
<1>f. file' = file
  BY DEF Produce, ReadLine, PutBatch, FinishProducing, Finalize, OpenOutput, TakeResult, WriteResult,
         Join, JoinInput, JoinOutput, Stop, input
<1>p. /\ InOnePlace /\ DisjointIn(queueIn) /\ DisjointIn(queueOut)
      /\ ApartHands(worker) /\ WholeQueue(queueIn) /\ WholeHands(worker) /\ Answering(worker)
      /\ OneRecord(output, reported) /\ Pending /\ (job # "producing" => read = Len(file))
  BY LinesParts
<1>1. CASE ReadLine
  <2>1. UNCHANGED <<queueIn, worker, queueOut, output, reported, blank>>
    BY <1>1 DEF ReadLine, finalizer
  <2>2. InOnePlace' /\ Pending' /\ job' = "producing"
    BY <1>1, LinesRead
  <2>3. KeepsLines
    BY <1>f, <1>p, <2>1, <2>2, AnswersStay DEF KeepsLines
  <2> QED  BY <1>f, <2>3, LinesKept
<1>2. CASE PutBatch
  <2>1. UNCHANGED <<worker, queueOut, output, reported, blank>>
    BY <1>2 DEF PutBatch, finalizer
  <2>2. InOnePlace' /\ Pending' /\ job' = "producing" /\ DisjointIn(queueIn') /\ WholeQueue(queueIn')
    BY <1>2, LinesPut DEF WholeQueue
  <2>3. KeepsLines
    BY <1>f, <1>p, <2>1, <2>2, AnswersStay DEF KeepsLines
  <2> QED  BY <1>f, <2>3, LinesKept
<1>3. ASSUME UNCHANGED <<file, read, batch, queueIn, worker, queueOut, output, reported, blank>>, sink'.items = sink.items,
             job # "producing" \/ UNCHANGED job \/ FinishProducing
      PROVE  LinesInv'
  <2>1. InHand' = InHand
    BY <1>3 DEF InHand
  <2>2. InOnePlace'
    BY <1>3, <1>p, <2>1, LinesStay
  <2>3. Pending'
    BY <1>3, <1>p DEF Pending
  <2>4. job' # "producing" => read' = Len(file)
    BY <1>3, <1>p DEF FinishProducing
  <2>5. KeepsLines
    BY <1>3, <1>p, <2>2, <2>3, <2>4, AnswersStay DEF KeepsLines
  <2> QED  BY <1>f, <2>5, LinesKept
<1>4. CASE FinishProducing \/ JoinInput \/ Stop
  <2>1. UNCHANGED <<file, read, batch, queueIn, worker, queueOut, output, reported, blank>> /\ sink' = sink
    BY <1>4 DEF FinishProducing, JoinInput, Stop, input, finalizer
  <2>2. job # "producing" \/ UNCHANGED job \/ FinishProducing
    BY <1>4 DEF JoinInput, Stop
  <2>3. sink'.items = sink.items
    BY <2>1
  <2> QED  BY <1>3, <2>1, <2>2, <2>3
<1>5. CASE OpenOutput
  <2>1. UNCHANGED <<file, read, batch, queueIn, worker, queueOut, output, reported, blank, job>>
    BY <1>5 DEF OpenOutput, input
  <2>2. sink'.items = sink.items
    <3>1. PICK at : sink' = [sink EXCEPT !.at = at]
      BY <1>5 DEF OpenOutput
    <3>2. sink \in [at : {"opening", "idle", "writing", "dead"}, items : SUBSET Lines]
      BY DEF Shapes
    <3> QED  BY <3>1, <3>2
  <2> QED  BY <1>3, <2>1, <2>2
<1>6. CASE TakeResult
  <2>1. UNCHANGED <<file, read, batch, queueIn, worker, output, reported, blank, job>>
    BY <1>6 DEF TakeResult, input
  <2>2. InOnePlace' /\ DisjointIn(queueOut')
    BY <1>6, LinesTaken
  <2>3. Pending'
    BY <1>p, <2>1 DEF Pending
  <2>4. KeepsLines
    BY <1>p, <2>1, <2>2, <2>3, AnswersStay DEF KeepsLines
  <2> QED  BY <1>f, <2>4, LinesKept
<1>7. CASE WriteResult
  <2>1. UNCHANGED <<file, read, batch, queueIn, worker, queueOut, blank, job>>
    BY <1>7 DEF WriteResult, input
  <2>2. InOnePlace' /\ OneRecord(output', reported')
    BY <1>7, LinesWritten DEF OneRecord
  <2>3. Pending'
    BY <1>p, <2>1 DEF Pending
  <2>4. KeepsLines
    BY <1>p, <2>1, <2>2, <2>3, AnswersStay DEF KeepsLines
  <2> QED  BY <1>f, <2>4, LinesKept
<1>8. CASE JoinOutput
  <2>1. /\ UNCHANGED <<file, read, batch, queueIn, queueOut, sink, output, reported, blank>>
        /\ worker' = [w \in Workers |-> [worker[w] EXCEPT !.at = "cancelled"]]
        /\ job # "producing"
    BY <1>8 DEF JoinOutput, input, finalizer
  <2>2. ASSUME NEW w \in Workers
        PROVE  worker'[w].items = worker[w].items /\ worker'[w].at = "cancelled"
    <3>1. worker[w] \in WorkerStates
      BY DEF Shapes
    <3> QED  BY <2>1, <3>1 DEF WorkerStates
  <2>3. InHand' = InHand
    BY <2>2 DEF InHand
  <2>4. sink'.items = sink.items
    BY <2>1
  <2>5. InOnePlace'
    BY <1>p, <2>1, <2>3, <2>4, LinesStay
  <2>6. ApartHands(worker') /\ Answering(worker)'
    BY <1>p, <2>2 DEF ApartHands, Answering
  <2>7. WholeHands(worker')
    BY <1>p, <2>2 DEF WholeHands
  <2>8. Pending'
    BY <1>p, <2>1 DEF Pending
  <2>9. KeepsLines
    BY <1>p, <2>1, <2>5, <2>6, <2>7, <2>8 DEF KeepsLines
  <2> QED  BY <1>f, <2>9, LinesKept
<1> QED  BY <1>1, <1>2, <1>4, <1>5, <1>6, <1>7, <1>8 DEF Produce, Finalize, Join

(* A worker whose state becomes s, with a batch of its own or what it had.  *)
Proper(s) ==
  /\ Whole(s.items)
  /\ s.at = "putting" => s.result \subseteq s.items /\ s.items \ s.result \subseteq Unaccounted'

HandsKept(w, s) ==
  /\ UNCHANGED file /\ blank \subseteq blank'
  /\ worker' = [worker EXCEPT ![w] = s]
  /\ Proper(s)
  /\ s.items \cap InHand = {} \/ s.items \subseteq worker[w].items

(* Such a step keeps the batches of the workers whole, apart and answered.  *)
LEMMA HandsAfter ==
  ASSUME Shapes, LinesInv, NEW w \in Workers, NEW s, HandsKept(w, s)
  PROVE  /\ ApartHands(worker') /\ WholeHands(worker') /\ Answering(worker)'
         /\ InHand' = (InHand \ worker[w].items) \cup s.items /\ worker[w].items \subseteq InHand
<1>1. worker \in [Workers -> WorkerStates] /\ worker' = [worker EXCEPT ![w] = s] /\ Proper(s)
  BY DEF Shapes, HandsKept
<1>2. worker'[w] = s /\ \A v \in Workers : v # w => worker'[v] = worker[v]
  BY <1>1
<1>3. ApartHands(worker) /\ WholeHands(worker) /\ Answering(worker)
  BY LinesParts
<1>4. /\ InHand' = (InHand \ worker[w].items) \cup s.items /\ worker[w].items \subseteq InHand
      /\ ApartHands(worker')
  BY <1>1, <1>3, HandsChange DEF HandsKept, ApartHands
<1>5. WholeHands(worker')
  <2>1. ASSUME NEW v \in Workers
        PROVE  Whole(worker'[v].items)
    <3>1. CASE v = w
      BY <1>1, <1>2, <3>1 DEF Proper
    <3>2. CASE v # w
      BY <1>2, <1>3, <3>2 DEF WholeHands
    <3> QED  BY <3>1, <3>2
  <2> QED  BY <2>1 DEF WholeHands
<1>6. Answering(worker)'
  <2>1. Unaccounted \subseteq Unaccounted'
    BY DroppedForGood DEF HandsKept
  <2> QED  BY <1>1, <1>2, <1>3, <2>1 DEF Answering, Proper
<1> QED  BY <1>4, <1>5, <1>6

(* What a step of a worker has to keep, of what it can disturb.             *)
LEMMA LinesConsumed ==
  ASSUME LinesInv, NEW w \in Workers, Consume(w),
         InOnePlace', DisjointIn(queueIn'), DisjointIn(queueOut'), WholeQueue(queueIn'),
         ApartHands(worker') /\ WholeHands(worker') /\ Answering(worker)', OneRecord(output, reported')
  PROVE  LinesInv'
<1>1. UNCHANGED <<file, read, batch, output, job>>
  BY DEF Consume, Reply, TakeBatch, Answer, AnswerMalformed, FailAttempt, Retry, PutResult, input, finalizer
<1>2. Pending /\ (job # "producing" => read = Len(file))
  BY LinesParts
<1>3. Pending'
  BY <1>1, <1>2 DEF Pending
<1>4. KeepsLines
  BY <1>1, <1>2, <1>3 DEF KeepsLines
<1> QED  BY <1>1, <1>4, LinesKept

(* A worker that keeps its batch: it sends it, again, or has its answer.    *)
LEMMA LinesHeld ==
  ASSUME Shapes, LinesInv, NEW w \in Workers, Consume(w), NEW s, HandsKept(w, s), s.items = worker[w].items,
         UNCHANGED <<queueIn, queueOut, reported>>
  PROVE  LinesInv'
<1>1. /\ ApartHands(worker') /\ WholeHands(worker') /\ Answering(worker)'
      /\ InHand' = (InHand \ worker[w].items) \cup s.items /\ worker[w].items \subseteq InHand
  BY HandsAfter
<1>2. InHand' = InHand
  BY <1>1
<1>3. UNCHANGED <<file, read, batch, sink, output>>
  BY DEF Consume, Reply, TakeBatch, Answer, AnswerMalformed, FailAttempt, Retry, PutResult, input, finalizer
<1>4. InOnePlace /\ DisjointIn(queueIn) /\ DisjointIn(queueOut) /\ WholeQueue(queueIn) /\ OneRecord(output, reported)
  BY LinesParts
<1>5. sink'.items = sink.items
  BY <1>3
<1>6. InOnePlace'
  BY <1>2, <1>3, <1>4, <1>5, LinesStay DEF HandsKept
<1>7. DisjointIn(queueIn') /\ DisjointIn(queueOut') /\ WholeQueue(queueIn') /\ OneRecord(output, reported')
  BY <1>4
<1> QED  BY <1>1, <1>6, <1>7, LinesConsumed

(* A result for every line that an answer has to have one for.              *)
LEMMA ResultProper ==
  ASSUME Shapes, LinesInv, NEW w \in Workers, NEW lines, Finish(w, lines),
         lines \subseteq worker[w].items, UNCHANGED file, blank \subseteq blank',
         Answered(worker[w].items) \cup Invalid(worker[w].items) \subseteq lines \cup blank'
  PROVE  \E s : HandsKept(w, s) /\ s.items = worker[w].items
<1>1. PICK s : s = [worker[w] EXCEPT !.at = "putting", !.result = lines]
  OBVIOUS
<1>2. worker[w] \in WorkerStates
  BY DEF Shapes
<1>3. s.items = worker[w].items /\ s.result = lines
  BY <1>1, <1>2 DEF WorkerStates
<1>4. worker' = [worker EXCEPT ![w] = s]
  BY <1>1 DEF Finish, Shapes
<1>5. PICK b : b = worker[w].items
  OBVIOUS
<1>6. Whole(b) /\ b \subseteq Lines
  BY <1>2, <1>5 DEF LinesInv, WorkerStates
<1>7. b \ lines \subseteq Unaccounted'
  <2>1. Answered(b) \cup Invalid(b) \subseteq lines \cup blank'
    BY <1>5
  <2>2. \A l \in b : BatchOf(l) = b
    BY <1>6 DEF Whole
  <2>3. ASSUME NEW l \in b, l \notin lines
        PROVE  l \in Unaccounted'
    <3>1. CASE l \in blank'
      BY <3>1 DEF Unaccounted
    <3>2. CASE l \notin blank'
      <4>1. l \notin Answered(BatchOf(l)) \cup Invalid(BatchOf(l))
        BY <2>1, <2>2, <2>3, <3>2
      <4>2. l \in Unaccounted
        BY <1>6, <4>1 DEF Unaccounted
      <4> QED  BY <4>2, DroppedForGood
    <3> QED  BY <3>1, <3>2
  <2> QED  BY <2>3
<1>8. Proper(s)
  BY <1>3, <1>5, <1>6, <1>7 DEF Proper
<1> QED  BY <1>3, <1>4, <1>8 DEF HandsKept

(* The lines of a batch that is dropped with an error in the log are done;   *)
(* none of them had been done before.                                       *)
LEMMA LinesReported ==
  ASSUME Shapes, NEW b, b \subseteq Lines, b \cap Done = {}, reported' = reported \cup b,
         UNCHANGED <<file, output>>, OneRecord(output, reported)
  PROVE  Done' = Done \cup b /\ OneRecord(output, reported')
<1>1. Lines' = Lines
  BY SameBatches
<1>2. Done' = Done \cup b
  BY <1>1 DEF Done
<1>3. \A l \in Lines : output[l] \in Nat
  BY DEF Shapes
<1>4. \A l \in Lines : output[l] = 1 => l \notin b
  BY <1>3 DEF Done
<1>5. OneRecord(output, reported')
  BY <1>4 DEF OneRecord
<1> QED  BY <1>2, <1>5

(* A worker with nothing holds no lines.                                    *)
LEMMA IdleProper ==
  ASSUME NEW w \in Workers, worker' = [worker EXCEPT ![w] = Idle], UNCHANGED <<file, blank>>
  PROVE  HandsKept(w, Idle)
<1>1. Idle.items = {} /\ Idle.at = "idle"
  BY IdleTyping
<1>2. Proper(Idle)
  BY <1>1 DEF Proper, Whole
<1> QED  BY <1>1, <1>2 DEF HandsKept

(* A worker takes a batch: it is in its hands, or is dropped at once.       *)
LEMMA LinesTakenUp ==
  ASSUME Shapes, JoinsCount, LinesInv, NEW w \in Workers, TakeBatch(w)
  PROVE  LinesInv'
<1>1. /\ worker[w].at = "idle" /\ queueIn # <<>> /\ queueIn' = Tail(queueIn)
      /\ UNCHANGED <<file, read, batch, queueOut, sink, output, blank>>
  BY DEF TakeBatch, input
<1>2. PICK b : b = Head(queueIn)
  OBVIOUS
<1>3. queueIn \in Seq(SUBSET Lines) /\ worker[w].items = {}
  BY <1>1 DEF Shapes, JoinsCount
<1>4. /\ InOnePlace /\ DisjointIn(queueIn) /\ DisjointIn(queueOut) /\ WholeQueue(queueIn)
      /\ OneRecord(output, reported)
  BY LinesParts
<1>5. /\ LinesOf(queueIn') = LinesOf(queueIn) \ b /\ b \subseteq LinesOf(queueIn)
      /\ DisjointIn(queueIn') /\ b = queueIn[1] /\ 1 \in 1..Len(queueIn)
      /\ \A i \in 1..Len(queueIn') : queueIn'[i] = queueIn[i + 1] /\ i + 1 \in 1..Len(queueIn)
  BY <1>1, <1>2, <1>3, <1>4, TailLines
<1>6. Whole(b) /\ WholeQueue(queueIn')
  BY <1>4, <1>5 DEF WholeQueue
<1>7. b \subseteq Lines
  BY <1>3, <1>5
<1>8. /\ b \subseteq Stations[3] /\ b \subseteq b /\ b \ b \subseteq Unaccounted
      /\ Stations[3] = LinesOf(queueIn)
  BY <1>5, StationsAre
<1>9. b \cap InHand = {} /\ b \cap Done = {}
  <2>1. Stations[3] \cap Stations[7] = {}
    <3>1. 3 \in 1..7 /\ 7 \in 1..7
      OBVIOUS
    <3> QED  BY <1>4, <3>1 DEF InOnePlace, Parted
  <2>2. Stations[7] = Done /\ InHand \cap LinesOf(queueIn) = {}
    BY <1>4, StationsAre
  <2> QED  BY <1>8, <2>1, <2>2
<1>10. LinesOf(queueOut') = LinesOf(queueOut) /\ sink'.items = sink.items
  BY <1>1
<1>c. Consume(w)
  BY DEF Consume
<1>11. ASSUME NEW s, HandsKept(w, s), s.items = b, UNCHANGED reported
       PROVE  LinesInv'
  <2>1. /\ ApartHands(worker') /\ WholeHands(worker') /\ Answering(worker)'
        /\ InHand' = (InHand \ worker[w].items) \cup s.items
    BY <1>11, HandsAfter
  <2>2. InHand' = InHand \cup b /\ Done' = Done
    BY <1>1, <1>3, <1>11, <2>1, SameBatches DEF Done
  <2>3. /\ (read' + 1)..Len(file) = Gone(1, (read + 1)..Len(file), 3, 4, b, b)
        /\ batch' = Gone(2, batch, 3, 4, b, b)
        /\ LinesOf(queueIn') = Gone(3, LinesOf(queueIn), 3, 4, b, b)
        /\ InHand' = Gone(4, InHand, 3, 4, b, b)
        /\ LinesOf(queueOut') = Gone(5, LinesOf(queueOut), 3, 4, b, b)
        /\ sink'.items = Gone(6, sink.items, 3, 4, b, b)
        /\ Done' = Gone(7, Done, 3, 4, b, b)
    BY <1>1, <1>5, <1>10, <2>2 DEF Gone
  <2>4. 3 \in 1..7 /\ 4 \in 1..7 /\ 3 # 4
    OBVIOUS
  <2>5. InOnePlace'
    BY <1>1, <1>4, <1>8, <2>3, <2>4, LinesMove
  <2>6. DisjointIn(queueOut') /\ OneRecord(output, reported')
    BY <1>1, <1>4, <1>11
  <2> QED  BY <1>c, <1>5, <1>6, <2>1, <2>5, <2>6, LinesConsumed
<1>12. ASSUME Discard(w, b)
       PROVE  LinesInv'
  <2>1. worker' = [worker EXCEPT ![w] = Idle] /\ reported' = reported \cup b
    BY <1>12 DEF Discard
  <2>2. /\ ApartHands(worker') /\ WholeHands(worker') /\ Answering(worker)'
        /\ InHand' = (InHand \ worker[w].items) \cup Idle.items
    BY <1>1, <2>1, IdleProper, HandsAfter
  <2>3. InHand' = InHand
    BY <1>3, <2>2, IdleTyping
  <2>4. Done' = Done \cup b /\ OneRecord(output, reported')
    BY <1>1, <1>4, <1>7, <1>9, <2>1, LinesReported
  <2>5. /\ (read' + 1)..Len(file) = Gone(1, (read + 1)..Len(file), 3, 7, b, b)
        /\ batch' = Gone(2, batch, 3, 7, b, b)
        /\ LinesOf(queueIn') = Gone(3, LinesOf(queueIn), 3, 7, b, b)
        /\ InHand' = Gone(4, InHand, 3, 7, b, b)
        /\ LinesOf(queueOut') = Gone(5, LinesOf(queueOut), 3, 7, b, b)
        /\ sink'.items = Gone(6, sink.items, 3, 7, b, b)
        /\ Done' = Gone(7, Done, 3, 7, b, b)
    BY <1>1, <1>5, <1>10, <2>3, <2>4 DEF Gone
  <2>6. 3 \in 1..7 /\ 7 \in 1..7 /\ 3 # 7
    OBVIOUS
  <2>7. InOnePlace'
    BY <1>1, <1>4, <1>8, <2>5, <2>6, LinesMove
  <2>8. DisjointIn(queueOut')
    BY <1>1, <1>4
  <2> QED  BY <1>c, <1>5, <1>6, <2>2, <2>4, <2>7, <2>8, LinesConsumed
<1>13. CASE Invalid(b) = b /\ UNCHANGED reported
            /\ worker' = [worker EXCEPT ![w] = [Idle EXCEPT !.at = "putting", !.items = b, !.result = b]]
  <2>1. PICK s : s = [Idle EXCEPT !.at = "putting", !.items = b, !.result = b]
    OBVIOUS
  <2>2. s.items = b /\ s.result = b
    BY <2>1 DEF Idle
  <2>3. HandsKept(w, s)
    BY <1>1, <1>6, <1>9, <1>13, <2>1, <2>2 DEF HandsKept, Proper
  <2> QED  BY <1>11, <1>13, <2>2, <2>3
<1>14. CASE UNCHANGED reported /\ worker' = [worker EXCEPT ![w] = [Idle EXCEPT !.at = "sending", !.items = b]]
  <2>1. PICK s : s = [Idle EXCEPT !.at = "sending", !.items = b]
    OBVIOUS
  <2>2. s.items = b /\ s.at = "sending"
    BY <2>1 DEF Idle
  <2>3. HandsKept(w, s)
    BY <1>1, <1>6, <1>9, <1>14, <2>1, <2>2 DEF HandsKept, Proper
  <2> QED  BY <1>11, <1>14, <2>2, <2>3
<1> QED  BY <1>2, <1>12, <1>13, <1>14 DEF TakeBatch

(* An attempt that fails leaves the batch with the worker.                  *)
LEMMA LinesAttempted ==
  ASSUME Shapes, LinesInv, NEW w \in Workers, worker[w].at = "sending", Attempt(w),
         UNCHANGED <<file, blank>>
  PROVE  /\ \E s : HandsKept(w, s) /\ s.items = worker[w].items
         /\ UNCHANGED reported
<1> DEFINE b == worker[w].items
           n == worker[w].tries + 1
<1>1. CASE n = Retries
  <2>1. /\ Indices(b) \cup Invalid(b) \subseteq b
        /\ Answered(b) \cup Invalid(b) \subseteq Indices(b) \cup Invalid(b)
    BY DEF Answered, Indices, Invalid
  <2>2. Finish(w, Indices(b) \cup Invalid(b))
    BY <1>1 DEF Attempt
  <2>3. \E s : HandsKept(w, s) /\ s.items = b
    BY <2>1, <2>2, ResultProper
  <2> QED  BY <2>2, <2>3 DEF Finish
<1>2. CASE n # Retries
  <2>1. worker[w] \in WorkerStates
    BY DEF Shapes
  <2>2. worker' = [worker EXCEPT ![w] = [worker[w] EXCEPT !.at = "retrying", !.tries = n]] /\ UNCHANGED reported
    BY <1>2 DEF Attempt, Shapes
  <2>3. PICK s : s = [worker[w] EXCEPT !.at = "retrying", !.tries = n]
    OBVIOUS
  <2>4. s.items = b /\ s.at = "retrying"
    BY <2>1, <2>3 DEF WorkerStates
  <2>5. Whole(s.items)
    BY <2>4 DEF LinesInv
  <2>6. HandsKept(w, s)
    BY <2>2, <2>3, <2>4, <2>5 DEF HandsKept, Proper
  <2> QED  BY <2>2, <2>4, <2>6
<1> QED  BY <1>1, <1>2

(* A worker drops the batch it sent: its lines are in the log.              *)
LEMMA LinesDropped ==
  ASSUME Shapes, LinesInv, NEW w \in Workers, AnswerMalformed(w)
  PROVE  LinesInv'
<1>1. /\ worker' = [worker EXCEPT ![w] = Idle] /\ reported' = reported \cup worker[w].items
      /\ UNCHANGED <<file, read, batch, queueIn, queueOut, sink, output, blank>>
  BY DEF AnswerMalformed, Discard, input
<1>2. PICK b : b = worker[w].items
  OBVIOUS
<1>3. /\ ApartHands(worker') /\ WholeHands(worker') /\ Answering(worker)'
      /\ InHand' = (InHand \ worker[w].items) \cup Idle.items /\ worker[w].items \subseteq InHand
  BY <1>1, IdleProper, HandsAfter
<1>4. InHand' = InHand \ b /\ b \subseteq InHand
  BY <1>2, <1>3, IdleTyping
<1>5. b \subseteq Lines
  BY <1>2 DEF Shapes, WorkerStates
<1>6. InOnePlace /\ DisjointIn(queueIn) /\ DisjointIn(queueOut) /\ WholeQueue(queueIn) /\ OneRecord(output, reported)
  BY LinesParts
<1>7. b \cap Done = {}
  <2>1. Stations[4] \cap Stations[7] = {}
    <3>1. 4 \in 1..7 /\ 7 \in 1..7
      OBVIOUS
    <3> QED  BY <1>6, <3>1 DEF InOnePlace, Parted
  <2> QED  BY <1>4, <2>1, StationsAre
<1>8. Done' = Done \cup b /\ OneRecord(output, reported')
  BY <1>1, <1>2, <1>5, <1>6, <1>7, LinesReported
<1>9. LinesOf(queueIn') = LinesOf(queueIn) /\ LinesOf(queueOut') = LinesOf(queueOut) /\ sink'.items = sink.items
  BY <1>1
<1>10. /\ b \subseteq Stations[4] /\ b \subseteq b /\ b \ b \subseteq Unaccounted
       /\ (read' + 1)..Len(file) = Gone(1, (read + 1)..Len(file), 4, 7, b, b)
       /\ batch' = Gone(2, batch, 4, 7, b, b)
       /\ LinesOf(queueIn') = Gone(3, LinesOf(queueIn), 4, 7, b, b)
       /\ InHand' = Gone(4, InHand, 4, 7, b, b)
       /\ LinesOf(queueOut') = Gone(5, LinesOf(queueOut), 4, 7, b, b)
       /\ sink'.items = Gone(6, sink.items, 4, 7, b, b)
       /\ Done' = Gone(7, Done, 4, 7, b, b)
  BY <1>1, <1>4, <1>8, <1>9, StationsAre DEF Gone
<1>11. 4 \in 1..7 /\ 7 \in 1..7 /\ 4 # 7
  OBVIOUS
<1>12. InOnePlace'
  BY <1>1, <1>6, <1>10, <1>11, LinesMove
<1>13. Consume(w)
  BY DEF Consume, Reply
<1>14. DisjointIn(queueIn') /\ DisjointIn(queueOut') /\ WholeQueue(queueIn')
  BY <1>1, <1>6
<1> QED  BY <1>3, <1>8, <1>12, <1>13, <1>14, LinesConsumed

(* A worker hands its result on: the lines without one are unaccounted.     *)
LEMMA LinesHandedOn ==
  ASSUME Shapes, LinesInv, NEW w \in Workers, PutResult(w)
  PROVE  LinesInv'
<1>1. /\ worker[w].at = "putting" /\ worker' = [worker EXCEPT ![w] = Idle]
      /\ queueOut' = Append(queueOut, worker[w].result)
      /\ UNCHANGED <<file, read, batch, queueIn, sink, output, reported, blank>>
  BY DEF PutResult, input, finalizer
<1>2. PICK b : b = worker[w].items
  OBVIOUS
<1>3. PICK c : c = worker[w].result
  OBVIOUS
<1>4. /\ ApartHands(worker') /\ WholeHands(worker') /\ Answering(worker)'
      /\ InHand' = (InHand \ worker[w].items) \cup Idle.items /\ worker[w].items \subseteq InHand
  BY <1>1, IdleProper, HandsAfter
<1>5. InHand' = InHand \ b /\ b \subseteq InHand
  BY <1>2, <1>4, IdleTyping
<1>6. c \subseteq b /\ b \ c \subseteq Unaccounted
  BY <1>1, <1>2, <1>3 DEF LinesInv
<1>7. c \in SUBSET Lines
  BY <1>3 DEF Shapes, WorkerStates
<1>8. InOnePlace /\ DisjointIn(queueIn) /\ DisjointIn(queueOut) /\ WholeQueue(queueIn) /\ OneRecord(output, reported)
  BY LinesParts
<1>9. LinesOf(queueOut') = LinesOf(queueOut) \cup c /\ DisjointIn(queueOut')
  <2>1. queueOut \in Seq(SUBSET Lines) /\ queueOut' = Append(queueOut, c)
    BY <1>1, <1>3 DEF Shapes
  <2>2. InHand \cap LinesOf(queueOut) = {}
    BY <1>8, StationsAre
  <2>3. c \cap LinesOf(queueOut) = {}
    BY <1>5, <1>6, <2>2
  <2>4. DisjointIn(queueOut) /\ c \cap LinesOf(queueOut) = {}
    BY <1>8, <2>3
  <2>5. /\ LinesOf(Append(queueOut, c)) = LinesOf(queueOut) \cup c
        /\ DisjointIn(queueOut) /\ c \cap LinesOf(queueOut) = {} => DisjointIn(Append(queueOut, c))
    BY <1>7, <2>1, AppendLines
  <2> QED  BY <2>1, <2>4, <2>5
<1>10. Done' = Done /\ LinesOf(queueIn') = LinesOf(queueIn) /\ sink'.items = sink.items
  BY <1>1, SameBatches DEF Done
<1>11. /\ b \subseteq Stations[4]
       /\ (read' + 1)..Len(file) = Gone(1, (read + 1)..Len(file), 4, 5, b, c)
       /\ batch' = Gone(2, batch, 4, 5, b, c)
       /\ LinesOf(queueIn') = Gone(3, LinesOf(queueIn), 4, 5, b, c)
       /\ InHand' = Gone(4, InHand, 4, 5, b, c)
       /\ LinesOf(queueOut') = Gone(5, LinesOf(queueOut), 4, 5, b, c)
       /\ sink'.items = Gone(6, sink.items, 4, 5, b, c)
       /\ Done' = Gone(7, Done, 4, 5, b, c)
  BY <1>1, <1>5, <1>9, <1>10, StationsAre DEF Gone
<1>12. 4 \in 1..7 /\ 5 \in 1..7 /\ 4 # 5
  OBVIOUS
<1>13. InOnePlace'
  BY <1>1, <1>6, <1>8, <1>11, <1>12, LinesMove
<1>14. Consume(w)
  BY DEF Consume
<1>15. DisjointIn(queueIn') /\ WholeQueue(queueIn') /\ OneRecord(output, reported')
  BY <1>1, <1>8
<1> QED  BY <1>4, <1>9, <1>13, <1>14, <1>15, LinesConsumed

(* The steps of the workers.                                                *)
LEMMA LinesOfConsume ==
  ASSUME Shapes, JoinsCount, LinesInv, NEW w \in Workers, Consume(w)
  PROVE  LinesInv'
<1>1. CASE TakeBatch(w)
  BY <1>1, LinesTakenUp
<1>2. CASE Answer(w)
  <2> DEFINE b == worker[w].items
  <2>1. PICK lines : /\ Finish(w, lines) /\ UNCHANGED <<queueIn, queueOut>>
                     /\ lines \subseteq b /\ UNCHANGED file /\ blank \subseteq blank'
                     /\ Answered(b) \cup Invalid(b) \subseteq lines \cup blank'
    <3>1. Answered(b) \cup Invalid(b) \subseteq b
      BY DEF Answered, Indices, Invalid
    <3>2. /\ \/ Finish(w, Answered(b) \cup Invalid(b)) /\ UNCHANGED blank
             \/ Finish(w, Invalid(b)) /\ blank' = blank \cup Answered(b)
          /\ UNCHANGED <<file, queueIn, queueOut>>
      BY <1>2 DEF Answer, input
    <3>3. CASE Finish(w, Answered(b) \cup Invalid(b)) /\ UNCHANGED blank
      BY <3>1, <3>2, <3>3
    <3>4. CASE Finish(w, Invalid(b)) /\ blank' = blank \cup Answered(b)
      BY <3>1, <3>2, <3>4
    <3> QED  BY <3>2, <3>3, <3>4
  <2>3. PICK s : HandsKept(w, s) /\ s.items = b
    BY <2>1, ResultProper
  <2>4. UNCHANGED reported
    BY <2>1 DEF Finish
  <2> QED  BY <2>1, <2>3, <2>4, LinesHeld
<1>3. CASE AnswerMalformed(w)
  BY <1>3, LinesDropped
<1>4. CASE FailAttempt(w)
  <2>1. worker[w].at = "sending" /\ Attempt(w) /\ UNCHANGED <<queueIn, queueOut, file, blank>>
    BY <1>4 DEF FailAttempt, input
  <2>2. UNCHANGED reported /\ \E s : HandsKept(w, s) /\ s.items = worker[w].items
    BY <2>1, LinesAttempted
  <2>3. PICK s : HandsKept(w, s) /\ s.items = worker[w].items
    BY <2>2
  <2> QED  BY <2>1, <2>2, <2>3, LinesHeld
<1>5. CASE Retry(w)
  <2>1. worker[w] \in WorkerStates
    BY DEF Shapes
  <2>2. PICK s : s = [worker[w] EXCEPT !.at = "sending"]
    OBVIOUS
  <2>3. s.items = worker[w].items /\ s.at = "sending"
    BY <2>1, <2>2 DEF WorkerStates
  <2>4. worker' = [worker EXCEPT ![w] = s] /\ UNCHANGED <<queueIn, queueOut, reported, file, blank>>
    BY <1>5, <2>2 DEF Retry, Shapes, finalizer, input
  <2>5. Whole(s.items)
    BY <2>3 DEF LinesInv
  <2>6. HandsKept(w, s)
    BY <2>3, <2>4, <2>5 DEF HandsKept, Proper
  <2> QED  BY <2>3, <2>4, <2>6, LinesHeld
<1>6. CASE PutResult(w)
  BY <1>6, LinesHandedOn
<1> QED  BY <1>1, <1>2, <1>3, <1>4, <1>5, <1>6 DEF Consume, Reply

-----------------------------------------------------------------------------
(* As the job starts every line is still to be read.                        *)
LEMMA LinesInit == Init => LinesInv
<1> SUFFICES ASSUME Init PROVE LinesInv
  OBVIOUS
<1>1. /\ read = 0 /\ batch = {} /\ queueIn = <<>> /\ queueOut = <<>> /\ reported = {}
      /\ worker = [w \in Workers |-> Idle] /\ sink = [at |-> "opening", items |-> {}]
      /\ output = [l \in Lines |-> 0] /\ job = "producing"
  BY DEF Init
<1>2. Len(file) \in Nat
  BY FiniteLines, ShapesInit DEF Shapes
<1>3. \A w \in Workers : worker[w].items = {} /\ worker[w].at = "idle"
  BY <1>1, IdleTyping
<1>4. LinesOf(queueIn) = {} /\ LinesOf(queueOut) = {} /\ InHand = {} /\ Done = {} /\ sink.items = {}
  <2>1. Len(queueIn) = 0 /\ Len(queueOut) = 0
    BY <1>1
  <2>2. LinesOf(queueIn) = {} /\ LinesOf(queueOut) = {}
    BY <2>1 DEF LinesOf
  <2>3. InHand = {}
    BY <1>3 DEF InHand
  <2>4. Done = {}
    BY <1>1 DEF Done
  <2> QED  BY <1>1, <2>2, <2>3, <2>4
<1>5. PICK S : S = Stations
  OBVIOUS
<1>6. /\ S[1] = Lines /\ S[2] = {} /\ S[3] = {} /\ S[4] = {} /\ S[5] = {} /\ S[6] = {} /\ S[7] = {}
  <2>1. (read + 1)..Len(file) = Lines
    BY <1>1, <1>2 DEF Lines
  <2> QED  BY <1>1, <1>4, <1>5, <2>1, StationsAre
<1>7. InOnePlace
  <2>1. \A p \in 1..7 : p = 1 \/ p = 2 \/ p = 3 \/ p = 4 \/ p = 5 \/ p = 6 \/ p = 7
    OBVIOUS
  <2>2. \A p \in 1..7 : p = 1 \/ S[p] = {}
    BY <1>6, <2>1
  <2>3. Parted(S)
    BY <2>2 DEF Parted
  <2>4. \A l \in Lines : \E p \in 1..7 : l \in S[p]
    <3>1. 1 \in 1..7
      OBVIOUS
    <3> QED  BY <1>6, <3>1
  <2> QED  BY <1>5, <2>3, <2>4 DEF InOnePlace
<1>8. DisjointIn(queueIn) /\ DisjointIn(queueOut) /\ WholeQueue(queueIn)
  <2>1. Len(queueIn) = 0 /\ Len(queueOut) = 0
    BY <1>1
  <2> QED  BY <2>1 DEF DisjointIn, WholeQueue
<1>9. ApartHands(worker) /\ WholeHands(worker) /\ Answering(worker)
  BY <1>3 DEF ApartHands, WholeHands, Answering, Whole
<1>10. OneRecord(output, reported)
  BY <1>1 DEF OneRecord
<1>11. Pending
  <2>1. BatchSize \in Nat \ {0}
    BY SizeAssumption
  <2>2. PICK c \in Nat : c = 0
    OBVIOUS
  <2>3. BatchSize * c = 0
    BY <2>1, <2>2
  <2>4. BatchSize * c =< read /\ batch = (BatchSize * c + 1)..read
    BY <1>1, <2>3
  <2> QED  BY <2>4 DEF Pending
<1> QED  BY <1>1, <1>7, <1>8, <1>9, <1>10, <1>11, LinesParts

(* LinesInv is inductive, with the types and the counts.                    *)
LEMMA LinesAlways == Spec => []LinesInv
<1>1. Init => LinesInv
  BY LinesInit
<1>2. Shapes /\ JoinsCount /\ LinesInv /\ [Next]_vars => LinesInv'
  <2> SUFFICES ASSUME Shapes, JoinsCount, LinesInv, [Next]_vars
               PROVE  LinesInv'
    OBVIOUS
  <2>1. CASE Produce \/ Finalize \/ Join
    BY <2>1, LinesOfTheRest
  <2>2. ASSUME NEW w \in Workers, Consume(w)
        PROVE  LinesInv'
    BY <2>2, LinesOfConsume
  <2>3. CASE UNCHANGED vars
    <3>1. UNCHANGED <<file, read, batch, queueIn, worker, queueOut, sink, output, reported, blank, job>>
      BY <2>3 DEF vars, input, finalizer
    <3>2. /\ InOnePlace /\ DisjointIn(queueIn) /\ DisjointIn(queueOut)
          /\ ApartHands(worker) /\ WholeQueue(queueIn) /\ WholeHands(worker) /\ Answering(worker)
          /\ OneRecord(output, reported) /\ Pending /\ (job # "producing" => read = Len(file))
      BY LinesParts
    <3>3. InHand' = InHand /\ sink'.items = sink.items
      BY <3>1 DEF InHand
    <3>4. InOnePlace'
      BY <3>1, <3>2, <3>3, LinesStay
    <3>5. Pending'
      BY <3>1, <3>2 DEF Pending
    <3>6. KeepsLines
      BY <3>1, <3>2, <3>4, <3>5, AnswersStay DEF KeepsLines
    <3> QED  BY <3>1, <3>6, LinesKept
  <2> QED  BY <2>1, <2>2, <2>3 DEF Next
<1> QED  BY <1>1, <1>2, Invariance, PTL DEF Spec

(* process_batch: when it returns, the output and the log together have one *)
(* record of each line of the input, and at most one of a line that shares  *)
(* its id with a later one of its batch, that has no inputs or whose batch  *)
(* was answered without outputs (requests.py:201), whatever the server      *)
(* answered and however often, for any file and any --workers, --batch-size *)
(* and --retries.                                                           *)
THEOREM EveryLineOnce == Spec => []EachLineOnce
<1>1. Shapes /\ JoinsCount /\ LinesInv => EachLineOnce
  <2> SUFFICES ASSUME Shapes, JoinsCount, LinesInv, job = "ended", NEW l \in Lines
               PROVE  LET n == output[l] + IF l \in reported THEN 1 ELSE 0
                      IN  n = 1 \/ (n = 0 /\ l \in Unaccounted)
    BY DEF EachLineOnce
  <2>1. /\ queueIn = <<>> /\ queueOut = <<>> /\ batch = {} /\ Busy = {} /\ sink.items = {}
        /\ read = Len(file)
    BY DEF JoinsCount, LinesInv
  <2>2. LinesOf(queueIn) = {} /\ LinesOf(queueOut) = {} /\ InHand = {} /\ (read + 1)..Len(file) = {}
    <3>1. Len(queueIn) = 0 /\ Len(queueOut) = 0
      BY <2>1
    <3>2. Len(file) \in Nat
      BY ReadTyping
    <3> QED  BY <2>1, <3>1, <3>2 DEF LinesOf, InHand, Busy
  <2>3. \A i \in 1..7 : i = 7 \/ Stations[i] = {}
    <3>1. \A p \in 1..7 : p = 1 \/ p = 2 \/ p = 3 \/ p = 4 \/ p = 5 \/ p = 6 \/ p = 7
      OBVIOUS
    <3> QED  BY <2>1, <2>2, <3>1, StationsAre
  <2>4. l \in Unaccounted \/ l \in Done
    BY <2>3, StationsAre DEF LinesInv, InOnePlace
  <2>5. output[l] \in Nat /\ output[l] =< 1 /\ (output[l] = 1 => l \notin reported)
    BY DEF Shapes, LinesInv
  <2>6. l \in Done <=> output[l] > 0 \/ l \in reported
    BY <2>5 DEF Done, Shapes
  <2>7. CASE l \in reported
    <3>1. output[l] = 0
      BY <2>5, <2>7
    <3> QED  BY <2>7, <3>1
  <2>8. CASE l \notin reported
    <3>1. output[l] = 1 \/ (output[l] = 0 /\ l \in Unaccounted)
      BY <2>4, <2>5, <2>6, <2>8
    <3> QED  BY <2>5, <2>8, <3>1
  <2> QED  BY <2>7, <2>8
<1> QED  BY <1>1, Invariance, LinesAlways, PTL

=============================================================================
