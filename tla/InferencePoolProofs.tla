------------------------- MODULE InferencePoolProofs -------------------------
(* Proofs about InferencePool, for any workers, models and plans.           *)
EXTENDS InferencePool, FiniteSets, TLAPS, FiniteSetTheorems, FunctionTheorems, SequenceTheorems

(* Rows in which nothing comes twice.                                       *)

(* Taking an element out leaves elements of the same set. *)
LEMMA WithoutTyping ==
  ASSUME NEW S, NEW row \in Seq(S), NEW r
  PROVE  Without(row, r) \in Seq(S)
<1>1. CASE r \notin Range(row)
  BY <1>1 DEF Without
<1>2. CASE r \in Range(row)
  <2>1. \E k \in 1..Len(row) : row[k] = r
    BY <1>2 DEF Range
  <2> DEFINE at == CHOOSE k \in 1..Len(row) : row[k] = r
  <2>2. at \in 1..Len(row)
    BY <2>1
  <2> HIDE DEF at
  <2>3. [i \in 1..(Len(row) - 1) |-> row[IF i < at THEN i ELSE i + 1]] \in Seq(S)
    BY <2>2
  <2> QED  BY <1>2, <2>3 DEF Without, at
<1> QED  BY <1>1, <1>2

(* Taking one out leaves all others, each once (del _workers[pid]).          *)
LEMMA WithoutDistinct ==
  ASSUME NEW S, NEW row \in Seq(S), NEW r, Distinct(row)
  PROVE  /\ Without(row, r) \in Seq(S) /\ Distinct(Without(row, r))
         /\ \A i \in 1..Len(Without(row, r)) :
              \E j \in 1..Len(row) : Without(row, r)[i] = row[j] /\ row[j] # r
         /\ Range(Without(row, r)) = Range(row) \ {r}
<1>1. CASE r \notin Range(row)
  BY <1>1 DEF Without, Range
<1>2. CASE r \in Range(row)
  <2>1. \E k \in 1..Len(row) : row[k] = r
    BY <1>2 DEF Range
  <2> DEFINE at == CHOOSE k \in 1..Len(row) : row[k] = r
             n == Len(row)
             from(i) == IF i < at THEN i ELSE i + 1
             rest == [i \in 1..(n - 1) |-> row[from(i)]]
  <2>2. at \in 1..n /\ row[at] = r /\ n \in Nat
    BY <2>1
  <2>3. Without(row, r) = rest
    BY <1>2 DEF Without
  <2>4. \A i \in 1..n : row[i] \in S
    OBVIOUS
  <2> HIDE DEF at, n
  <2>5. \A i \in 1..(n - 1) : from(i) \in (1..n) \ {at}
    BY <2>2
  <2>6. rest \in Seq(S) /\ Len(rest) = n - 1 /\ \A i \in 1..(n - 1) : rest[i] = row[from(i)]
    BY <2>2, <2>4, <2>5
  <2>7. \A i, j \in 1..n : row[i] = row[j] => i = j
    BY DEF Distinct, n
  <2>8. \A i \in 1..(n - 1) : row[from(i)] # r
    BY <2>2, <2>5, <2>7
  <2>9. \A j \in (1..n) \ {at} : \E i \in 1..(n - 1) : from(i) = j
    <3> SUFFICES ASSUME NEW j \in (1..n) \ {at}
                 PROVE  \E i \in 1..(n - 1) : from(i) = j
      OBVIOUS
    <3>1. CASE j < at
      <4>1. j \in 1..(n - 1) /\ from(j) = j
        BY <2>2, <3>1
      <4> QED  BY <4>1
    <3>2. CASE ~(j < at)
      <4>1. j - 1 \in 1..(n - 1) /\ from(j - 1) = j
        BY <2>2, <3>2
      <4> QED  BY <4>1
    <3> QED  BY <3>1, <3>2
  <2>10. \A i, j \in 1..(n - 1) : from(i) = from(j) => i = j
    BY <2>2
  <2> HIDE DEF from, rest
  <2>11. Distinct(rest)
    BY <2>5, <2>6, <2>7, <2>10 DEF Distinct
  <2>12. Range(rest) = Range(row) \ {r}
    <3>1. DOMAIN rest = 1..(n - 1) /\ DOMAIN row = 1..n
      BY <2>6 DEF n
    <3>2. \A j \in 1..n : row[j] # r => \E i \in 1..(n - 1) : rest[i] = row[j]
      BY <2>2, <2>6, <2>9
    <3>3. \A i \in 1..(n - 1) : from(i) \in 1..n
      BY <2>5
    <3> DEFINE T == Range(row)
    <3>4. \A x : x \in T <=> \E j \in 1..n : row[j] = x
      BY <3>1 DEF Range
    <3>5. \A x : x \in Range(rest) <=> \E i \in 1..(n - 1) : rest[i] = x
      BY <3>1 DEF Range
    <3> HIDE DEF T
    <3>6. \A x : x \in Range(rest) => x \in T \ {r}
      BY <2>6, <2>8, <3>3, <3>4, <3>5
    <3>7. \A x : x \in T \ {r} => x \in Range(rest)
      BY <3>2, <3>4, <3>5
    <3> QED  BY <3>6, <3>7 DEF T
  <2> QED  BY <2>3, <2>5, <2>6, <2>8, <2>11, <2>12 DEF n
<1> QED  BY <1>1, <1>2

(* An element that is new goes to the end (Queue.put, a key of a dict).       *)
LEMMA AppendDistinct ==
  ASSUME NEW S, NEW row \in Seq(S), Distinct(row), NEW x \in S, x \notin Range(row)
  PROVE  /\ Append(row, x) \in Seq(S) /\ Distinct(Append(row, x))
         /\ Range(Append(row, x)) = Range(row) \cup {x}
<1>1. /\ Append(row, x) \in Seq(S) /\ Len(Append(row, x)) = Len(row) + 1 /\ Len(row) \in Nat
      /\ \A i \in 1..(Len(row) + 1) : Append(row, x)[i] = IF i = Len(row) + 1 THEN x ELSE row[i]
  OBVIOUS
<1>2. DOMAIN Append(row, x) = 1..(Len(row) + 1) /\ DOMAIN row = 1..Len(row)
  OBVIOUS
<1>3. \A i \in 1..Len(row) : row[i] # x
  BY <1>2 DEF Range
<1>4. Distinct(Append(row, x))
  BY <1>1, <1>3 DEF Distinct
<1>5. Range(Append(row, x)) = Range(row) \cup {x}
  BY <1>1, <1>2 DEF Range
<1> QED  BY <1>1, <1>4, <1>5

(* A row is one of any set that has its elements. *)
LEMMA RowOfRange ==
  ASSUME NEW S, NEW row \in Seq(S), NEW T, Range(row) \subseteq T
  PROVE  row \in Seq(T)
<1>1. row \in [1..Len(row) -> S] /\ Len(row) \in Nat
  BY LenProperties
<1>2. row \in [1..Len(row) -> T]
  BY <1>1 DEF Range
<1> QED  BY <1>1, <1>2

-----------------------------------------------------------------------------

(* Every message has a kind, a worker and a model of the instance. *)
LEMMA MessageParts ==
  ASSUME plan \in Plans
  PROVE  /\ \A u \in Updates : u.kind \in {"load", "reload", "unload"} /\ u.model \in Models
         /\ \A m \in Messages : /\ m.worker \in Pids /\ m.model \in Models
                                /\ m.kind \in {"call", "load", "reload", "unload", "restore"}
         /\ \A c \in Calls, m \in Models, p \in Pids : Message("call", c.id, m, p) \in Messages
         /\ \A c \in Calls, m \in Models, p \in Pids : Message("call", c.id, m, p) \notin ModelMessages
         /\ \A u \in Updates, p \in Pids : Message(u.kind, u.id, u.model, p) \in ModelMessages
         /\ \A m \in Models, p \in Pids : Message("restore", p, m, p) \in ModelMessages
         /\ ModelMessages \subseteq Messages
<1>1. \A u \in Updates : u.kind \in {"load", "reload", "unload"} /\ u.model \in Models
  BY PlansAssumption DEF Updates
<1>2. \A kind, id, model, p : /\ Message(kind, id, model, p).kind = kind
                              /\ Message(kind, id, model, p).model = model
                              /\ Message(kind, id, model, p).worker = p
  BY DEF Message
<1>3. \A m \in Messages : /\ m.worker \in Pids /\ m.model \in Models
                          /\ m.kind \in {"call", "load", "reload", "unload", "restore"}
  BY <1>1, <1>2 DEF Messages
<1>4. /\ \A c \in Calls, m \in Models, p \in Pids : Message("call", c.id, m, p) \in Messages
      /\ \A u \in Updates, p \in Pids : Message(u.kind, u.id, u.model, p) \in Messages
      /\ \A m \in Models, p \in Pids : Message("restore", p, m, p) \in Messages
  BY DEF Messages
<1>5. \A m : m \in ModelMessages <=> m \in Messages /\ m.kind # "call"
  BY DEF ModelMessages
<1> QED  BY <1>1, <1>2, <1>3, <1>4, <1>5

(* The plan of a behaviour stays, and with it the messages it may send. *)
LEMMA PlanStays ==
  ASSUME [Next]_vars
  PROVE  /\ plan' = plan /\ Messages' = Messages /\ Updates' = Updates /\ Calls' = Calls
         /\ ModelMessages' = ModelMessages
<1>1. plan' = plan
  BY DEF Next, vars, osVars, ProcessCall, StartLoad, EndLoad, Unload, Die, Signal, DispatchRequest,
     SendScheduled, Resolve, WaitUpdate, BeginUpdate, FinishUpdate, FailUpdate, HandleWorkerStop,
     HandleNoStop, StartWorker, BeginRestore, FinishRestore, FailRestore, workerVars, poolVars,
     lockVars, msgVars
<1> QED  BY <1>1 DEF Messages, ModelMessages, Updates, Calls

(* The lock has one owner at most, so what is inside of it can be counted.   *)
OneInside == holder = {} \/ \E u \in Updates : holder = {u}

(* Counting none, and one.                                                  *)
LEMMA OneCounts == Cardinality({}) = 0 /\ \A u : Cardinality({u}) = 1
BY FS_EmptySet, FS_Singleton

(* Only processes that were started are workers, or restore models.         *)
Born == \A p \in Pids : p \in Range(workers) \/ restart[p] # "none" => proc[p] # "unborn"

TypeInv == TypeOK /\ OneInside /\ Born

(* The rows of workers: one that is added, and one that is taken out.        *)
LEMMA WorkersTyping ==
  ASSUME workers \in Seq(Pids), Distinct(workers), rotation \in Seq(Range(workers)), NEW p \in Pids
  PROVE  /\ Without(workers, p) \in Seq(Pids) /\ Distinct(Without(workers, p))
         /\ Range(Without(workers, p)) = Range(workers) \ {p}
         /\ p \notin Range(workers) =>
              /\ Append(workers, p) \in Seq(Pids) /\ Distinct(Append(workers, p))
              /\ Range(Append(workers, p)) = Range(workers) \cup {p}
              /\ rotation \in Seq(Range(Append(workers, p)))
         /\ \A row \in Seq(Pids) : row \in Seq(Range(row))
<1>1. /\ Without(workers, p) \in Seq(Pids) /\ Distinct(Without(workers, p))
      /\ Range(Without(workers, p)) = Range(workers) \ {p}
  BY WithoutTyping, WithoutDistinct
<1>2. ASSUME p \notin Range(workers)
      PROVE  /\ Append(workers, p) \in Seq(Pids) /\ Distinct(Append(workers, p))
             /\ Range(Append(workers, p)) = Range(workers) \cup {p}
  BY <1>2, AppendDistinct
<1>3. \A T : Range(workers) \subseteq T => rotation \in Seq(T)
  BY SeqMonotonic
<1>4. \A row \in Seq(Pids) : row \in Seq(Range(row))
  BY RowOfRange
<1> QED  BY <1>1, <1>2, <1>3, <1>4

(* What a step may do to the workers and their processes: a dead one is      *)
(* found, one that was not there is started or filed, and one may die.      *)
LEMMA BornStep ==
  ASSUME TypeOK, Born, [Next]_vars
  PROVE  Born'
<1>w. /\ workers \in Seq(Pids) /\ Distinct(workers) /\ rotation \in Seq(Range(workers))
      /\ proc \in [Pids -> {"unborn", "up", "zombie", "reaped"}]
      /\ restart \in [Pids -> {"none", "locking", "restoring", "ready", "failed"}]
  BY DEF TypeOK
<1>1. ASSUME UNCHANGED <<proc, workers, restart>>
      PROVE  Born'
  BY <1>1 DEF Born
<1>2. ASSUME NEW p \in Pids, Die(p)
      PROVE  Born'
  BY <1>2, <1>w DEF Die, Born, poolVars, lockVars, msgVars
<1>3. ASSUME NEW p \in Pids, HandleWorkerStop(p)
      PROVE  Born'
  <2>1. Range(workers') \subseteq Range(workers)
    <3>1. Range(Without(workers, p)) = Range(workers) \ {p}
      BY <1>w, WorkersTyping
    <3> QED  BY <1>3, <3>1 DEF HandleWorkerStop, workerVars, lockVars
  <2> QED  BY <1>3, <1>w, <2>1 DEF HandleWorkerStop, Born, workerVars, lockVars
<1>4. ASSUME NEW p \in Pids, StartWorker(p)
      PROVE  Born'
  <2>1. p \notin Range(workers) /\ workers' = Append(workers, p)
    BY <1>4 DEF StartWorker, Born, workerVars, msgVars
  <2>2. Range(workers') = Range(workers) \cup {p}
    BY <1>w, <2>1, WorkersTyping
  <2> QED  BY <1>4, <1>w, <2>2 DEF StartWorker, Born, workerVars, msgVars
<1>5. ASSUME NEW p \in Pids, BeginRestore(p)
      PROVE  Born'
  <2>1. Range(workers') \subseteq Range(workers) \cup {p}
    <3>1. p \notin Range(workers) => Range(Append(workers, p)) = Range(workers) \cup {p}
      BY <1>w, WorkersTyping
    <3> QED  BY <1>5, <3>1 DEF BeginRestore, osVars, workerVars
  <2> QED  BY <1>5, <1>w, <2>1 DEF BeginRestore, Born, osVars, workerVars
<1>6. ASSUME NEW p \in Pids, FinishRestore(p) \/ FailRestore(p)
      PROVE  Born'
  BY <1>6, <1>w DEF FinishRestore, FailRestore, Born, osVars, workerVars, lockVars, msgVars
<1> QED  BY <1>1, <1>2, <1>3, <1>4, <1>5, <1>6 DEF Next, vars, osVars, poolVars, ProcessCall, StartLoad,
            EndLoad, Unload, Signal, DispatchRequest, SendScheduled, Resolve, WaitUpdate, BeginUpdate,
            FinishUpdate, FailUpdate, HandleNoStop, workerVars, lockVars, msgVars

(* Every step of the pool keeps its types. *)
LEMMA TypeStep == TypeInv /\ [Next]_vars => TypeInv'
<1> SUFFICES ASSUME TypeInv, [Next]_vars  PROVE TypeInv'
  OBVIOUS
<1>p. /\ plan' = plan /\ Messages' = Messages /\ Updates' = Updates /\ Calls' = Calls
      /\ ModelMessages' = ModelMessages /\ plan \in Plans
  BY PlanStays DEF TypeInv, TypeOK
<1>m. /\ \A u \in Updates : u.kind \in {"load", "reload", "unload"} /\ u.model \in Models
      /\ \A m \in Messages : m.worker \in Pids /\ m.model \in Models
      /\ \A c \in Calls, m \in Models, p \in Pids : Message("call", c.id, m, p) \in Messages
      /\ \A c \in Calls, m \in Models, p \in Pids : Message("call", c.id, m, p) \notin ModelMessages
      /\ \A u \in Updates, p \in Pids : Message(u.kind, u.id, u.model, p) \in ModelMessages
      /\ \A m \in Models, p \in Pids : Message("restore", p, m, p) \in ModelMessages
      /\ ModelMessages \subseteq Messages
  BY <1>p, MessageParts
<1>o. /\ proc \in [Pids -> {"unborn", "up", "zombie", "reaped"}]
      /\ sigchld \in BOOLEAN
      /\ handlers \in Nat
  BY DEF TypeInv, TypeOK
<1>r. /\ loaded \in [Pids -> SUBSET Models]
      /\ inbox \subseteq Messages \ ModelMessages
      /\ queue \in [Pids -> Seq(ModelMessages)]
      /\ loading \subseteq [message : ModelMessages, over : BOOLEAN, cut : BOOLEAN]
      /\ undone \subseteq Pids \X {m.slot : m \in Models}
      /\ responses \subseteq [message : Messages, ok : BOOLEAN]
  BY DEF TypeInv, TypeOK
<1>w. /\ workers \in Seq(Pids) /\ Distinct(workers)
      /\ rotation \in Seq(Range(workers)) /\ Range(workers) \subseteq Pids
  BY DEF TypeInv, TypeOK, Range
<1>u. /\ registered \subseteq Models
      /\ OneInside /\ turns \in Seq(Updates \cup Pids)
      /\ update \in [Updates -> {"idle", "waiting", "running", "done", "failed"}]
      /\ spawning \in Nat
      /\ restart \in [Pids -> {"none", "locking", "restoring", "ready", "failed"}]
  BY DEF TypeInv, TypeOK
<1>s. /\ scheduled \subseteq ModelMessages /\ pending \subseteq Messages
      /\ succeeded \subseteq Messages /\ failed \subseteq Messages
  BY DEF TypeInv, TypeOK
<1> DEFINE OsTypes == /\ proc' \in [Pids -> {"unborn", "up", "zombie", "reaped"}]
                      /\ sigchld' \in BOOLEAN
                      /\ handlers' \in Nat
           WorkerTypes == /\ loaded' \in [Pids -> SUBSET Models]
                          /\ inbox' \subseteq Messages \ ModelMessages
                          /\ queue' \in [Pids -> Seq(ModelMessages)]
                          /\ loading' \subseteq [message : ModelMessages, over : BOOLEAN, cut : BOOLEAN]
                          /\ undone' \subseteq Pids \X {m.slot : m \in Models}
                          /\ responses' \subseteq [message : Messages, ok : BOOLEAN]
           RowTypes == /\ workers' \in Seq(Pids) /\ Distinct(workers')
                       /\ rotation' \in Seq(Range(workers'))
           UpdateTypes == /\ registered' \subseteq Models
                          /\ holder' = {} \/ \E u \in Updates : holder' = {u}
                          /\ turns' \in Seq(Updates \cup Pids)
                          /\ update' \in [Updates -> {"idle", "waiting", "running", "done", "failed"}]
                          /\ spawning' \in Nat
                          /\ restart' \in [Pids -> {"none", "locking", "restoring", "ready", "failed"}]
           MsgTypes == /\ scheduled' \subseteq ModelMessages /\ pending' \subseteq Messages
                       /\ succeeded' \subseteq Messages /\ failed' \subseteq Messages
<1>b. Born'
  BY BornStep DEF TypeInv
<1>g. ASSUME OsTypes, WorkerTypes, RowTypes, UpdateTypes, MsgTypes
      PROVE  TypeInv'
  <2>1. OneInside'
    BY <1>p, <1>g DEF OneInside
  <2>2. holder' \subseteq Updates' /\ Cardinality(holder') =< 1
    <3>1. Cardinality(holder') \in {0, 1}
      <4>1. CASE holder' = {}
        BY <4>1, OneCounts
      <4>2. ASSUME NEW u \in Updates, holder' = {u}
            PROVE  Cardinality(holder') \in {0, 1}
        BY <4>2, OneCounts
      <4> QED  BY <1>g, <4>1, <4>2
    <3>2. holder' \subseteq Updates'
      BY <1>p, <1>g
    <3> QED  BY <3>1, <3>2
  <2>3. workers' \in Seq(Pids) /\ Distinct(workers')
    BY <1>g
  <2> QED  BY <1>p, <1>b, <1>g, <2>1, <2>2 DEF TypeInv, TypeOK, Distinct
<1>os. UNCHANGED <<proc, sigchld, handlers>> => OsTypes
  BY <1>o
<1>rs. UNCHANGED workerVars => WorkerTypes
  BY <1>r DEF workerVars
<1>ws. UNCHANGED <<workers, rotation>> => RowTypes
  BY <1>w DEF Distinct
<1>us. UNCHANGED <<registered, holder, turns, update, spawning, restart>> => UpdateTypes
  BY <1>u DEF OneInside
<1>ss. UNCHANGED <<scheduled, pending, succeeded, failed>> => MsgTypes
  BY <1>s
<1>l. \A u \in Updates : Listed(u) \subseteq Models /\ ListReload(u) \subseteq Models /\ ShareOut(u) \subseteq ModelMessages
  BY <1>m, <1>w, <1>u, <1>s DEF Listed, ListReload, Clear, ShareOut
<1> HIDE DEF OsTypes, WorkerTypes, RowTypes, UpdateTypes, MsgTypes
<1>1. ASSUME NEW m \in inbox, ProcessCall(m)
      PROVE  TypeInv'
  <2>1. WorkerTypes
    <3>1. m \in Messages /\ Has(m.worker, m.model) \in BOOLEAN
      BY <1>r DEF Has
    <3> QED  BY <1>1, <1>r, <3>1 DEF ProcessCall, Respond, WorkerTypes
  <2> QED  BY <1>1, <1>g, <1>os, <1>ws, <1>us, <1>ss, <2>1 DEF ProcessCall, lockVars, poolVars, msgVars
<1>o1. \A p \in Pids : \A m \in Oldest(p) : queue[p] # <<>> /\ m = Head(queue[p]) /\ m \in ModelMessages
  <2>1. ASSUME NEW p \in Pids, NEW m \in Oldest(p)
        PROVE  queue[p] # <<>> /\ m = Head(queue[p]) /\ m \in ModelMessages
    <3>1. queue[p] # <<>> /\ m = Head(queue[p]) /\ queue[p] \in Seq(ModelMessages)
      BY <1>r, <2>1 DEF Oldest
    <3> QED  BY <3>1
  <2> QED  BY <2>1
<1>o2. ASSUME NEW m \in ModelMessages, Read(m)
       PROVE  queue' \in [Pids -> Seq(ModelMessages)]
  <2>1. m.worker \in Pids /\ queue[m.worker] # <<>> /\ queue[m.worker] \in Seq(ModelMessages)
    BY <1>m, <1>r, <1>o1, <1>o2 DEF Read
  <2>2. Tail(queue[m.worker]) \in Seq(ModelMessages)
    BY <2>1
  <2> QED  BY <1>r, <1>o2, <2>1, <2>2 DEF Read
<1>1a. ASSUME NEW q \in Pids, NEW m \in Oldest(q), StartLoad(m)
       PROVE  TypeInv'
  <2>1. m \in ModelMessages /\ m \in Messages /\ m.worker \in Pids /\ m.model \in Models
    BY <1>m, <1>o1
  <2>2. queue' \in [Pids -> Seq(ModelMessages)]
    BY <1>1a, <1>o2, <2>1 DEF StartLoad
  <2>3. WorkerTypes
    <3>1. Has(m.worker, m.model) \in BOOLEAN
      BY DEF Has
    <3>2. loading' \subseteq [message : ModelMessages, over : BOOLEAN, cut : BOOLEAN]
      <4>1. loading' = loading \cup {[message |-> m, over |-> Has(m.worker, m.model), cut |-> FALSE]}
        BY <1>1a DEF StartLoad
      <4>2. [message |-> m, over |-> Has(m.worker, m.model), cut |-> FALSE]
              \in [message : ModelMessages, over : BOOLEAN, cut : BOOLEAN]
        BY <2>1, <3>1
      <4> QED  BY <1>r, <4>1, <4>2
    <3>3. loaded' \in [Pids -> SUBSET Models]
      BY <1>1a, <1>r, <2>1 DEF StartLoad
    <3> QED  BY <1>1a, <1>r, <2>2, <3>2, <3>3 DEF StartLoad, WorkerTypes
  <2> QED  BY <1>1a, <1>g, <1>os, <1>ws, <1>us, <1>ss, <2>3 DEF StartLoad, lockVars, poolVars, msgVars
<1>1b. ASSUME NEW n \in loading, NEW ok \in BOOLEAN, EndLoad(n, ok)
       PROVE  TypeInv'
  <2>1. n.message \in Messages /\ n.message.worker \in Pids /\ n.message.model \in Models
    BY <1>m, <1>r
  <2>2. loaded' \in [Pids -> SUBSET Models]
    <3>1. PICK models \in Loaded(n, ok) : loaded' = [loaded EXCEPT ![n.message.worker] = models]
      BY <1>1b DEF EndLoad
    <3>2. models \subseteq Models
      BY <1>r, <2>1, <3>1 DEF Loaded, Clear
    <3> QED  BY <1>r, <3>1, <3>2
  <2>3. undone' \subseteq Pids \X {m.slot : m \in Models}
    BY <1>1b, <1>r, <2>1 DEF EndLoad
  <2>4. WorkerTypes
    BY <1>1b, <1>r, <2>1, <2>2, <2>3 DEF EndLoad, Respond, WorkerTypes
  <2> QED  BY <1>1b, <1>g, <1>os, <1>ws, <1>us, <1>ss, <2>4 DEF EndLoad, lockVars, poolVars, msgVars
<1>1c. ASSUME NEW q \in Pids, NEW m \in Oldest(q), NEW ok \in BOOLEAN, Unload(m, ok)
       PROVE  TypeInv'
  <2>1. m \in ModelMessages /\ m \in Messages /\ m.worker \in Pids /\ m.model \in Models
    BY <1>m, <1>o1
  <2>2. queue' \in [Pids -> Seq(ModelMessages)]
    BY <1>1c, <1>o2, <2>1 DEF Unload
  <2>3. loading' \subseteq [message : ModelMessages, over : BOOLEAN, cut : BOOLEAN]
    <3>1. \A l \in loading : \A b : [l EXCEPT !.cut = @ \/ b] \in [message : ModelMessages, over : BOOLEAN, cut : BOOLEAN]
      BY <1>r
    <3> QED  BY <1>1c, <3>1 DEF Unload
  <2>4. loaded' \in [Pids -> SUBSET Models]
    BY <1>1c, <1>r, <2>1 DEF Unload, Clear
  <2>5. WorkerTypes
    BY <1>1c, <1>r, <2>1, <2>2, <2>3, <2>4 DEF Unload, Respond, WorkerTypes
  <2> QED  BY <1>1c, <1>g, <1>os, <1>ws, <1>us, <1>ss, <2>5 DEF Unload, lockVars, poolVars, msgVars
<1>2. ASSUME NEW p \in Pids, Die(p)
      PROVE  TypeInv'
  <2>1. OsTypes
    BY <1>2, <1>o DEF Die, OsTypes
  <2>2. WorkerTypes
    BY <1>2, <1>r DEF Die, WorkerTypes
  <2> QED  BY <1>2, <1>g, <1>ws, <1>us, <1>ss, <2>1, <2>2 DEF Die, lockVars, poolVars, msgVars
<1>3. CASE Signal
  <2>1. sigchld' \in BOOLEAN
    BY <1>3 DEF Signal
  <2>2. OsTypes
    BY <1>3, <1>o, <2>1 DEF Signal, OsTypes
  <2> QED  BY <1>3, <1>g, <1>rs, <1>ws, <1>us, <1>ss, <2>2 DEF Signal, lockVars, poolVars, msgVars
<1>4. ASSUME NEW c \in Calls, NEW m \in Models, DispatchRequest(c, m)
      PROVE  TypeInv'
  <2>1. /\ rotation # <<>> /\ rotation' = Append(Tail(rotation), Head(rotation))
        /\ inbox' = inbox \cup {Message("call", c.id, m, Head(rotation))}
        /\ pending' = pending \cup {Message("call", c.id, m, Head(rotation))}
        /\ UNCHANGED <<plan, proc, sigchld, loaded, queue, loading, undone, responses, handlers, workers>>
        /\ UNCHANGED <<registered, holder, turns, update, spawning, restart, scheduled, succeeded, failed>>
    BY <1>4 DEF DispatchRequest, Await, lockVars
  <2>2. Head(rotation) \in Range(workers) /\ Tail(rotation) \in Seq(Range(workers))
    BY <1>w, <2>1
  <2>3. rotation' \in Seq(Range(workers))
    BY <2>1, <2>2
  <2>4. RowTypes
    BY <1>w, <2>1, <2>3 DEF RowTypes, Distinct
  <2>5. Message("call", c.id, m, Head(rotation)) \in Messages \ ModelMessages
    BY <1>m, <1>w, <2>2 DEF Message
  <2>6. WorkerTypes
    BY <1>r, <2>1, <2>5 DEF WorkerTypes
  <2>7. MsgTypes
    BY <1>s, <2>1, <2>5 DEF MsgTypes
  <2> QED  BY <1>g, <1>os, <1>us, <2>1, <2>4, <2>6, <2>7
<1>5. ASSUME NEW m \in scheduled, SendScheduled(m)
      PROVE  TypeInv'
  <2>1. m \in ModelMessages /\ m \in Messages /\ m.worker \in Pids
    BY <1>s, <1>m
  <2>2. queue' \in [Pids -> Seq(ModelMessages)]
    <3>1. Append(queue[m.worker], m) \in Seq(ModelMessages)
      BY <1>r, <2>1
    <3> QED  BY <1>5, <1>r, <3>1 DEF SendScheduled
  <2>3. WorkerTypes
    BY <1>5, <1>r, <2>2 DEF SendScheduled, WorkerTypes
  <2>4. MsgTypes
    BY <1>5, <1>s, <2>1 DEF SendScheduled, Await, MsgTypes
  <2> QED  BY <1>5, <1>g, <1>os, <1>ws, <1>us, <2>3, <2>4 DEF SendScheduled, lockVars, poolVars
<1>6. ASSUME NEW r \in responses, Resolve(r)
      PROVE  TypeInv'
  <2>1. WorkerTypes
    BY <1>6, <1>r DEF Resolve, WorkerTypes
  <2>2. MsgTypes
    BY <1>6, <1>s DEF Resolve, MsgTypes
  <2> QED  BY <1>6, <1>g, <1>os, <1>ws, <1>us, <2>1, <2>2 DEF Resolve, lockVars, poolVars
<1>t1. \A x \in Updates \cup Pids : Append(turns, x) \in Seq(Updates \cup Pids)
  BY <1>u, AppendProperties
<1>t2. turns # <<>> => Tail(turns) \in Seq(Updates \cup Pids)
  BY <1>u, HeadTailProperties
<1>7. ASSUME NEW u \in Updates, WaitUpdate(u)
      PROVE  TypeInv'
  <2>0. turns' \in Seq(Updates \cup Pids)
    BY <1>7, <1>t1 DEF WaitUpdate
  <2>1. UpdateTypes
    BY <1>7, <1>u, <1>l, <2>0 DEF WaitUpdate, UpdateTypes, OneInside
  <2> QED  BY <1>7, <1>g, <1>os, <1>rs, <1>ws, <1>ss, <2>1 DEF WaitUpdate, osVars, msgVars
<1>8. ASSUME NEW u \in Updates, BeginUpdate(u)
      PROVE  TypeInv'
  <2>0. turns' \in Seq(Updates \cup Pids)
    BY <1>8, <1>u, <1>t2 DEF BeginUpdate, IsNext
  <2>1. UpdateTypes
    BY <1>8, <1>u, <1>l, <2>0 DEF BeginUpdate, UpdateTypes
  <2>2. MsgTypes
    BY <1>8, <1>s, <1>l DEF BeginUpdate, MsgTypes
  <2> QED  BY <1>8, <1>g, <1>os, <1>rs, <1>ws, <2>1, <2>2 DEF BeginUpdate, osVars
<1>9. ASSUME NEW u \in Updates, FinishUpdate(u) \/ FailUpdate(u)
      PROVE  TypeInv'
  <2>0. holder' = holder \ {u} /\ registered' \in {registered, Listed(u)}
        /\ UNCHANGED <<turns, spawning, restart>>
    BY <1>9 DEF FinishUpdate, FailUpdate, poolVars
  <2>1. update' \in [Updates -> {"idle", "waiting", "running", "done", "failed"}]
    BY <1>9, <1>u DEF FinishUpdate, FailUpdate
  <2>2. UpdateTypes
    BY <1>u, <1>l, <2>0, <2>1 DEF UpdateTypes, OneInside
  <2> QED  BY <1>9, <1>g, <1>os, <1>rs, <1>ws, <1>ss, <2>2 DEF FinishUpdate, FailUpdate, osVars, poolVars, msgVars
<1>10. ASSUME NEW p \in Pids, HandleWorkerStop(p)
       PROVE  TypeInv'
  <2>1. OsTypes
    BY <1>10, <1>o DEF HandleWorkerStop, OsTypes
  <2>2. RowTypes
    <3>1. CASE p \in Range(workers)
      <4>1. workers' = Without(workers, p) /\ rotation' = Without(workers, p)
        BY <1>10, <3>1 DEF HandleWorkerStop
      <4>2. Without(workers, p) \in Seq(Pids) /\ Distinct(Without(workers, p))
            /\ Without(workers, p) \in Seq(Range(Without(workers, p)))
        BY <1>w, WorkersTyping
      <4> QED  BY <4>1, <4>2 DEF RowTypes, Distinct
    <3>2. CASE p \notin Range(workers)
      BY <1>10, <1>ws, <3>2 DEF HandleWorkerStop
    <3> QED  BY <3>1, <3>2
  <2>3. UpdateTypes
    BY <1>10, <1>u DEF HandleWorkerStop, UpdateTypes, OneInside, lockVars
  <2>4. MsgTypes
    BY <1>10, <1>s DEF HandleWorkerStop, MsgTypes, InFlight
  <2> QED  BY <1>10, <1>g, <1>rs, <2>1, <2>2, <2>3, <2>4 DEF HandleWorkerStop
<1>11. CASE HandleNoStop
  <2>1. OsTypes
    BY <1>11, <1>o DEF HandleNoStop, OsTypes, osVars
  <2> QED  BY <1>11, <1>g, <1>rs, <1>ws, <1>us, <1>ss, <2>1 DEF HandleNoStop, osVars, lockVars, poolVars, msgVars
<1>12. ASSUME NEW p \in Pids, StartWorker(p)
       PROVE  TypeInv'
  <2>1. workers' = Append(workers, p) /\ rotation' = rotation /\ p \notin Range(workers)
    BY <1>12 DEF StartWorker, TypeInv, Born
  <2>2. Append(workers, p) \in Seq(Pids) /\ Distinct(Append(workers, p))
        /\ rotation \in Seq(Range(Append(workers, p)))
    BY <1>w, <2>1, WorkersTyping
  <2>3. RowTypes
    BY <2>1, <2>2 DEF RowTypes, Distinct
  <2>4. OsTypes
    BY <1>12, <1>o DEF StartWorker, OsTypes
  <2>0. turns' \in Seq(Updates \cup Pids)
    BY <1>12, <1>t1 DEF StartWorker
  <2>5. UpdateTypes
    BY <1>12, <1>u, <2>0 DEF StartWorker, UpdateTypes, OneInside
  <2> QED  BY <1>12, <1>g, <1>rs, <1>ss, <2>3, <2>4, <2>5 DEF StartWorker, msgVars
<1>13. ASSUME NEW p \in Pids, BeginRestore(p)
       PROVE  TypeInv'
  <2>0. turns' \in Seq(Updates \cup Pids)
    BY <1>13, <1>t2 DEF BeginRestore, IsNext
  <2>1. UpdateTypes
    BY <1>13, <1>u, <2>0 DEF BeginRestore, UpdateTypes, OneInside
  <2>2. MsgTypes
    BY <1>13, <1>s, <1>m, <1>u DEF BeginRestore, MsgTypes
  <2>3. RowTypes
    <3>1. CASE p \in Range(workers)
      BY <1>13, <1>ws, <3>1 DEF BeginRestore
    <3>2. CASE p \notin Range(workers)
      <4>1. workers' = Append(workers, p) /\ rotation' = rotation
        BY <1>13, <3>2 DEF BeginRestore
      <4>2. Append(workers, p) \in Seq(Pids) /\ Distinct(Append(workers, p))
            /\ rotation \in Seq(Range(Append(workers, p)))
        BY <1>w, <3>2, WorkersTyping
      <4> QED  BY <4>1, <4>2 DEF RowTypes, Distinct
    <3> QED  BY <3>1, <3>2
  <2> QED  BY <1>13, <1>g, <1>os, <1>rs, <2>1, <2>2, <2>3 DEF BeginRestore, osVars
<1>14. ASSUME NEW p \in Pids, FinishRestore(p)
       PROVE  TypeInv'
  <2>1. UpdateTypes
    BY <1>14, <1>u DEF FinishRestore, UpdateTypes, OneInside, lockVars
  <2>2. workers \in Seq(Range(workers))
    BY <1>w, RowOfRange
  <2>3. RowTypes
    BY <1>14, <1>w, <2>2 DEF FinishRestore, RowTypes, Distinct
  <2> QED  BY <1>14, <1>g, <1>os, <1>rs, <1>ss, <2>1, <2>3 DEF FinishRestore, osVars, msgVars
<1>15. ASSUME NEW p \in Pids, FailRestore(p)
       PROVE  TypeInv'
  <2>1. UpdateTypes
    BY <1>15, <1>u DEF FailRestore, UpdateTypes, OneInside, lockVars
  <2> QED  BY <1>15, <1>g, <1>os, <1>rs, <1>ws, <1>ss, <2>1 DEF FailRestore, osVars, msgVars
<1>16. CASE UNCHANGED vars
  BY <1>16, <1>g, <1>os, <1>rs, <1>ws, <1>us, <1>ss DEF vars, osVars, poolVars, lockVars, msgVars
<1> QED  BY <1>1, <1>1a, <1>1b, <1>1c, <1>2, <1>3, <1>4, <1>5, <1>6, <1>7, <1>8, <1>9, <1>10, <1>11,
            <1>12, <1>13, <1>14, <1>15, <1>16 DEF Next

(* At the start every worker of the pool is up, and nothing is sent. *)
LEMMA TypeInit == Init => TypeInv
<1> SUFFICES ASSUME Init PROVE TypeInv
  OBVIOUS
<1>1. /\ plan \in Plans /\ workers = FirstWorkers /\ rotation = FirstWorkers
      /\ proc = [p \in Pids |-> IF p \in Range(FirstWorkers) THEN "up" ELSE "unborn"]
      /\ restart = [p \in Pids |-> IF p \in Range(FirstWorkers) THEN "ready" ELSE "none"]
      /\ holder = {} /\ sigchld = FALSE /\ turns = <<>> /\ queue = [p \in Pids |-> <<>>]
  BY DEF Init
<1>2. workers \in Seq(Pids) /\ Distinct(workers) /\ rotation \in Seq(Range(workers))
  <2>1. FirstWorkers \in Seq(Pids) /\ Distinct(FirstWorkers)
    BY WorkersAssumption
  <2>2. FirstWorkers \in Seq(Range(FirstWorkers))
    BY <2>1, RowOfRange
  <2> QED  BY <1>1, <2>1, <2>2 DEF Distinct
<1>3. Born
  BY <1>1 DEF Born
<1>4. OneInside /\ Cardinality(holder) =< 1 /\ holder \subseteq Updates
  BY <1>1, OneCounts DEF OneInside
<1>5. sigchld \in BOOLEAN
  BY <1>1
<1>6. /\ proc \in [Pids -> {"unborn", "up", "zombie", "reaped"}]
      /\ restart \in [Pids -> {"none", "locking", "restoring", "ready", "failed"}]
  BY <1>1
<1>7. turns \in Seq(Updates \cup Pids) /\ queue \in [Pids -> Seq(ModelMessages)]
  BY <1>1
<1>8. TypeOK
  BY <1>1, <1>2, <1>4, <1>5, <1>6, <1>7 DEF Init, TypeOK, Distinct
<1> QED  BY <1>3, <1>4, <1>8 DEF TypeInv

(* TypeInv is inductive by itself.                                          *)
LEMMA TypesHold == Spec => []TypeInv
BY TypeInit, TypeStep, PTL DEF Spec

(* Whatever dies, restarts, loads and fails: the rotation has only workers   *)
(* of the pool, each worker is filed once, and one update at most is inside  *)
(* of the lock (Dispatcher).                                                *)
THEOREM PoolTyping == Spec => []TypeOK
<1>1. TypeInv => TypeOK
  BY DEF TypeInv
<1> QED  BY <1>1, TypesHold, PTL

-----------------------------------------------------------------------------
(* What the lock protects.                                                  *)

(* An update that runs is the only one inside of the lock. *)
LockHeld == \A u \in Updates : update[u] = "running" => holder = {u}

(* A worker that is up is in the pool. *)
UpInPool == \A p \in Pids : proc[p] = "up" => p \in Range(workers)

(* What workers are or will be asked to update. *)
Asked == scheduled \cup UNION {Range(queue[p]) : p \in Pids}

(* Nobody is asked to unload before an unload has begun. *)
UnloadsBegun == \A m \in Asked : m.kind = "unload" => Unloading(m.model)

(* A worker has what it loads or said it has loaded, until that is unloaded  *)
(* or a load of its slot fails.                                             *)
SaidLoaded == succeeded \cup {r.message : r \in {s \in responses : s.ok}}
Taken == SaidLoaded \cup {t.message : t \in loading}
LoadedStays ==
  \A m \in Taken : m.kind \in {"load", "reload", "restore"} =>
    Has(m.worker, m.model) \/ MayLack(m.worker, m.model)

(* While an update runs, every worker that restores or has its models was    *)
(* sent its share of it: the others list them when the lock is free.         *)
EveryoneAsked ==
  \A u \in Updates, p \in Pids :
    update[u] = "running" /\ proc[p] = "up" /\ restart[p] \in {"restoring", "ready"} =>
      Message(u.kind, u.id, u.model, p) \in Sent

(* A worker that restores its models has each, or was asked to load it. *)
RestoreCovers ==
  \A p \in Pids, m \in registered :
    proc[p] = "up" /\ restart[p] = "restoring" =>
      \/ Has(p, m) \/ MayLack(p, m)
      \/ \E n \in Models : n.slot = m.slot /\ Message("restore", p, n, p) \in Sent

LockInv ==
  /\ LockHeld
  /\ UpInPool
  /\ UnloadsBegun
  /\ LoadedStays
  /\ EveryoneAsked
  /\ RestoreCovers
  /\ ModelsEverywhere

(* Reading the oldest update takes it out of what is asked, and sending one  *)
(* that was listed adds nothing to it.                                      *)
LEMMA ReadAsked ==
  ASSUME TypeInv
  PROVE  /\ \A p \in Pids : Oldest(p) \subseteq Asked
         /\ \A p \in Pids : \A m \in Oldest(p) : m \in ModelMessages /\ m \in Messages
         /\ \A m \in Messages : Read(m) /\ UNCHANGED scheduled => Asked' \subseteq Asked
         /\ \A m \in scheduled : SendScheduled(m) => Asked' \subseteq Asked
<1>t. queue \in [Pids -> Seq(ModelMessages)] /\ scheduled \subseteq ModelMessages
  BY DEF TypeInv, TypeOK
<1>m. ModelMessages \subseteq Messages /\ \A m \in Messages : m.worker \in Pids
  BY MessageParts DEF TypeInv, TypeOK
<1>a. /\ \A x : x \in Asked <=> x \in scheduled \/ \E p \in Pids : x \in Range(queue[p])
      /\ \A x : x \in Asked' <=> x \in scheduled' \/ \E p \in Pids : x \in Range(queue'[p])
  BY DEF Asked
<1>1. ASSUME NEW p \in Pids, NEW m \in Oldest(p)
      PROVE  /\ queue[p] # <<>> /\ m = Head(queue[p]) /\ m \in Range(queue[p])
             /\ m \in ModelMessages /\ Range(Tail(queue[p])) \subseteq Range(queue[p])
  <2>1. queue[p] # <<>> /\ m = Head(queue[p]) /\ queue[p] \in Seq(ModelMessages)
    BY <1>t, <1>1 DEF Oldest
  <2> QED  BY <2>1 DEF Range
<1>2. ASSUME NEW m \in Messages, Read(m), UNCHANGED scheduled
      PROVE  Asked' \subseteq Asked
  <2>1. m.worker \in Pids /\ Range(Tail(queue[m.worker])) \subseteq Range(queue[m.worker])
    BY <1>m, <1>1, <1>2 DEF Read
  <2>2. \A p \in Pids : Range(queue'[p]) \subseteq Range(queue[p])
    <3> SUFFICES ASSUME NEW p \in Pids PROVE Range(queue'[p]) \subseteq Range(queue[p])
      OBVIOUS
    <3>1. queue'[p] = IF p = m.worker THEN Tail(queue[p]) ELSE queue[p]
      BY <1>t, <1>2, <2>1 DEF Read
    <3> QED  BY <2>1, <3>1
  <2> QED  BY <1>2, <1>a, <2>2
<1>3. ASSUME NEW m \in scheduled, SendScheduled(m)
      PROVE  Asked' \subseteq Asked
  <2>1. m.worker \in Pids /\ queue[m.worker] \in Seq(ModelMessages) /\ m \in ModelMessages
    BY <1>t, <1>m
  <2>2. Range(Append(queue[m.worker], m)) \subseteq Range(queue[m.worker]) \cup {m}
    BY <2>1 DEF Range
  <2>3. \A p \in Pids : Range(queue'[p]) \subseteq Range(queue[p]) \cup {m}
    <3> SUFFICES ASSUME NEW p \in Pids PROVE Range(queue'[p]) \subseteq Range(queue[p]) \cup {m}
      OBVIOUS
    <3>1. queue'[p] = IF p = m.worker THEN Append(queue[p], m) ELSE queue[p]
      BY <1>t, <1>3, <2>1 DEF SendScheduled
    <3> QED  BY <2>2, <3>1
  <2>4. scheduled' \subseteq scheduled
    BY <1>3 DEF SendScheduled
  <2> QED  BY <1>a, <2>3, <2>4
<1> QED  BY <1>m, <1>a, <1>1, <1>2, <1>3

(* What only grows: updates begin once, what was sent stays sent, and a      *)
(* worker loses a model only to an unload or to a load that fails.          *)
LEMMA StepGrows ==
  ASSUME TypeInv, UnloadsBegun, [Next]_vars
  PROVE  /\ \A u \in Updates : update[u] # "idle" => update'[u] # "idle"
         /\ \A m : Unloading(m) => Unloading(m)'
         /\ Sent \subseteq Sent'
         /\ \A p \in Pids : \A m : MayLack(p, m) => MayLack(p, m)'
         /\ \A p \in Pids : \A m : Has(p, m) => Has(p, m)' \/ MayLack(p, m)'
<1>p. Updates' = Updates
  BY PlanStays
<1>t. /\ update \in [Updates -> {"idle", "waiting", "running", "done", "failed"}]
      /\ loaded \in [Pids -> SUBSET Models]
      /\ pending \subseteq Messages
      /\ loading \subseteq [message : ModelMessages, over : BOOLEAN, cut : BOOLEAN]
  BY DEF TypeInv, TypeOK
<1>m. ModelMessages \subseteq Messages /\ \A m \in Messages : m.worker \in Pids /\ m.model \in Models
  BY MessageParts DEF TypeInv, TypeOK
<1>1. \A u \in Updates : update[u] # "idle" => update'[u] # "idle"
  BY <1>t DEF Next, vars, osVars, ProcessCall, StartLoad, EndLoad, Unload, Die, Signal, DispatchRequest,
     SendScheduled, Resolve, WaitUpdate, BeginUpdate, FinishUpdate, FailUpdate, HandleWorkerStop,
     HandleNoStop, StartWorker, BeginRestore, FinishRestore, FailRestore, workerVars, poolVars,
     lockVars, msgVars
<1>2. \A m : Unloading(m) => Unloading(m)'
  BY <1>p, <1>1 DEF Unloading
<1>3. Sent \subseteq Sent'
  <2>1. Sent' = scheduled' \cup pending' \cup succeeded' \cup failed'
    BY DEF Sent
  <2>2. ASSUME UNCHANGED msgVars
        PROVE  Sent \subseteq Sent'
    BY <2>1, <2>2 DEF Sent, msgVars
  <2>3. ASSUME NEW r \in responses, Resolve(r)
        PROVE  Sent \subseteq Sent'
    BY <2>1, <2>3 DEF Sent, Resolve, poolVars, lockVars
  <2>4. ASSUME NEW p \in Pids, HandleWorkerStop(p)
        PROVE  Sent \subseteq Sent'
    BY <2>1, <2>4 DEF Sent, HandleWorkerStop, InFlight, workerVars, lockVars
  <2>5. ASSUME NEW m \in scheduled, SendScheduled(m)
        PROVE  Sent \subseteq Sent'
    BY <2>1, <2>5 DEF Sent, SendScheduled, Await, poolVars, lockVars
  <2>6. ASSUME NEW c \in Calls, NEW m \in Models, DispatchRequest(c, m)
        PROVE  Sent \subseteq Sent'
    BY <2>1, <2>6 DEF Sent, DispatchRequest, Await, lockVars
  <2>7. ASSUME NEW u \in Updates, BeginUpdate(u)
        PROVE  Sent \subseteq Sent'
    BY <2>1, <2>7 DEF Sent, BeginUpdate, ShareOut, osVars, workerVars
  <2>8. ASSUME NEW p \in Pids, BeginRestore(p)
        PROVE  Sent \subseteq Sent'
    BY <2>1, <2>8 DEF Sent, BeginRestore, osVars, workerVars
  <2> QED  BY <2>2, <2>3, <2>4, <2>5, <2>6, <2>7, <2>8 DEF Next, vars, msgVars, ProcessCall, StartLoad,
              EndLoad, Unload, Die, Signal, WaitUpdate, FinishUpdate, FailUpdate, HandleNoStop,
              StartWorker, FinishRestore, FailRestore, osVars, workerVars, poolVars, lockVars
<1>u. undone \subseteq undone'
  BY DEF EndLoad, Next, vars, osVars, workerVars, ProcessCall, StartLoad, Unload, Die, Signal,
     DispatchRequest, SendScheduled, Resolve, WaitUpdate, BeginUpdate, FinishUpdate, FailUpdate,
     HandleWorkerStop, HandleNoStop, StartWorker, BeginRestore, FinishRestore, FailRestore
<1>l. \A p \in Pids : \A m : MayLack(p, m)' <=> Unloading(m)' \/ <<p, m.slot>> \in undone'
  BY DEF MayLack
<1>5. ASSUME NEW p \in Pids, NEW m, MayLack(p, m)
      PROVE  MayLack(p, m)'
  BY <1>2, <1>5, <1>u, <1>l DEF MayLack
<1>4. ASSUME NEW p \in Pids, NEW m, Has(p, m)
      PROVE  Has(p, m)' \/ MayLack(p, m)'
  <2>1. PICK l \in loaded[p] : l.slot = m.slot
    BY <1>4 DEF Has
  <2>2. Has(p, m)' <=> \E k \in loaded'[p] : k.slot = m.slot
    BY DEF Has
  <2>3. ASSUME loaded[p] \subseteq loaded'[p]
        PROVE  Has(p, m)'
    BY <2>1, <2>2, <2>3
  <2>4. ASSUME NEW q \in Pids, NEW n \in Oldest(q), StartLoad(n)
        PROVE  loaded[p] \subseteq loaded'[p]
    BY <1>t, <2>4 DEF StartLoad
  <2>5. ASSUME NEW q \in Pids, NEW n \in Oldest(q), NEW ok \in BOOLEAN, Unload(n, ok)
        PROVE  Has(p, m)' \/ MayLack(p, m)'
    <3>1. CASE l \in loaded'[p]
      BY <2>1, <2>2, <3>1
    <3>2. CASE l \notin loaded'[p]
      <4>1. loaded' = [loaded EXCEPT ![n.worker] = Clear(@, n.model)] /\ n.kind = "unload"
        BY <2>5 DEF Unload
      <4>2. l.slot = n.model.slot
        BY <1>t, <2>1, <3>2, <4>1 DEF Clear
      <4>3. Unloading(n.model)
        BY <2>5, <4>1, ReadAsked DEF UnloadsBegun
      <4>4. Unloading(m)
        BY <2>1, <4>2, <4>3 DEF Unloading
      <4> QED  BY <1>2, <1>l, <4>4
    <3> QED  BY <3>1, <3>2
  <2>6. ASSUME NEW n \in loading, NEW ok \in BOOLEAN, EndLoad(n, ok)
        PROVE  Has(p, m)' \/ MayLack(p, m)'
    <3>1. PICK models \in Loaded(n, ok) : loaded' = [loaded EXCEPT ![n.message.worker] = models]
      BY <2>6 DEF EndLoad
    <3>2. n.message.worker \in Pids
      BY <1>t, <1>m
    <3>3. CASE p # n.message.worker
      BY <1>t, <2>3, <3>1, <3>2, <3>3
    <3>4. CASE p = n.message.worker /\ l.slot # n.message.model.slot
      <4>1. l \in models
        BY <2>1, <3>1, <3>4 DEF Loaded, Clear
      <4> QED  BY <1>t, <2>1, <2>2, <3>1, <3>2, <3>4, <4>1
    <3>5. CASE p = n.message.worker /\ l.slot = n.message.model.slot
      <4>1. CASE ok
        <5>1. l \in models \/ n.message.model \in models
          BY <2>1, <3>1, <3>5, <4>1 DEF Loaded, Clear
        <5>2. loaded'[p] = models
          BY <1>t, <3>1, <3>2, <3>5
        <5> QED  BY <2>1, <2>2, <3>5, <5>1, <5>2
      <4>2. CASE ~ok
        <5>1. <<p, m.slot>> \in undone'
          BY <2>1, <2>6, <3>5, <4>2 DEF EndLoad
        <5> QED  BY <1>l, <5>1
      <4> QED  BY <4>1, <4>2
    <3> QED  BY <3>3, <3>4, <3>5
  <2>7. CASE UNCHANGED loaded
    BY <2>3, <2>7
  <2> QED  BY <2>3, <2>4, <2>5, <2>6, <2>7 DEF Next, vars, osVars, workerVars, ProcessCall, Die, Signal,
       DispatchRequest, SendScheduled, Resolve, WaitUpdate, BeginUpdate, FinishUpdate, FailUpdate,
       HandleWorkerStop, HandleNoStop, StartWorker, BeginRestore, FinishRestore, FailRestore
<1> QED  BY <1>1, <1>2, <1>3, <1>4, <1>5

(* The lock: an update that runs is alone inside of it. *)
LEMMA LockHeldStep ==
  ASSUME TypeInv, LockHeld, [Next]_vars
  PROVE  LockHeld'
<1>p. Updates' = Updates
  BY PlanStays
<1>t. update \in [Updates -> {"idle", "waiting", "running", "done", "failed"}]
  BY DEF TypeInv, TypeOK
<1>1. ASSUME UNCHANGED <<update, holder>>
      PROVE  LockHeld'
  BY <1>p, <1>1 DEF LockHeld
<1>2. ASSUME NEW u \in Updates, WaitUpdate(u)
      PROVE  LockHeld'
  BY <1>p, <1>t, <1>2 DEF LockHeld, WaitUpdate, osVars, workerVars, msgVars
<1>3. ASSUME NEW u \in Updates, BeginUpdate(u)
      PROVE  LockHeld'
  BY <1>p, <1>t, <1>3 DEF LockHeld, BeginUpdate, IsNext, osVars, workerVars
<1>4. ASSUME NEW u \in Updates, FinishUpdate(u) \/ FailUpdate(u)
      PROVE  LockHeld'
  <2>1. holder = {u} /\ \A v \in Updates : update'[v] = "running" => update[v] = "running" /\ v # u
    BY <1>t, <1>4 DEF LockHeld, FinishUpdate, FailUpdate, osVars, workerVars, poolVars, msgVars
  <2> QED  BY <1>p, <2>1 DEF LockHeld
<1> QED  BY <1>1, <1>2, <1>3, <1>4 DEF Next, vars, osVars, poolVars, ProcessCall, StartLoad, EndLoad,
            Unload, Die, Signal, DispatchRequest, SendScheduled, Resolve, HandleWorkerStop,
            HandleNoStop, StartWorker, BeginRestore, FinishRestore, FailRestore, workerVars, lockVars,
            msgVars

(* A worker leaves the pool only when it is dead (on_worker_stop). *)
LEMMA UpInPoolStep ==
  ASSUME TypeInv, UpInPool, [Next]_vars
  PROVE  /\ UpInPool'
         /\ \A p \in Pids : proc'[p] = "up" => proc[p] = "up" \/ restart'[p] = "locking"
<1>w. /\ workers \in Seq(Pids) /\ Distinct(workers) /\ rotation \in Seq(Range(workers))
      /\ proc \in [Pids -> {"unborn", "up", "zombie", "reaped"}]
      /\ restart \in [Pids -> {"none", "locking", "restoring", "ready", "failed"}]
  BY DEF TypeInv, TypeOK
<1> DEFINE Goal == /\ UpInPool'
                   /\ \A p \in Pids : proc'[p] = "up" => proc[p] = "up" \/ restart'[p] = "locking"
<1>1. ASSUME UNCHANGED <<proc, workers>>
      PROVE  Goal
  BY <1>1 DEF UpInPool
<1>2. ASSUME NEW p \in Pids, Die(p)
      PROVE  Goal
  BY <1>2, <1>w DEF Die, UpInPool, poolVars, lockVars, msgVars
<1>3. ASSUME NEW p \in Pids, HandleWorkerStop(p)
      PROVE  Goal
  <2>1. Range(workers') \in {Range(workers), Range(workers) \ {p}}
    BY <1>w, <1>3, WorkersTyping DEF HandleWorkerStop, workerVars, lockVars
  <2> QED  BY <1>3, <1>w, <2>1 DEF HandleWorkerStop, UpInPool, workerVars, lockVars
<1>4. ASSUME NEW p \in Pids, StartWorker(p)
      PROVE  Goal
  <2>1. p \notin Range(workers) /\ workers' = Append(workers, p)
    BY <1>4 DEF StartWorker, TypeInv, Born, workerVars, msgVars
  <2>2. Range(workers') = Range(workers) \cup {p}
    BY <1>w, <2>1, WorkersTyping
  <2> QED  BY <1>4, <1>w, <2>2 DEF StartWorker, UpInPool, workerVars, msgVars
<1>5. ASSUME NEW p \in Pids, BeginRestore(p)
      PROVE  Goal
  <2>1. Range(workers) \subseteq Range(workers')
    <3>1. p \notin Range(workers) => Range(Append(workers, p)) = Range(workers) \cup {p}
      BY <1>w, WorkersTyping
    <3> QED  BY <1>5, <3>1 DEF BeginRestore, osVars, workerVars
  <2> QED  BY <1>5, <2>1 DEF BeginRestore, UpInPool, osVars, workerVars
<1> QED  BY <1>1, <1>2, <1>3, <1>4, <1>5 DEF Next, vars, osVars, poolVars, ProcessCall, StartLoad,
            EndLoad, Unload, Signal, DispatchRequest, SendScheduled, Resolve, WaitUpdate, BeginUpdate,
            FinishUpdate, FailUpdate, HandleNoStop, FinishRestore, FailRestore, workerVars, lockVars,
            msgVars

(* Having a model, and what may take it, is about its slot. *)
LEMMA SlotOnly ==
  ASSUME NEW m, NEW n, m.slot = n.slot
  PROVE  /\ \A p : Has(p, m) => Has(p, n)
         /\ \A p : MayLack(p, m) => MayLack(p, n)
BY DEF Has, Unloading, MayLack

(* Workers are asked to unload by updates that run only (dispatch_update). *)
LEMMA UnloadsBegunStep ==
  ASSUME TypeInv, UnloadsBegun, [Next]_vars
  PROVE  UnloadsBegun'
<1>p. Updates' = Updates
  BY PlanStays
<1>t. update \in [Updates -> {"idle", "waiting", "running", "done", "failed"}]
  BY DEF TypeInv, TypeOK
<1>k. \A kind, id, model, p : /\ Message(kind, id, model, p).kind = kind
                              /\ Message(kind, id, model, p).model = model
  BY DEF Message
<1>g. \A m : Unloading(m) => Unloading(m)'
  BY StepGrows
<1>1. ASSUME Asked' \subseteq Asked
      PROVE  UnloadsBegun'
  BY <1>1, <1>g DEF UnloadsBegun
<1>2. UNCHANGED queue => Asked' \subseteq Asked \cup scheduled'
  BY DEF Asked
<1>3. ASSUME NEW u \in Updates, BeginUpdate(u)
      PROVE  UnloadsBegun'
  <2>1. u.kind = "unload" => Unloading(u.model)'
    BY <1>p, <1>t, <1>3 DEF BeginUpdate, Unloading
  <2>2. /\ UNCHANGED queue
        /\ \A m \in scheduled' : m \in scheduled \/ (m.kind = u.kind /\ m.model = u.model)
    BY <1>3, <1>k DEF BeginUpdate, ShareOut, osVars, workerVars
  <2>3. ASSUME NEW m \in scheduled', m.kind = "unload", m.kind = u.kind, m.model = u.model
        PROVE  Unloading(m.model)'
    BY <2>1, <2>3
  <2>4. scheduled \subseteq Asked
    BY DEF Asked
  <2> QED  BY <1>2, <1>g, <2>2, <2>3, <2>4 DEF UnloadsBegun
<1>4. ASSUME NEW p \in Pids, BeginRestore(p)
      PROVE  UnloadsBegun'
  <2>1. UNCHANGED queue /\ \A m \in scheduled' : m \in scheduled \/ m.kind = "restore"
    BY <1>4, <1>k DEF BeginRestore, osVars, workerVars
  <2>2. scheduled \subseteq Asked
    BY DEF Asked
  <2> QED  BY <1>2, <1>g, <2>1, <2>2 DEF UnloadsBegun
<1>5. ASSUME NEW q \in Pids, NEW m \in Oldest(q), StartLoad(m) \/ \E ok \in BOOLEAN : Unload(m, ok)
      PROVE  Asked' \subseteq Asked
  <2>1. m \in Messages /\ Read(m) /\ UNCHANGED scheduled
    BY <1>5, ReadAsked DEF StartLoad, Unload, msgVars
  <2> QED  BY <2>1, ReadAsked
<1>6. ASSUME NEW m \in scheduled, SendScheduled(m)
      PROVE  Asked' \subseteq Asked
  BY <1>6, ReadAsked
<1>7. ASSUME UNCHANGED <<queue, scheduled>>
      PROVE  Asked' \subseteq Asked
  BY <1>7 DEF Asked
<1> QED  BY <1>1, <1>3, <1>4, <1>5, <1>6, <1>7 DEF Next, vars, osVars, workerVars, msgVars, ProcessCall,
     EndLoad, Die, Signal, DispatchRequest, Resolve, WaitUpdate, FinishUpdate, FailUpdate,
     HandleWorkerStop, HandleNoStop, StartWorker, FinishRestore, FailRestore

(* What a worker loads it has, until it is unloaded or fails to load (Worker). *)
LEMMA LoadedStaysStep ==
  ASSUME TypeInv, UnloadsBegun, LoadedStays, [Next]_vars
  PROVE  LoadedStays'
<1>t. /\ loaded \in [Pids -> SUBSET Models]
      /\ succeeded \subseteq Messages /\ responses \subseteq [message : Messages, ok : BOOLEAN]
      /\ loading \subseteq [message : ModelMessages, over : BOOLEAN, cut : BOOLEAN]
  BY DEF TypeInv, TypeOK
<1>m. ModelMessages \subseteq Messages /\ \A m \in Messages : m.worker \in Pids /\ m.model \in Models
  BY MessageParts DEF TypeInv, TypeOK
<1>s. Taken \subseteq Messages
  BY <1>t, <1>m DEF SaidLoaded, Taken
<1>d. Taken' = succeeded' \cup {r.message : r \in {s \in responses' : s.ok}} \cup {l.message : l \in loading'}
  BY DEF SaidLoaded, Taken
<1>g. /\ \A p \in Pids : \A m : MayLack(p, m) => MayLack(p, m)'
      /\ \A p \in Pids : \A m : Has(p, m) => Has(p, m)' \/ MayLack(p, m)'
  BY StepGrows
<1>0. ASSUME NEW m \in Taken, m.kind \in {"load", "reload", "restore"}
      PROVE  Has(m.worker, m.model)' \/ MayLack(m.worker, m.model)'
  <2>1. Has(m.worker, m.model) \/ MayLack(m.worker, m.model)
    BY <1>0 DEF LoadedStays
  <2> QED  BY <1>s, <1>m, <1>g, <2>1
<1>1. ASSUME \A m \in Taken' : m \in Taken \/ m.kind \notin {"load", "reload", "restore"}
      PROVE  LoadedStays'
  BY <1>0, <1>1 DEF LoadedStays
<1>2. ASSUME NEW q \in Pids, NEW n \in Oldest(q), StartLoad(n)
      PROVE  LoadedStays'
  <2>1. n \in Messages /\ n.worker \in Pids /\ n.model \in Models
    BY <1>m, ReadAsked
  <2>2. Has(n.worker, n.model)'
    <3>1. Has(n.worker, n.model)' <=> \E l \in loaded'[n.worker] : l.slot = n.model.slot
      BY DEF Has
    <3>2. CASE Has(n.worker, n.model)
      BY <1>2, <1>t, <2>1, <3>1, <3>2 DEF StartLoad, Has
    <3>3. CASE ~Has(n.worker, n.model)
      <4>1. n.model \in loaded'[n.worker]
        BY <1>2, <1>t, <2>1, <3>3 DEF StartLoad
      <4> QED  BY <3>1, <4>1
    <3> QED  BY <3>2, <3>3
  <2>3. \A m \in Taken' : m \in Taken \/ m = n
    BY <1>2, <1>d DEF StartLoad, msgVars, Taken, SaidLoaded
  <2> QED  BY <1>0, <2>2, <2>3 DEF LoadedStays
<1>3. ASSUME NEW l \in loading, NEW ok \in BOOLEAN, EndLoad(l, ok)
      PROVE  \A m \in Taken' : m \in Taken
  <2>1. /\ succeeded' = succeeded /\ loading' \subseteq loading
        /\ \A r \in responses' : r \in responses \/ r.message = l.message
    BY <1>3 DEF EndLoad, Respond, msgVars
  <2> QED  BY <1>d, <2>1 DEF Taken, SaidLoaded
<1>4. ASSUME NEW q \in Pids, NEW n \in Oldest(q), NEW ok \in BOOLEAN, Unload(n, ok)
      PROVE  \A m \in Taken' : m \in Taken \/ m.kind \notin {"load", "reload", "restore"}
  <2>1. /\ n.kind = "unload" /\ succeeded' = succeeded
        /\ \A r \in responses' : r \in responses \/ r.message = n
        /\ \A k \in loading' : \E l \in loading : k.message = l.message
    <3>1. \A l \in loading : \A b : [l EXCEPT !.cut = @ \/ b].message = l.message
      BY <1>t
    <3>2. n.kind = "unload" /\ succeeded' = succeeded /\ \A r \in responses' : r \in responses \/ r.message = n
      BY <1>4 DEF Unload, Respond, msgVars
    <3> DEFINE cut(l) == [l EXCEPT !.cut = @ \/ (Has(n.worker, n.model) /\ SameSlot(l.message, n))]
    <3>3. loading' = {cut(l) : l \in loading}
      BY <1>4 DEF Unload
    <3>4. \A l \in loading : cut(l).message = l.message
      BY <3>1
    <3> HIDE DEF cut
    <3> QED  BY <3>2, <3>3, <3>4
  <2> QED  BY <1>d, <2>1 DEF Taken, SaidLoaded
<1>5. ASSUME NEW n \in inbox, n.kind = "call", ProcessCall(n)
      PROVE  \A m \in Taken' : m \in Taken \/ m.kind \notin {"load", "reload", "restore"}
  BY <1>5, <1>d DEF ProcessCall, Respond, msgVars, Taken, SaidLoaded
<1>c. \A n \in inbox : n.kind = "call"
  BY DEF TypeInv, TypeOK, ModelMessages
<1>6. ASSUME NEW r \in responses, Resolve(r)
      PROVE  \A m \in Taken' : m \in Taken
  BY <1>6, <1>d DEF Resolve, Taken, SaidLoaded
<1>7. ASSUME UNCHANGED <<succeeded, loading>>, responses' \subseteq responses
      PROVE  \A m \in Taken' : m \in Taken
  BY <1>7, <1>d DEF Taken, SaidLoaded
<1> QED  BY <1>c, <1>1, <1>2, <1>3, <1>4, <1>5, <1>6, <1>7 DEF Next, vars, osVars, workerVars,
     msgVars, Die, Signal, DispatchRequest, SendScheduled, WaitUpdate, BeginUpdate, FinishUpdate, FailUpdate,
     HandleWorkerStop, HandleNoStop, StartWorker, BeginRestore, FinishRestore, FailRestore

(* A step lists, of a slot that was not listed, only a model that every      *)
(* worker up has: the one of an update that ends (load_model, reload_model). *)
LEMMA ListedIsLoaded ==
  ASSUME TypeInv, LockInv, [Next]_vars, NEW m \in registered'
  PROVE  \/ \E n \in registered : n.slot = m.slot
         \/ \A p \in Pids : proc[p] = "up" /\ restart[p] \in {"restoring", "ready"} =>
              Has(p, m) \/ MayLack(p, m)
<1>m. \A u \in Updates : u.kind \in {"load", "reload", "unload"} /\ u.model \in Models
  BY MessageParts DEF TypeInv, TypeOK
<1>k. \A kind, id, model, p : /\ Message(kind, id, model, p).kind = kind
                              /\ Message(kind, id, model, p).id = id
                              /\ Message(kind, id, model, p).model = model
                              /\ Message(kind, id, model, p).worker = p
  BY DEF Message
<1>l. \A u \in Updates :
        /\ Listed(u) \subseteq registered \cup (IF u.kind = "unload" THEN {} ELSE {u.model})
        /\ MayBegin(u) => \A n \in ListReload(u) : \E l \in registered : l.slot = n.slot
  <2>1. ASSUME NEW u \in Updates
        PROVE  Listed(u) \subseteq registered \cup (IF u.kind = "unload" THEN {} ELSE {u.model})
    BY DEF Listed, Clear
  <2>2. ASSUME NEW u \in Updates, MayBegin(u), NEW n \in ListReload(u)
        PROVE  \E l \in registered : l.slot = n.slot
    BY <1>m, <2>1, <2>2 DEF ListReload, MayBegin, IsListed
  <2> QED  BY <2>1, <2>2
<1>1. ASSUME NEW u \in Updates, WaitUpdate(u) \/ BeginUpdate(u)
      PROVE  \E n \in registered : n.slot = m.slot
  <2>1. registered' = registered \/ (registered' = ListReload(u) /\ MayBegin(u))
    BY <1>1 DEF WaitUpdate, BeginUpdate, osVars, workerVars, msgVars
  <2> QED  BY <1>l, <2>1
<1>2. ASSUME NEW u \in Updates, FinishUpdate(u), m \notin registered
      PROVE  \A p \in Pids : proc[p] = "up" /\ restart[p] \in {"restoring", "ready"} =>
               Has(p, m) \/ MayLack(p, m)
  <2>1. m = u.model /\ u.kind \in {"load", "reload"} /\ update[u] = "running" /\ Shares(u) \subseteq succeeded
    BY <1>l, <1>m, <1>2 DEF FinishUpdate, osVars, workerVars, msgVars
  <2>2. ASSUME NEW p \in Pids, proc[p] = "up", restart[p] \in {"restoring", "ready"}
        PROVE  Has(p, m) \/ MayLack(p, m)
    <3> DEFINE share == Message(u.kind, u.id, u.model, p)
    <3>1. share \in Sent
      BY <2>1, <2>2 DEF LockInv, EveryoneAsked
    <3>2. share.kind = u.kind /\ share.id = u.id /\ share.model = u.model /\ share.worker = p
      BY <1>k
    <3> HIDE DEF share
    <3>3. share \in Taken
      BY <2>1, <3>1, <3>2 DEF Shares, SaidLoaded, Taken
    <3> QED  BY <2>1, <3>2, <3>3 DEF LockInv, LoadedStays
  <2> QED  BY <2>2
<1> QED  BY <1>1, <1>2 DEF Next, vars, osVars, poolVars, ProcessCall, StartLoad, EndLoad, Unload, Die,
            Signal, DispatchRequest, SendScheduled, Resolve, FailUpdate, HandleWorkerStop, HandleNoStop,
            StartWorker, BeginRestore, FinishRestore, FailRestore, workerVars, lockVars, msgVars

(* A worker takes a step of its start. *)
LEMMA RestartStep ==
  ASSUME TypeInv, UpInPool, [Next]_vars, NEW p \in Pids, proc'[p] = "up"
  PROVE  /\ restart'[p] = "restoring" => proc[p] = "up" /\ (restart[p] = "restoring" \/ BeginRestore(p))
         /\ restart'[p] = "ready" => proc[p] = "up" /\ (restart[p] = "ready" \/ FinishRestore(p))
<1>t. restart \in [Pids -> {"none", "locking", "restoring", "ready", "failed"}]
  BY DEF TypeInv, TypeOK
<1>1. restart'[p] # "locking" => proc[p] = "up"
  BY UpInPoolStep
<1>2. ASSUME UNCHANGED restart
      PROVE  restart'[p] = restart[p]
  BY <1>2
<1>3. ASSUME NEW q \in Pids, StartWorker(q)
      PROVE  restart'[p] \in {restart[p], "locking"}
  BY <1>3, <1>t DEF StartWorker, workerVars, msgVars
<1>4. ASSUME NEW q \in Pids, BeginRestore(q)
      PROVE  restart'[p] = restart[p] \/ (restart'[p] = "restoring" /\ BeginRestore(p))
  BY <1>4, <1>t DEF BeginRestore, osVars, workerVars
<1>5. ASSUME NEW q \in Pids, FinishRestore(q)
      PROVE  restart'[p] = restart[p] \/ (restart'[p] = "ready" /\ FinishRestore(p))
  BY <1>5, <1>t DEF FinishRestore, osVars, workerVars, lockVars, msgVars
<1>6. ASSUME NEW q \in Pids, FailRestore(q)
      PROVE  restart'[p] \in {restart[p], "failed"}
  BY <1>6, <1>t DEF FailRestore, osVars, workerVars, lockVars, msgVars
<1>7. \/ restart'[p] \in {restart[p], "locking", "failed"}
      \/ restart'[p] = "restoring" /\ BeginRestore(p)
      \/ restart'[p] = "ready" /\ FinishRestore(p)
  BY <1>2, <1>3, <1>4, <1>5, <1>6 DEF Next, vars, osVars, poolVars, ProcessCall, StartLoad, EndLoad,
     Unload, Die, Signal, DispatchRequest, SendScheduled, Resolve, WaitUpdate, BeginUpdate,
     FinishUpdate, FailUpdate, HandleWorkerStop, HandleNoStop, workerVars, lockVars, msgVars
<1> QED  BY <1>1, <1>7

(* An update asks every worker up, and those that list their models later    *)
(* wait for the lock (dispatch_update, on_worker_start).                    *)
LEMMA EveryoneAskedStep ==
  ASSUME TypeInv, LockInv, [Next]_vars
  PROVE  EveryoneAsked'
<1>p. Updates' = Updates
  BY PlanStays
<1>t. update \in [Updates -> {"idle", "waiting", "running", "done", "failed"}]
  BY DEF TypeInv, TypeOK
<1>g. Sent \subseteq Sent'
  BY StepGrows DEF LockInv
<1>1. ASSUME NEW u \in Updates, NEW p \in Pids, update'[u] = "running", proc'[p] = "up",
             restart'[p] \in {"restoring", "ready"}
      PROVE  Message(u.kind, u.id, u.model, p) \in Sent'
  <2>1. /\ proc[p] = "up"
        /\ restart[p] \in {"restoring", "ready"} \/ BeginRestore(p)
    BY <1>1, RestartStep DEF LockInv, FinishRestore, osVars, workerVars, lockVars, msgVars
  <2>2. update[u] = "running" \/ BeginUpdate(u)
    <3>1. \A v \in Updates : WaitUpdate(v) => update'[u] \in {update[u], "waiting"}
      BY <1>t DEF WaitUpdate, osVars, workerVars, msgVars
    <3>2. \A v \in Updates : BeginUpdate(v) => update'[u] = update[u] \/ BeginUpdate(u)
      BY <1>t DEF BeginUpdate, osVars, workerVars
    <3>3. \A v \in Updates : FinishUpdate(v) => update'[u] \in {update[u], "done"}
      BY <1>t DEF FinishUpdate, osVars, workerVars, msgVars
    <3>4. \A v \in Updates : FailUpdate(v) => update'[u] \in {update[u], "failed"}
      BY <1>t DEF FailUpdate, osVars, workerVars, poolVars, msgVars
    <3>5. update'[u] = update[u] \/ (\E v \in Updates : \/ WaitUpdate(v) \/ BeginUpdate(v)
                                                        \/ FinishUpdate(v) \/ FailUpdate(v))
      BY DEF Next, vars, osVars, poolVars, ProcessCall, StartLoad, EndLoad, Unload, Die, Signal,
         DispatchRequest, SendScheduled, Resolve, HandleWorkerStop, HandleNoStop, StartWorker,
         BeginRestore, FinishRestore, FailRestore, workerVars, lockVars, msgVars
    <3> QED  BY <1>1, <3>1, <3>2, <3>3, <3>4, <3>5
  <2>3. CASE BeginUpdate(u)
    <3>1. p \in Range(workers)
      BY <2>1 DEF LockInv, UpInPool
    <3>2. Message(u.kind, u.id, u.model, p) \in scheduled'
      BY <2>3, <3>1 DEF BeginUpdate, ShareOut, osVars, workerVars
    <3>3. Sent' = scheduled' \cup pending' \cup succeeded' \cup failed'
      BY DEF Sent
    <3> QED  BY <3>2, <3>3
  <2>4. CASE update[u] = "running" /\ BeginRestore(p)
    BY <2>4 DEF LockInv, LockHeld, BeginRestore, IsNext
  <2>5. CASE update[u] = "running" /\ restart[p] \in {"restoring", "ready"}
    BY <1>g, <2>1, <2>5 DEF LockInv, EveryoneAsked
  <2> QED  BY <2>1, <2>2, <2>3, <2>4, <2>5
<1> QED  BY <1>p, <1>1 DEF EveryoneAsked

(* A worker that begins to restore asks itself for every listed model, and   *)
(* takes part in every update from then on (_start_worker).                 *)
LEMMA RestoreCoversStep ==
  ASSUME TypeInv, LockInv, [Next]_vars
  PROVE  RestoreCovers'
<1>t. registered \subseteq Models
  BY DEF TypeInv, TypeOK
<1>g. /\ Sent \subseteq Sent'
      /\ \A p \in Pids : \A m : MayLack(p, m) => MayLack(p, m)'
      /\ \A p \in Pids : \A m : Has(p, m) => Has(p, m)' \/ MayLack(p, m)'
  BY StepGrows DEF LockInv
<1>1. ASSUME NEW p \in Pids, NEW m \in registered', proc'[p] = "up", restart'[p] = "restoring"
      PROVE  \/ Has(p, m)' \/ MayLack(p, m)'
             \/ \E n \in Models : n.slot = m.slot /\ Message("restore", p, n, p) \in Sent'
  <2>1. proc[p] = "up" /\ (restart[p] = "restoring" \/ BeginRestore(p))
    BY <1>1, RestartStep DEF LockInv
  <2>2. CASE BeginRestore(p)
    <3>1. m \in registered /\ Message("restore", p, m, p) \in scheduled'
      BY <2>2 DEF BeginRestore
    <3>2. Sent' = scheduled' \cup pending' \cup succeeded' \cup failed'
      BY DEF Sent
    <3> QED  BY <1>t, <3>1, <3>2
  <2>3. ASSUME restart[p] = "restoring", NEW l \in registered, l.slot = m.slot
        PROVE  \/ Has(p, m)' \/ MayLack(p, m)'
               \/ \E n \in Models : n.slot = m.slot /\ Message("restore", p, n, p) \in Sent'
    <3>1. \/ Has(p, l) \/ MayLack(p, l)
          \/ \E n \in Models : n.slot = l.slot /\ Message("restore", p, n, p) \in Sent
      BY <2>1, <2>3 DEF LockInv, RestoreCovers
    <3>2. Has(p, l) \/ MayLack(p, l) => Has(p, m) \/ MayLack(p, m)
      BY <2>3, SlotOnly
    <3> QED  BY <1>g, <2>3, <3>1, <3>2
  <2>4. CASE restart[p] = "restoring" /\ ~\E l \in registered : l.slot = m.slot
    <3>1. Has(p, m) \/ MayLack(p, m)
      BY <1>1, <2>1, <2>4, ListedIsLoaded
    <3> QED  BY <1>g, <3>1
  <2> QED  BY <2>1, <2>2, <2>3, <2>4
<1> QED  BY <1>1 DEF RestoreCovers

(* So a worker that is done has every listed model (on_worker_ready). *)
LEMMA ModelsEverywhereStep ==
  ASSUME TypeInv, LockInv, [Next]_vars
  PROVE  ModelsEverywhere'
<1>g. /\ \A p \in Pids : \A m : MayLack(p, m) => MayLack(p, m)'
      /\ \A p \in Pids : \A m : Has(p, m) => Has(p, m)' \/ MayLack(p, m)'
  BY StepGrows DEF LockInv
<1>k. \A id, model, p : /\ Message("restore", id, model, p).kind = "restore"
                        /\ Message("restore", id, model, p).model = model
                        /\ Message("restore", id, model, p).worker = p
  BY DEF Message
<1>1. ASSUME NEW p \in Pids, NEW m \in registered', proc'[p] = "up", restart'[p] = "ready"
      PROVE  Has(p, m)' \/ MayLack(p, m)'
  <2>1. proc[p] = "up" /\ (restart[p] = "ready" \/ FinishRestore(p))
    BY <1>1, RestartStep DEF LockInv
  <2>2. ASSUME NEW l \in registered, l.slot = m.slot
        PROVE  Has(p, m)' \/ MayLack(p, m)'
    <3>1. Has(p, l) \/ MayLack(p, l)
      <4>1. CASE restart[p] = "ready"
        BY <2>1, <4>1 DEF LockInv, ModelsEverywhere
      <4>2. CASE FinishRestore(p)
        <5>1. restart[p] = "restoring" /\ Restores(p) \subseteq succeeded
          BY <4>2 DEF FinishRestore
        <5>2. ASSUME NEW n \in Models, n.slot = l.slot, Message("restore", p, n, p) \in Sent
              PROVE  Has(p, l) \/ MayLack(p, l)
          <6> DEFINE msg == Message("restore", p, n, p)
          <6>1. msg.kind = "restore" /\ msg.model = n /\ msg.worker = p
            BY <1>k
          <6> HIDE DEF msg
          <6>2. msg \in Taken
            BY <5>1, <5>2, <6>1 DEF Restores, SaidLoaded, Taken, msg
          <6>3. Has(p, n) \/ MayLack(p, n)
            BY <6>1, <6>2 DEF LockInv, LoadedStays
          <6> QED  BY <5>2, <6>3, SlotOnly
        <5> QED  BY <2>1, <5>1, <5>2 DEF LockInv, RestoreCovers
      <4> QED  BY <2>1, <4>1, <4>2
    <3>2. Has(p, m) \/ MayLack(p, m)
      BY <2>2, <3>1, SlotOnly
    <3> QED  BY <1>g, <3>2
  <2>3. CASE ~\E l \in registered : l.slot = m.slot
    <3>1. ~FinishRestore(p)
      BY <1>1, <2>3 DEF FinishRestore
    <3>2. Has(p, m) \/ MayLack(p, m)
      BY <1>1, <2>1, <2>3, <3>1, ListedIsLoaded
    <3> QED  BY <1>g, <3>2
  <2> QED  BY <2>2, <2>3
<1> QED  BY <1>1 DEF ModelsEverywhere

(* Every step keeps the parts of LockInv.                                   *)
LEMMA LockStep == TypeInv /\ LockInv /\ [Next]_vars => LockInv'
BY LockHeldStep, UpInPoolStep, UnloadsBegunStep, LoadedStaysStep, EveryoneAskedStep,
   RestoreCoversStep, ModelsEverywhereStep DEF LockInv

(* At the start nothing is listed, sent or updated. *)
LEMMA LockInit == Init => LockInv
<1> SUFFICES ASSUME Init PROVE LockInv
  OBVIOUS
<1>1. /\ proc = [p \in Pids |-> IF p \in Range(FirstWorkers) THEN "up" ELSE "unborn"]
      /\ restart = [p \in Pids |-> IF p \in Range(FirstWorkers) THEN "ready" ELSE "none"]
      /\ update = [u \in Updates |-> "idle"]
      /\ workers = FirstWorkers /\ registered = {}
      /\ queue = [p \in Pids |-> <<>>] /\ loading = {}
      /\ responses = {} /\ scheduled = {} /\ succeeded = {}
  BY DEF Init
<1>2. LockHeld /\ EveryoneAsked
  BY <1>1 DEF LockHeld, EveryoneAsked
<1>3. UpInPool
  BY <1>1 DEF UpInPool
<1>4. UnloadsBegun /\ LoadedStays
  <2>1. \A p \in Pids : Range(queue[p]) = {}
    BY <1>1 DEF Range
  <2>2. Asked = {} /\ Taken = {}
    BY <1>1, <2>1 DEF Asked, Taken, SaidLoaded
  <2> QED  BY <2>2 DEF UnloadsBegun, LoadedStays
<1>5. RestoreCovers /\ ModelsEverywhere
  BY <1>1 DEF RestoreCovers, ModelsEverywhere
<1> QED  BY <1>2, <1>3, <1>4, <1>5 DEF LockInv

(* LockInv is inductive, with the types.                                    *)
LEMMA LockHolds == Spec => []LockInv
BY TypesHold, LockInit, LockStep, PTL DEF Spec

(* A worker that is done starting has every registered model, in one        *)
(* revision or another, whatever was loaded or reloaded while it started    *)
(* and however many workers died in between (Dispatcher.on_worker_start).    *)
(* Only a slot of which a load failed on that very worker is excepted: a     *)
(* first load that fails late removes whatever model has its slot by then    *)
(* (SingleModelRegistry._load_model).                                       *)
THEOREM RestartsMissNothing == Spec => []ModelsEverywhere
<1>1. LockInv => ModelsEverywhere
  BY DEF LockInv
<1> QED  BY <1>1, LockHolds, PTL

-----------------------------------------------------------------------------
(* One crash.                                                               *)

Dead == {p \in Pids : proc[p] \in {"zombie", "reaped"}}
Starting(p) == restart[p] \in {"locking", "restoring", "failed"}

(* Workers are replaced only after one was found dead, and not themselves.   *)
ReplacedAfterDeath ==
  /\ IsFiniteSet(Dead)
  /\ spawning > 0 => \E q \in Pids : proc[q] = "reaped"
  /\ \A p \in Pids : Starting(p) => \E q \in Pids \ {p} : proc[q] = "reaped"

(* With one crash at most: one replacement, nobody in the pool that is gone, *)
(* and only ready workers in the rotation.                                  *)
OneReplaced ==
  /\ spawning > 0 => spawning = 1 /\ \A p \in Range(workers) : restart[p] = "ready"
  /\ \A p, q \in Pids : Starting(p) /\ Starting(q) => p = q
  /\ \A p \in Range(workers) : proc[p] # "reaped" /\ restart[p] # "none"
  /\ \A p \in Range(rotation) : restart[p] = "ready"

(* A call in a worker's queue finds its model. *)
CallsFit ==
  \A m \in inbox : m.kind = "call" =>
    /\ proc[m.worker] # "unborn"
    /\ proc[m.worker] = "up" => Has(m.worker, m.model) \/ MayLack(m.worker, m.model)

CrashInv ==
  /\ ReplacedAfterDeath
  /\ Deaths =< 1 => OneReplaced /\ CallsFit
  /\ CallsOwned
  /\ CallsFindModel

(* A set with two members has more than one.                                *)
LEMMA TwoCount ==
  ASSUME NEW S, IsFiniteSet(S), NEW p \in S, NEW q \in S, p # q
  PROVE  ~(Cardinality(S) =< 1)
<1>1. IsFiniteSet({p}) /\ Cardinality({p}) = 1
  BY FS_Singleton
<1>2. IsFiniteSet({p} \cup {q}) /\ Cardinality({p} \cup {q}) = 2
  <2>1. q \notin {p}
    OBVIOUS
  <2> DEFINE one == {p}
  <2> HIDE DEF one
  <2>2. IsFiniteSet(one \cup {q}) /\ Cardinality(one \cup {q}) = Cardinality(one) + 1
    BY <1>1, <2>1, FS_AddElement DEF one
  <2> QED  BY <1>1, <2>2 DEF one
<1>3. Cardinality({p} \cup {q}) =< Cardinality(S) /\ Cardinality(S) \in Nat
  <2>1. {p} \cup {q} \subseteq S
    OBVIOUS
  <2>2. Cardinality({p} \cup {q}) =< Cardinality(S)
    BY <2>1, FS_Subset
  <2>3. Cardinality(S) \in Nat
    BY FS_CardinalityType
  <2> QED  BY <2>2, <2>3
<1> QED  BY <1>2, <1>3

(* A process goes one way. *)
OneWay ==
  \A p \in Pids :
    /\ proc[p] = "reaped" => proc'[p] = "reaped"
    /\ proc'[p] = "unborn" => proc[p] = "unborn"
    /\ proc'[p] = "up" => proc[p] \in {"up", "unborn"}

(* The dead are found one by one, and counted until the end. *)
LEMMA DeadStep ==
  ASSUME TypeInv, IsFiniteSet(Dead), [Next]_vars
  PROVE  /\ OneWay
         /\ IsFiniteSet(Dead')
         /\ Deaths' =< 1 => Deaths =< 1
<1>t. proc \in [Pids -> {"unborn", "up", "zombie", "reaped"}]
  BY DEF TypeInv, TypeOK
<1>d. Dead' = {p \in Pids : proc'[p] \in {"zombie", "reaped"}}
  BY DEF Dead
<1>0. ASSUME UNCHANGED proc
      PROVE  OneWay /\ Dead' = Dead
  BY <1>0, <1>d DEF OneWay, Dead
<1>1. ASSUME NEW p \in Pids, Die(p)
      PROVE  OneWay /\ Dead' = Dead \cup {p}
  BY <1>1, <1>t, <1>d DEF Die, OneWay, Dead, poolVars, lockVars, msgVars
<1>2. ASSUME NEW p \in Pids, HandleWorkerStop(p)
      PROVE  OneWay /\ Dead' = Dead \cup {p}
  BY <1>2, <1>t, <1>d DEF HandleWorkerStop, OneWay, Dead, workerVars, lockVars
<1>3. ASSUME NEW p \in Pids, StartWorker(p)
      PROVE  OneWay /\ Dead' = Dead
  BY <1>3, <1>t, <1>d DEF StartWorker, OneWay, Dead, workerVars, msgVars
<1>4. OneWay /\ (Dead' = Dead \/ \E p \in Pids : Dead' = Dead \cup {p})
  BY <1>0, <1>1, <1>2, <1>3 DEF Next, vars, osVars, ProcessCall, StartLoad, EndLoad, Unload, Signal,
     DispatchRequest, SendScheduled, Resolve, WaitUpdate, BeginUpdate, FinishUpdate, FailUpdate,
     HandleNoStop, BeginRestore, FinishRestore, FailRestore, workerVars, poolVars, lockVars, msgVars
<1>5. IsFiniteSet(Dead')
  BY <1>4, FS_AddElement
<1>6. Cardinality(Dead) =< Cardinality(Dead')
  <2>1. Dead \subseteq Dead'
    BY <1>4
  <2> QED  BY <1>5, <2>1, FS_Subset
<1>7. Cardinality(Dead) \in Nat /\ Cardinality(Dead') \in Nat
  BY <1>5, FS_CardinalityType
<1>8. Deaths = Cardinality(Dead) /\ Deaths' = Cardinality(Dead')
  BY DEF Deaths, Dead
<1>9. Deaths' =< 1 => Deaths =< 1
  BY <1>6, <1>7, <1>8
<1> QED  BY <1>4, <1>5, <1>9

(* As long as one worker has died: a worker that starts is in the pool, and  *)
(* once the dead one was found there is no other to find.                   *)
LEMMA OneDeath ==
  ASSUME TypeInv, UpInPool, ReplacedAfterDeath, Deaths =< 1
  PROVE  /\ \A p \in Pids : Starting(p) => p \in Range(workers)
         /\ \A p, q \in Pids : ~(proc[p] = "zombie" /\ proc[q] = "reaped")
         /\ \A p \in Pids : proc[p] = "zombie" => ~(spawning > 0) /\ \A q \in Pids : ~Starting(q)
<1>t. /\ proc \in [Pids -> {"unborn", "up", "zombie", "reaped"}]
      /\ Born
  BY DEF TypeInv, TypeOK
<1>1. Deaths = Cardinality(Dead) /\ IsFiniteSet(Dead)
  BY DEF Deaths, Dead, ReplacedAfterDeath
<1>2. \A p, q \in Dead : p = q
  BY <1>1, TwoCount
<1>3. ASSUME NEW p \in Pids, Starting(p)
      PROVE  p \in Range(workers)
  <2>1. proc[p] \in {"zombie", "reaped"} \/ proc[p] = "up"
    BY <1>t, <1>3 DEF Starting, Born
  <2>2. PICK q \in Pids \ {p} : proc[q] = "reaped"
    BY <1>3 DEF ReplacedAfterDeath
  <2> QED  BY <1>2, <2>1, <2>2 DEF Dead, UpInPool
<1>4. \A p, q \in Pids : ~(proc[p] = "zombie" /\ proc[q] = "reaped")
  BY <1>2 DEF Dead
<1> QED  BY <1>3, <1>4 DEF ReplacedAfterDeath

(* What a step needs a dead worker for: to file a task that replaces it      *)
(* (_handle_worker_stop), and to start the one that replaces it.            *)
LEMMA ReplacedStep ==
  ASSUME TypeInv, ReplacedAfterDeath, [Next]_vars
  PROVE  ReplacedAfterDeath'
<1>t. /\ proc \in [Pids -> {"unborn", "up", "zombie", "reaped"}]
      /\ restart \in [Pids -> {"none", "locking", "restoring", "ready", "failed"}]
      /\ spawning \in Nat
  BY DEF TypeInv, TypeOK
<1>f. IsFiniteSet(Dead)
  BY DEF ReplacedAfterDeath
<1>d. OneWay /\ IsFiniteSet(Dead')
  BY <1>f, DeadStep
<1>s. \A p : Starting(p)' <=> restart'[p] \in {"locking", "restoring", "failed"}
  BY DEF Starting
<1>1. \/ spawning' > 0 => spawning > 0
      \/ \E q \in Pids : proc'[q] = "reaped"
  <2>1. ASSUME NEW p \in Pids, HandleWorkerStop(p)
        PROVE  proc'[p] = "reaped"
    BY <1>t, <2>1 DEF HandleWorkerStop, workerVars, lockVars
  <2>2. ASSUME NEW p \in Pids, StartWorker(p)
        PROVE  spawning > 0
    BY <2>2 DEF StartWorker, workerVars, msgVars
  <2> QED  BY <2>1, <2>2 DEF Next, vars, osVars, poolVars, ProcessCall, StartLoad, EndLoad, Unload, Die,
              Signal, DispatchRequest, SendScheduled, Resolve, WaitUpdate, BeginUpdate, FinishUpdate,
              FailUpdate, HandleNoStop, BeginRestore, FinishRestore, FailRestore, workerVars, lockVars,
              msgVars
<1>2. ASSUME NEW p \in Pids, Starting(p)'
      PROVE  Starting(p) \/ \E q \in Pids \ {p} : proc[q] = "reaped"
  <2>1. ASSUME NEW q \in Pids, StartWorker(q), q = p
        PROVE  \E r \in Pids \ {p} : proc[r] = "reaped"
    <3>1. spawning > 0 /\ proc[p] = "unborn"
      BY <2>1 DEF StartWorker, workerVars, msgVars
    <3>2. PICK r \in Pids : proc[r] = "reaped"
      BY <3>1 DEF ReplacedAfterDeath
    <3> QED  BY <3>1, <3>2
  <2>2. ASSUME NEW q \in Pids, StartWorker(q), q # p
        PROVE  restart'[p] = restart[p]
    BY <1>t, <2>2 DEF StartWorker, workerVars, msgVars
  <2>3. ASSUME NEW q \in Pids, BeginRestore(q) \/ FailRestore(q)
        PROVE  restart[p] = restart'[p] \/ Starting(p)
    BY <1>t, <2>3 DEF BeginRestore, FailRestore, Starting, osVars, workerVars, lockVars, msgVars
  <2>4. ASSUME NEW q \in Pids, FinishRestore(q)
        PROVE  restart'[p] = restart[p]
    BY <1>t, <1>2, <1>s, <2>4 DEF FinishRestore, osVars, workerVars, lockVars, msgVars
  <2>5. \/ restart'[p] = restart[p]
        \/ Starting(p)
        \/ \E q \in Pids \ {p} : proc[q] = "reaped"
    BY <2>1, <2>2, <2>3, <2>4 DEF Next, vars, osVars, poolVars, ProcessCall, StartLoad, EndLoad, Unload,
       Die, Signal, DispatchRequest, SendScheduled, Resolve, WaitUpdate, BeginUpdate, FinishUpdate,
       FailUpdate, HandleWorkerStop, HandleNoStop, workerVars, lockVars, msgVars
  <2> QED  BY <1>2, <1>s, <2>5 DEF Starting
<1>3. spawning' > 0 => \E q \in Pids : proc'[q] = "reaped"
  BY <1>1, <1>d DEF ReplacedAfterDeath, OneWay
<1>4. \A p \in Pids : Starting(p)' => \E q \in Pids \ {p} : proc'[q] = "reaped"
  BY <1>2, <1>d DEF ReplacedAfterDeath, OneWay
<1> QED  BY <1>d, <1>3, <1>4 DEF ReplacedAfterDeath

(* With one crash at most, the pool goes one way: its worker dies, is found, *)
(* taken out and replaced, and the replacement starts.                      *)
LEMMA OneReplacedStep ==
  ASSUME TypeInv, UpInPool, ReplacedAfterDeath, OneReplaced, Deaths =< 1, [Next]_vars
  PROVE  OneReplaced'
<1>t. /\ proc \in [Pids -> {"unborn", "up", "zombie", "reaped"}]
      /\ restart \in [Pids -> {"none", "locking", "restoring", "ready", "failed"}]
      /\ spawning \in Nat
      /\ workers \in Seq(Pids) /\ Distinct(workers) /\ rotation \in Seq(Range(workers))
      /\ Born
  BY DEF TypeInv, TypeOK
<1>r. Range(rotation) \subseteq Range(workers) /\ Range(workers) \subseteq Pids
  BY <1>t DEF Range
<1>s. \A p : Starting(p)' <=> restart'[p] \in {"locking", "restoring", "failed"}
  BY DEF Starting
<1>o. /\ \A p \in Pids : Starting(p) => p \in Range(workers)
      /\ \A p, q \in Pids : ~(proc[p] = "zombie" /\ proc[q] = "reaped")
      /\ \A p \in Pids : proc[p] = "zombie" => ~(spawning > 0) /\ \A q \in Pids : ~Starting(q)
  BY OneDeath
<1>k. \A p \in Range(workers) : Starting(p) \/ restart[p] = "ready"
  BY <1>t, <1>r DEF Starting, OneReplaced
<1>0. ASSUME UNCHANGED <<proc, workers, spawning, restart>>, Range(rotation') \subseteq Range(rotation)
      PROVE  OneReplaced'
  BY <1>0 DEF OneReplaced, Starting
<1>1. ASSUME NEW p \in Pids, Die(p)
      PROVE  OneReplaced'
  <2>1. UNCHANGED <<workers, rotation, spawning, restart>> /\ \A q \in Pids : proc'[q] = "reaped" => proc[q] = "reaped"
    BY <1>1, <1>t DEF Die, poolVars, lockVars, msgVars
  <2> QED  BY <1>r, <2>1 DEF OneReplaced, Starting
<1>2. ASSUME NEW p \in Pids, HandleWorkerStop(p)
      PROVE  OneReplaced'
  <2>1. ~(spawning > 0) /\ \A q \in Pids : ~Starting(q)
    BY <1>2, <1>o DEF HandleWorkerStop, workerVars, lockVars
  <2>2. spawning = 0 /\ \A q \in Range(workers) : restart[q] = "ready"
    BY <1>t, <1>r, <1>k, <2>1
  <2>3. /\ spawning' \in {0, 1} /\ UNCHANGED restart
        /\ \A q \in Pids \ {p} : proc'[q] = proc[q]
        /\ \/ UNCHANGED <<workers, rotation>> /\ p \notin Range(workers)
           \/ workers' = Without(workers, p) /\ rotation' = Without(workers, p)
    BY <1>2, <1>t, <2>2 DEF HandleWorkerStop, workerVars, lockVars
  <2>4. Range(workers') \subseteq Range(workers) \ {p} /\ Range(rotation') \subseteq Range(workers)
    <3>1. Range(Without(workers, p)) = Range(workers) \ {p}
      BY <1>t, WorkersTyping
    <3> QED  BY <1>r, <2>3, <3>1
  <2>5. \A q \in Pids : ~Starting(q)'
    BY <1>s, <2>1, <2>3 DEF Starting
  <2>6. \A q \in Range(workers') : proc'[q] # "reaped" /\ restart'[q] = "ready"
    BY <1>r, <2>2, <2>3, <2>4 DEF OneReplaced
  <2>7. \A q \in Range(rotation') : restart'[q] = "ready"
    BY <2>2, <2>3, <2>4
  <2>8. spawning' > 0 => spawning' = 1
    BY <2>3
  <2> QED  BY <2>5, <2>6, <2>7, <2>8 DEF OneReplaced
<1>3. ASSUME NEW p \in Pids, StartWorker(p)
      PROVE  OneReplaced'
  <2>1. spawning > 0 /\ spawning' = spawning - 1 /\ proc[p] = "unborn" /\ workers' = Append(workers, p)
        /\ rotation' = rotation /\ restart' = [restart EXCEPT ![p] = "locking"]
        /\ proc' = [q \in Pids |-> IF q = p THEN "up" ELSE IF proc[q] = "zombie" THEN "reaped" ELSE proc[q]]
    BY <1>3 DEF StartWorker, workerVars, msgVars
  <2>2. p \notin Range(workers)
    BY <1>t, <2>1 DEF Born
  <2>3. Range(workers') = Range(workers) \cup {p}
    BY <1>t, <2>1, <2>2, WorkersTyping
  <2>4. spawning' = 0 /\ \A q \in Range(workers) : restart[q] = "ready"
    BY <2>1 DEF OneReplaced
  <2>5. \A q \in Pids : proc[q] # "zombie"
    BY <1>o, <2>1
  <2>6. \A q \in Pids : Starting(q)' => q = p
    BY <1>t, <1>s, <1>o, <2>1, <2>4 DEF Starting
  <2>7. \A q \in Range(workers') : proc'[q] # "reaped" /\ restart'[q] # "none"
    BY <1>t, <1>r, <2>1, <2>3, <2>4, <2>5 DEF OneReplaced
  <2>8. \A q \in Range(rotation') : restart'[q] = "ready"
    BY <1>t, <1>r, <2>1, <2>2, <2>4
  <2>9. ~(spawning' > 0)
    BY <2>4
  <2> QED  BY <2>6, <2>7, <2>8, <2>9 DEF OneReplaced
<1>4. ASSUME NEW p \in Pids, BeginRestore(p) \/ FinishRestore(p) \/ FailRestore(p)
      PROVE  OneReplaced'
  <2>1. Starting(p) /\ p \in Range(workers) /\ restart[p] # "ready"
    BY <1>4, <1>o DEF BeginRestore, FinishRestore, FailRestore, Starting, osVars, workerVars, lockVars,
       msgVars
  <2>2. ~(spawning > 0) /\ UNCHANGED <<proc, workers, spawning>>
    BY <1>4, <2>1 DEF BeginRestore, FinishRestore, FailRestore, OneReplaced, osVars, workerVars,
       lockVars, msgVars
  <2>3. /\ restart' \in {[restart EXCEPT ![p] = "restoring"], [restart EXCEPT ![p] = "ready"],
                         [restart EXCEPT ![p] = "failed"]}
        /\ rotation' = rotation \/ (rotation' = workers /\ restart' = [restart EXCEPT ![p] = "ready"])
    BY <1>4 DEF BeginRestore, FinishRestore, FailRestore, osVars, workerVars, lockVars, msgVars
  <2>4. \A q \in Pids : Starting(q)' => Starting(q)
    BY <1>t, <1>s, <2>1, <2>3 DEF Starting
  <2>5. \A q \in Range(workers) \ {p} : restart[q] = "ready"
    BY <1>r, <1>k, <2>1 DEF OneReplaced
  <2>6. p \notin Range(rotation)
    BY <2>1 DEF OneReplaced
  <2>7. \A q \in Range(rotation') : restart'[q] = "ready"
    <3>1. CASE rotation' = rotation
      BY <1>t, <1>r, <2>3, <2>6, <3>1 DEF OneReplaced
    <3>2. CASE rotation' = workers /\ restart' = [restart EXCEPT ![p] = "ready"]
      BY <1>t, <1>r, <2>5, <3>2
    <3> QED  BY <2>3, <3>1, <3>2
  <2>8. \A q \in Range(workers') : proc'[q] # "reaped" /\ restart'[q] # "none"
    BY <1>t, <1>r, <2>2, <2>3 DEF OneReplaced
  <2> QED  BY <2>2, <2>4, <2>7, <2>8 DEF OneReplaced
<1>5. ASSUME NEW c \in Calls, NEW m \in Models, DispatchRequest(c, m)
      PROVE  OneReplaced'
  <2>1. /\ rotation # <<>> /\ rotation' = Append(Tail(rotation), Head(rotation))
        /\ UNCHANGED <<proc, workers, spawning, restart>>
    BY <1>5 DEF DispatchRequest, lockVars
  <2>2. Range(rotation') \subseteq Range(rotation)
    <3>1. rotation \in Seq(Range(rotation))
      BY <1>t, RowOfRange
    <3>2. rotation' \in Seq(Range(rotation))
      BY <2>1, <3>1
    <3> QED  BY <3>2 DEF Range
  <2> QED  BY <1>0, <2>1, <2>2
<1> QED  BY <1>0, <1>1, <1>2, <1>3, <1>4, <1>5 DEF Next, vars, osVars, poolVars, ProcessCall, StartLoad,
            EndLoad, Unload, Signal, SendScheduled, Resolve, WaitUpdate, BeginUpdate, FinishUpdate,
            FailUpdate, HandleNoStop, workerVars, lockVars, msgVars

(* A call goes to a worker of the rotation, and those are ready              *)
(* (dispatch_request).                                                      *)
LEMMA CallsFitStep ==
  ASSUME TypeInv, LockInv, ReplacedAfterDeath, OneReplaced, CallsFit, Deaths =< 1, [Next]_vars
  PROVE  CallsFit'
<1>t. /\ proc \in [Pids -> {"unborn", "up", "zombie", "reaped"}]
      /\ inbox \subseteq Messages
      /\ rotation \in Seq(Range(workers)) /\ Range(workers) \subseteq Pids
      /\ Born
  BY DEF TypeInv, TypeOK, Range
<1>m. ModelMessages \subseteq Messages /\ \A m \in Messages : m.worker \in Pids /\ m.model \in Models
  BY MessageParts DEF TypeInv, TypeOK
<1>f. IsFiniteSet(Dead)
  BY DEF ReplacedAfterDeath
<1>d. OneWay
  BY <1>f, DeadStep
<1>g. /\ \A p \in Pids : \A m : MayLack(p, m) => MayLack(p, m)'
      /\ \A p \in Pids : \A m : Has(p, m) => Has(p, m)' \/ MayLack(p, m)'
  BY StepGrows DEF LockInv
<1>1. ASSUME NEW n \in inbox, n.kind = "call"
      PROVE  /\ proc'[n.worker] # "unborn"
             /\ proc'[n.worker] = "up" => Has(n.worker, n.model)' \/ MayLack(n.worker, n.model)'
  <2>1. n.worker \in Pids
    BY <1>t, <1>m
  <2>2. /\ proc[n.worker] # "unborn"
        /\ proc[n.worker] = "up" => Has(n.worker, n.model) \/ MayLack(n.worker, n.model)
    BY <1>1 DEF CallsFit
  <2> QED  BY <1>d, <1>g, <2>1, <2>2 DEF OneWay
<1>2. ASSUME inbox' \subseteq inbox
      PROVE  CallsFit'
  BY <1>1, <1>2 DEF CallsFit
<1>3. ASSUME NEW c \in Calls, NEW m \in Models, DispatchRequest(c, m)
      PROVE  CallsFit'
  <2>1. /\ rotation # <<>> /\ m \in registered
        /\ inbox' = inbox \cup {Message("call", c.id, m, Head(rotation))}
        /\ UNCHANGED proc
    BY <1>3 DEF DispatchRequest, lockVars
  <2>2. Head(rotation) \in Range(workers) /\ Head(rotation) \in Range(rotation)
    BY <1>t, <2>1 DEF Range
  <2>3. PICK p \in Pids : /\ p = Head(rotation)
                         /\ proc[p] # "unborn" /\ restart[p] = "ready"
    BY <1>t, <2>2 DEF Born, OneReplaced
  <2>4. PICK call : /\ call = Message("call", c.id, m, p)
                    /\ call.worker = p /\ call.model = m
    <3>1. /\ Message("call", c.id, m, p).worker = p
          /\ Message("call", c.id, m, p).model = m
      BY DEF Message
    <3> QED  BY <3>1
  <2>5. proc[p] = "up" => Has(p, m) \/ MayLack(p, m)
    BY <2>1, <2>3 DEF LockInv, ModelsEverywhere
  <2>6. /\ proc'[p] # "unborn"
        /\ proc'[p] = "up" => Has(p, m)' \/ MayLack(p, m)'
    BY <1>g, <2>1, <2>3, <2>5
  <2>7. /\ proc'[call.worker] # "unborn"
        /\ proc'[call.worker] = "up" => Has(call.worker, call.model)' \/ MayLack(call.worker, call.model)'
    BY <2>4, <2>6
  <2>8. ASSUME NEW n \in inbox', n.kind = "call"
        PROVE  /\ proc'[n.worker] # "unborn"
               /\ proc'[n.worker] = "up" => Has(n.worker, n.model)' \/ MayLack(n.worker, n.model)'
    <3>1. CASE n \in inbox
      BY <1>1, <2>8, <3>1
    <3>2. CASE n = call
      BY <2>7, <3>2
    <3> QED  BY <2>1, <2>3, <2>4, <3>1, <3>2
  <2> QED  BY <2>8 DEF CallsFit
<1> QED  BY <1>2, <1>3 DEF Next, vars, osVars, ProcessCall, StartLoad, EndLoad, Unload, Die, Signal,
            SendScheduled, Resolve, WaitUpdate, BeginUpdate, FinishUpdate, FailUpdate, HandleWorkerStop,
            HandleNoStop, StartWorker, BeginRestore, FinishRestore, FailRestore, workerVars, poolVars,
            lockVars, msgVars

(* A worker that is found dead has its calls cancelled (on_worker_stop). *)
LEMMA CallsOwnedStep ==
  ASSUME TypeInv, UpInPool, ReplacedAfterDeath, Deaths =< 1 => OneReplaced, CallsOwned, [Next]_vars
  PROVE  CallsOwned'
<1>t. /\ proc \in [Pids -> {"unborn", "up", "zombie", "reaped"}]
      /\ pending \subseteq Messages /\ spawning \in Nat
      /\ workers \in Seq(Pids) /\ Distinct(workers) /\ rotation \in Seq(Range(workers))
      /\ Range(workers) \subseteq Pids
      /\ Born
  BY DEF TypeInv, TypeOK, Range
<1>m. \A m \in Messages : m.worker \in Pids
  BY MessageParts DEF TypeInv, TypeOK
<1>f. IsFiniteSet(Dead)
  BY DEF ReplacedAfterDeath
<1>d. Deaths' =< 1 => Deaths =< 1
  BY <1>f, DeadStep
<1>s. \A m \in scheduled : m.kind # "call"
  BY DEF TypeInv, TypeOK, ModelMessages
<1> DEFINE Owned(m) == m.worker \in Range(workers') /\ proc'[m.worker] # "reaped"
           Goal == Deaths =< 1 => \A m \in pending' : m.kind = "call" => Owned(m)
<1>g. ASSUME Goal
      PROVE  CallsOwned'
  BY <1>d, <1>g DEF CallsOwned
<1>o. ASSUME Deaths =< 1, NEW m \in pending, m.kind = "call"
      PROVE  m.worker \in Range(workers) /\ m.worker \in Pids /\ proc[m.worker] # "reaped"
  BY <1>t, <1>m, <1>o DEF CallsOwned
<1>1. ASSUME UNCHANGED <<proc, workers>>,
             \A m \in pending' : m \in pending \/ m \in scheduled
      PROVE  Goal
  BY <1>o, <1>s, <1>1
<1>2. ASSUME NEW p \in Pids, Die(p)
      PROVE  Goal
  BY <1>t, <1>o, <1>2 DEF Die, poolVars, msgVars, lockVars
<1>3. ASSUME NEW c \in Calls, NEW m \in Models, DispatchRequest(c, m)
      PROVE  Goal
  <2>1. /\ rotation # <<>> /\ pending' = pending \cup {Message("call", c.id, m, Head(rotation))}
        /\ UNCHANGED <<proc, workers>>
    BY <1>3 DEF DispatchRequest, Await, lockVars
  <2>2. Head(rotation) \in Range(workers)
    BY <1>t, <2>1
  <2>3. Message("call", c.id, m, Head(rotation)).worker = Head(rotation)
    BY DEF Message
  <2>4. Deaths =< 1 => proc[Head(rotation)] # "reaped"
    BY <2>2 DEF OneReplaced
  <2> QED  BY <1>o, <2>1, <2>2, <2>3, <2>4
<1>4. ASSUME NEW p \in Pids, HandleWorkerStop(p)
      PROVE  Goal
  <2>1. \A q \in Pids \ {p} : proc'[q] = proc[q]
    BY <1>t, <1>4 DEF HandleWorkerStop, workerVars, lockVars
  <2>2. CASE p \in Range(workers)
    <3>1. Range(Without(workers, p)) = Range(workers) \ {p}
      BY <1>t, WorkersTyping
    <3>2. Range(workers') = Range(workers) \ {p} /\ pending' = pending \ InFlight(p)
      BY <1>4, <2>2, <3>1 DEF HandleWorkerStop, workerVars, lockVars
    <3>3. \A m \in pending' : m \in pending /\ m.worker # p
      <4>1. Messages' = Messages
        BY PlanStays
      <4> QED  BY <1>t, <3>2 DEF InFlight, ToWorker
    <3> QED  BY <1>o, <2>1, <3>2, <3>3
  <2>3. CASE p \notin Range(workers)
    <3>1. workers' = workers /\ pending' = pending
      BY <1>4, <2>3 DEF HandleWorkerStop, workerVars, lockVars
    <3> QED  BY <1>o, <2>1, <2>3, <3>1
  <2> QED  BY <2>2, <2>3
<1>5. ASSUME NEW p \in Pids, StartWorker(p), Deaths =< 1
      PROVE  \A m \in pending' : m.kind = "call" => Owned(m)
  <2>1. /\ spawning > 0 /\ proc[p] = "unborn" /\ workers' = Append(workers, p) /\ pending' = pending
        /\ proc' = [q \in Pids |-> IF q = p THEN "up" ELSE IF proc[q] = "zombie" THEN "reaped" ELSE proc[q]]
    BY <1>5 DEF StartWorker, msgVars, workerVars
  <2>2. p \notin Range(workers)
    BY <1>t, <2>1 DEF Born
  <2>3. Range(workers') = Range(workers) \cup {p}
    BY <1>t, <2>1, <2>2, WorkersTyping
  <2>4. \A q \in Pids : proc[q] # "zombie"
    BY <1>5, <2>1, OneDeath
  <2>5. \A q \in Pids : proc[q] # "reaped" => proc'[q] # "reaped"
    BY <2>1, <2>4
  <2> QED  BY <1>5, <1>o, <2>1, <2>3, <2>5
<1>6. ASSUME NEW p \in Pids, BeginRestore(p), Deaths =< 1
      PROVE  \A m \in pending' : m.kind = "call" => Owned(m)
  <2>1. p \in Range(workers)
    BY <1>6, OneDeath DEF BeginRestore, Starting, osVars, workerVars
  <2>2. UNCHANGED <<proc, workers, pending>>
    BY <1>6, <2>1 DEF BeginRestore, osVars, workerVars
  <2> QED  BY <1>6, <1>o, <2>2
<1>7. ASSUME NEW r \in responses, Resolve(r)
      PROVE  Goal
  BY <1>1, <1>7 DEF Resolve, poolVars, lockVars
<1> HIDE DEF Goal, Owned
<1>8. Goal \/ \E p \in Pids : StartWorker(p) \/ BeginRestore(p)
  BY <1>1, <1>2, <1>3, <1>4, <1>7 DEF Next, vars, osVars, poolVars, msgVars, ProcessCall, StartLoad,
     EndLoad, Unload, Signal, SendScheduled, Await, WaitUpdate, BeginUpdate, FinishUpdate, FailUpdate,
     HandleNoStop, FinishRestore, FailRestore, workerVars, lockVars
<1> QED  BY <1>5, <1>6, <1>8, <1>g DEF Goal

(* A worker answers a call with an error only for want of the model. *)
LEMMA CallsFindModelStep ==
  ASSUME TypeInv, LockInv, ReplacedAfterDeath, Deaths =< 1 => CallsFit, CallsFindModel, [Next]_vars
  PROVE  CallsFindModel'
<1>f. IsFiniteSet(Dead)
  BY DEF ReplacedAfterDeath
<1>d. Deaths' =< 1 => Deaths =< 1
  BY <1>f, DeadStep
<1>g. \A p \in Pids : \A m : MayLack(p, m) => MayLack(p, m)'
  BY StepGrows DEF LockInv
<1>t. responses \subseteq [message : Messages, ok : BOOLEAN] /\ inbox \subseteq Messages
  BY DEF TypeInv, TypeOK
<1>m. \A m \in Messages : m.worker \in Pids
  BY MessageParts DEF TypeInv, TypeOK
<1>1. ASSUME \A r \in responses' : r \in responses \/ r.message.kind # "call"
      PROVE  CallsFindModel'
  BY <1>d, <1>g, <1>t, <1>m, <1>1 DEF CallsFindModel
<1>2. ASSUME NEW n \in inbox, ProcessCall(n)
      PROVE  CallsFindModel'
  <2>1. responses' = responses \cup {[message |-> n, ok |-> Has(n.worker, n.model)]}
    BY <1>2 DEF ProcessCall, Respond
  <2>2. n.worker \in Pids
    BY <1>t, <1>m
  <2>3. Deaths =< 1 /\ n.kind = "call" /\ ~Has(n.worker, n.model) => MayLack(n.worker, n.model)
    BY <1>2 DEF ProcessCall, CallsFit
  <2> QED  BY <1>d, <1>g, <1>t, <1>m, <2>1, <2>2, <2>3 DEF CallsFindModel
<1>3. ASSUME NEW l \in loading, NEW ok \in BOOLEAN, EndLoad(l, ok)
      PROVE  \A r \in responses' : r \in responses \/ r.message.kind # "call"
  <2>1. \A r \in responses' : r \in responses \/ r.message = l.message
    BY <1>3 DEF EndLoad, Respond
  <2>2. l.message.kind # "call"
    BY DEF TypeInv, TypeOK, ModelMessages
  <2> QED  BY <2>1, <2>2
<1>4. ASSUME NEW q \in Pids, NEW n \in Oldest(q), NEW ok \in BOOLEAN, Unload(n, ok)
      PROVE  \A r \in responses' : r \in responses \/ r.message.kind # "call"
  BY <1>4 DEF Unload, Respond
<1>5. ASSUME responses' \subseteq responses
      PROVE  \A r \in responses' : r \in responses \/ r.message.kind # "call"
  BY <1>5
<1>6. ASSUME NEW q \in Pids, NEW n \in Oldest(q), StartLoad(n)
      PROVE  \A r \in responses' : r \in responses \/ r.message.kind # "call"
  BY <1>6 DEF StartLoad
<1> QED  BY <1>1, <1>2, <1>3, <1>4, <1>5, <1>6 DEF Next, vars, osVars, Die, Signal, DispatchRequest,
            SendScheduled, Resolve, WaitUpdate, BeginUpdate, FinishUpdate, FailUpdate, HandleWorkerStop, HandleNoStop,
            StartWorker, BeginRestore, FinishRestore, FailRestore, workerVars, poolVars, lockVars,
            msgVars

(* Every step keeps CrashInv: the death of a worker, its end and what       *)
(* follows, and the answers and ends of calls.                              *)
LEMMA CrashStep == TypeInv /\ LockInv /\ CrashInv /\ [Next]_vars => CrashInv'
<1> SUFFICES ASSUME TypeInv, LockInv, CrashInv, [Next]_vars  PROVE CrashInv'
  OBVIOUS
<1>c. /\ ReplacedAfterDeath /\ CallsOwned /\ CallsFindModel /\ UpInPool
      /\ Deaths =< 1 => OneReplaced /\ CallsFit
  BY DEF CrashInv, LockInv
<1>f. IsFiniteSet(Dead)
  BY <1>c DEF ReplacedAfterDeath
<1>d. Deaths' =< 1 => Deaths =< 1
  BY <1>f, DeadStep
<1>1. ReplacedAfterDeath'
  BY <1>c, ReplacedStep
<1>2. Deaths =< 1 => OneReplaced'
  BY <1>c, OneReplacedStep
<1>3. Deaths =< 1 => CallsFit'
  BY <1>c, CallsFitStep
<1>4. CallsOwned'
  BY <1>c, CallsOwnedStep
<1>5. CallsFindModel'
  BY <1>c, CallsFindModelStep
<1> QED  BY <1>d, <1>1, <1>2, <1>3, <1>4, <1>5 DEF CrashInv

(* At the start nobody is dead, and every worker is ready. *)
LEMMA CrashInit == Init => CrashInv
<1> SUFFICES ASSUME Init PROVE CrashInv
  OBVIOUS
<1>1. /\ proc = [p \in Pids |-> IF p \in Range(FirstWorkers) THEN "up" ELSE "unborn"]
      /\ restart = [p \in Pids |-> IF p \in Range(FirstWorkers) THEN "ready" ELSE "none"]
      /\ workers = FirstWorkers /\ rotation = FirstWorkers /\ spawning = 0
      /\ inbox = {} /\ responses = {} /\ scheduled = {} /\ pending = {}
  BY DEF Init
<1>2. Range(FirstWorkers) \subseteq Pids
  BY WorkersAssumption DEF Range
<1>3. \A p \in Pids : ~Starting(p)
  BY <1>1 DEF Starting
<1>4. ReplacedAfterDeath
  <2>1. Dead = {}
    BY <1>1 DEF Dead
  <2>2. IsFiniteSet(Dead)
    BY <2>1, FS_EmptySet
  <2>3. ~(spawning > 0)
    BY <1>1
  <2> QED  BY <1>3, <2>2, <2>3 DEF ReplacedAfterDeath
<1>5. OneReplaced
  BY <1>1, <1>2, <1>3 DEF OneReplaced
<1>6. CallsFit /\ CallsOwned /\ CallsFindModel
  BY <1>1 DEF CallsFit, CallsOwned, CallsFindModel
<1> QED  BY <1>4, <1>5, <1>6 DEF CrashInv

(* CrashInv is inductive, with the types and what the lock ensures.         *)
LEMMA CrashesHold == Spec => []CrashInv
BY TypesHold, LockHolds, CrashInit, CrashStep, PTL DEF Spec

(* As long as one worker at most has died, a call in flight is on a worker   *)
(* of the pool that may still answer, or whose end is still to be handled:   *)
(* no caller is left waiting for a worker that is gone (on_worker_stop).     *)
THEOREM NoCallStranded == Spec => []CallsOwned
<1>1. CrashInv => CallsOwned
  BY DEF CrashInv
<1> QED  BY <1>1, CrashesHold, PTL

(* As long as one worker at most has died, no call is answered with an error *)
(* because its worker does not have the model, unless its slot was unloaded  *)
(* or a load of it failed on that worker.                                   *)
THEOREM NoTrafficErrors == Spec => []CallsFindModel
<1>1. CrashInv => CallsFindModel
  BY DEF CrashInv
<1> QED  BY <1>1, CrashesHold, PTL
=============================================================================
