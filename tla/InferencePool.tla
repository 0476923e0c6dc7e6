---------------------------- MODULE InferencePool ----------------------------
(***************************************************************************)
(* mlserver/parallel: one InferencePool with its Dispatcher, its worker     *)
(* processes and the SIGCHLD handler of InferencePoolRegistry.              *)
(*                                                                         *)
(* The pool's side is coroutines of one event loop: an action is what one   *)
(* of them does between two suspensions.  Workers are processes that answer *)
(* through a shared queue and may die at any moment.  A message to a worker *)
(* is a call of a model's method, one worker's share of a model update, or  *)
(* the load of a model on a restarted worker ("restore").  The two last are  *)
(* read in the order they were sent, and handled as concurrent tasks.       *)
(***************************************************************************)
EXTENDS Integers, Sequences, FiniteSets, Functions, Rows

CONSTANTS
  Pids,           (* process ids, each used once                           *)
  FirstWorkers,   (* pids of the workers the pool starts with, in order    *)
  Models,         (* [slot, rev]: model settings; a slot is a name and a   *)
                  (* version, and has one model at a time in a registry    *)
  Plans           (* what a behaviour may do: [calls, updates, deaths,     *)
                  (* loadsMayFail]                                         *)

ASSUME WorkersAssumption ==
  FirstWorkers \in Seq(Pids) /\ Distinct(FirstWorkers)
(* A call is [id, slot]; an update is [id, kind, model].                    *)
ASSUME PlansAssumption ==
  \A pl \in Plans :
    /\ \A u \in pl.updates : u.kind \in {"load", "reload", "unload"} /\ u.model \in Models
    /\ \A c \in pl.calls : \E m \in Models : m.slot = c.slot

VARIABLES
  plan,           (* the member of Plans this behaviour follows            *)
  proc,           (* the processes, as the operating system sees them      *)
  loaded,         (* models registered in each worker's own registry       *)
  inbox,          (* calls in the workers' queues                          *)
  queue,          (* each worker's queue of model updates                  *)
  loading,        (* [message, over, cut]: loads that wait for load()      *)
  undone,         (* <<worker, slot>> in which a load failed (history)      *)
  responses,      (* [message, ok]: the shared queue of responses          *)
  sigchld,        (* a SIGCHLD not yet seen by the Python handler          *)
  handlers,       (* _handle_worker_stop tasks that have not run           *)
  workers,        (* the keys of _workers, in insertion order              *)
  rotation,       (* _workers_round_robin, next pid first                  *)
  registered,     (* WorkerRegistry._models                                *)
  holder,         (* updates inside of _worker_starting_lock: at most one  *)
  turns,          (* updates and pids that wait for it, in order           *)
  update,         (* where each update is                                  *)
  spawning,       (* on_worker_stop tasks about to start a new worker      *)
  restart,        (* where each worker's _start_worker is                  *)
  scheduled,      (* messages whose gather task has not run yet            *)
  pending,        (* messages with a pending future in AsyncResponses      *)
  succeeded,      (* messages answered with a result                       *)
  failed          (* messages answered with an exception                   *)

workerVars == <<loaded, inbox, queue, loading, undone, responses>>
osVars == <<plan, proc, sigchld, workerVars>>
lockVars == <<holder, turns>>
poolVars == <<workers, rotation, registered, spawning, restart>>
msgVars == <<scheduled, pending, succeeded, failed>>
vars == <<osVars, handlers, poolVars, lockVars, update, msgVars>>

Calls == plan.calls
Updates == plan.updates
Deaths == Cardinality({p \in Pids : proc[p] \in {"zombie", "reaped"}})

(* A call is tagged by its id; so is an update, once per worker; a restore  *)
(* has the worker's pid for id.                                             *)
Message(kind, id, model, worker) ==
  [kind |-> kind, id |-> id, model |-> model, worker |-> worker]

Messages ==
  {Message("call", c.id, m, p) : c \in Calls, m \in Models, p \in Pids}
    \cup {Message(u.kind, u.id, u.model, p) : u \in Updates, p \in Pids}
    \cup {Message("restore", p, m, p) : p \in Pids, m \in Models}

(* Updates and restores: what gather makes and a worker reads in order.     *)
ModelMessages == {m \in Messages : m.kind # "call"}

ToWorker(p) == {m \in Messages : m.worker = p}
Sent == scheduled \cup pending \cup succeeded \cup failed

TypeOK ==
  /\ plan \in Plans
  /\ proc \in [Pids -> {"unborn", "up", "zombie", "reaped"}]
  /\ loaded \in [Pids -> SUBSET Models]
  /\ inbox \subseteq Messages \ ModelMessages
  /\ queue \in [Pids -> Seq(ModelMessages)]
  /\ loading \subseteq [message : ModelMessages, over : BOOLEAN, cut : BOOLEAN]
  /\ undone \subseteq Pids \X {m.slot : m \in Models}
  /\ responses \subseteq [message : Messages, ok : BOOLEAN]
  /\ sigchld \in BOOLEAN
  /\ handlers \in Nat
  /\ workers \in Seq(Pids) /\ Distinct(workers)
  /\ rotation \in Seq(Range(workers))
  /\ registered \subseteq Models
  /\ holder \subseteq Updates /\ Cardinality(holder) =< 1
  /\ turns \in Seq(Updates \cup Pids)
  /\ update \in [Updates -> {"idle", "waiting", "running", "done", "failed"}]
  /\ spawning \in Nat
  /\ restart \in [Pids -> {"none", "locking", "restoring", "ready", "failed"}]
  /\ scheduled \subseteq ModelMessages /\ pending \subseteq Messages
  /\ succeeded \subseteq Messages /\ failed \subseteq Messages

Init ==
  /\ plan \in Plans
  /\ proc = [p \in Pids |-> IF p \in Range(FirstWorkers) THEN "up" ELSE "unborn"]
  /\ loaded = [p \in Pids |-> {}]
  /\ inbox = {} /\ queue = [p \in Pids |-> <<>>] /\ loading = {} /\ undone = {}
  /\ responses = {} /\ sigchld = FALSE /\ handlers = 0
  /\ workers = FirstWorkers
  /\ rotation = FirstWorkers
  /\ registered = {}
  /\ holder = {} /\ turns = <<>>
  /\ update = [u \in Updates |-> "idle"]
  /\ spawning = 0
  /\ restart = [p \in Pids |-> IF p \in Range(FirstWorkers) THEN "ready" ELSE "none"]
  /\ scheduled = {} /\ pending = {} /\ succeeded = {} /\ failed = {}

-----------------------------------------------------------------------------
(* The worker processes.                                                    *)

Has(p, m) == \E l \in loaded[p] : l.slot = m.slot

(* Models without what they have in m's slot. *)
Clear(models, m) == {l \in models : l.slot # m.slot}

Respond(m, ok) == responses' = responses \cup {[message |-> m, ok |-> ok]}

(* What load() or unload() may end with. *)
Ends == IF plan.loadsMayFail THEN BOOLEAN ELSE {TRUE}

(* _process_request: the model is looked up when the call's task starts. *)
ProcessCall(m) ==
  /\ m \in inbox
  /\ proc[m.worker] = "up"
  /\ inbox' = inbox \ {m}
  /\ Respond(m, Has(m.worker, m.model))
  /\ UNCHANGED <<plan, proc, sigchld, loaded, queue, loading, undone, handlers, lockVars, update,
                 poolVars, msgVars>>

Oldest(p) == IF queue[p] = <<>> THEN {} ELSE {Head(queue[p])}

(* coro_run reads the oldest update in the worker's queue. *)
Read(m) ==
  /\ proc[m.worker] = "up"
  /\ m \in Oldest(m.worker)
  /\ queue' = [queue EXCEPT ![m.worker] = Tail(@)]

(* A load up to the model's load(): the first model of a slot is registered *)
(* at once, one that finds another is registered when its load() is over.   *)
StartLoad(m) ==
  LET over == Has(m.worker, m.model) IN
  /\ Read(m)
  /\ m.kind # "unload"
  /\ loading' = loading \cup {[message |-> m, over |-> over, cut |-> FALSE]}
  /\ loaded' = [loaded EXCEPT ![m.worker] = IF over THEN @ ELSE @ \cup {m.model}]
  /\ UNCHANGED <<plan, proc, sigchld, inbox, undone, responses, handlers, lockVars, update,
                 poolVars, msgVars>>

(* What the worker has registered once a load is over: a first one that     *)
(* fails removes what its slot has by then, whosever it is; one over another *)
(* registers its model whatever the slot has by then, also if it fails in   *)
(* the other's unload().  After an unload of the slot neither may count: the *)
(* worker may have dropped the registry of the name.                        *)
Loaded(t, ok) ==
  LET now == loaded[t.message.worker]
      cleared == Clear(now, t.message.model)
      then == IF t.over THEN cleared \cup {t.message.model} ELSE IF ok THEN now ELSE cleared
  IN {then} \cup (IF t.cut \/ (t.over /\ ~ok) THEN {now} ELSE {})

(* load() returns or raises. *)
EndLoad(t, ok) ==
  /\ t \in loading
  /\ proc[t.message.worker] = "up"
  /\ ok \in Ends
  /\ loading' = loading \ {t}
  /\ \E models \in Loaded(t, ok) : loaded' = [loaded EXCEPT ![t.message.worker] = models]
  /\ undone' = IF ok THEN undone ELSE undone \cup {<<t.message.worker, t.message.model.slot>>}
  /\ Respond(t.message, ok)
  /\ UNCHANGED <<plan, proc, sigchld, inbox, queue, handlers, lockVars, update, poolVars, msgVars>>

SameSlot(m, n) == m.worker = n.worker /\ m.model.slot = n.model.slot

(* An unload removes what the slot has before it waits for unload(); that   *)
(* its answer comes later changes nothing, as answers are not read in order. *)
Unload(m, ok) ==
  LET found == Has(m.worker, m.model) IN
  /\ Read(m)
  /\ m.kind = "unload"
  /\ ok \in (IF found THEN Ends ELSE {FALSE})
  /\ loaded' = [loaded EXCEPT ![m.worker] = Clear(@, m.model)]
  /\ loading' = {[t EXCEPT !.cut = @ \/ (found /\ SameSlot(t.message, m))] : t \in loading}
  /\ Respond(m, ok)
  /\ UNCHANGED <<plan, proc, sigchld, inbox, undone, handlers, lockVars, update, poolVars, msgVars>>

(* A worker dies, with any of its responses still in its own buffer.  The   *)
(* signal is a flag: a second death before the handler runs sets it again.  *)
Die(p) ==
  /\ proc[p] = "up"
  /\ Deaths < plan.deaths
  /\ proc' = [proc EXCEPT ![p] = "zombie"]
  /\ \E lost \in SUBSET {r \in responses : r.message.worker = p} : responses' = responses \ lost
  /\ sigchld' = TRUE
  /\ UNCHANGED <<plan, loaded, inbox, queue, loading, undone, handlers, lockVars, update, poolVars,
                 msgVars>>

(* The Python signal handler makes a task of _handle_worker_stop. *)
Signal ==
  /\ sigchld
  /\ sigchld' = FALSE
  /\ handlers' = handlers + 1
  /\ UNCHANGED <<plan, proc, workerVars, lockVars, update, poolVars, msgVars>>

-----------------------------------------------------------------------------
(* Messages.                                                                *)

(* AsyncResponses.schedule_and_wait, in the same step as the sending *)
Await(m) == pending' = pending \cup {m}

(* dispatch_request; without a worker in rotation next() fails the call. *)
DispatchRequest(c, m) ==
  /\ m \in registered /\ m.slot = c.slot
  /\ \A x \in Sent : ~(x.kind = "call" /\ x.id = c.id)
  /\ rotation # <<>>
  /\ LET call == Message("call", c.id, m, Head(rotation)) IN
       inbox' = inbox \cup {call} /\ Await(call)
  /\ rotation' = Append(Tail(rotation), Head(rotation))
  /\ UNCHANGED <<plan, proc, sigchld, loaded, queue, loading, undone, responses, handlers, workers,
                 registered, lockVars, update, spawning, restart, scheduled, succeeded, failed>>

(* The first step of a task made by gather: dispatch_update_to_worker.      *)
(* Tasks run in the order they were made: restores are listed while no      *)
(* update is under way, so they are older than the shares of one.           *)
SendScheduled(m) ==
  /\ m \in scheduled
  /\ m.kind # "restore" => \A x \in scheduled : ~(x.kind = "restore" /\ x.worker = m.worker)
  /\ scheduled' = scheduled \ {m}
  /\ queue' = [queue EXCEPT ![m.worker] = Append(@, m)]
  /\ Await(m)
  /\ UNCHANGED <<plan, proc, sigchld, loaded, inbox, loading, undone, responses, handlers, lockVars,
                 update, poolVars, succeeded, failed>>

(* _process_responses takes a response and resolves its future.  For one    *)
(* that is gone resolve() raises and the loop is restarted; one already     *)
(* done keeps its value: either way the response is dropped.                *)
Resolve(r) ==
  /\ r \in responses
  /\ responses' = responses \ {r}
  /\ pending' = pending \ {r.message}
  /\ succeeded' = IF r.ok THEN succeeded \cup (pending \cap {r.message}) ELSE succeeded
  /\ failed' = IF r.ok THEN failed ELSE failed \cup (pending \cap {r.message})
  /\ UNCHANGED <<plan, proc, sigchld, loaded, inbox, queue, loading, undone, handlers, lockVars,
                 update, poolVars, scheduled>>

-----------------------------------------------------------------------------
(* Model updates: load_model, reload_model and unload_model.                *)

Shares(u) == {m \in Sent : m.kind = u.kind /\ m.id = u.id}
ShareOut(u) == scheduled \cup {Message(u.kind, u.id, u.model, p) : p \in Range(workers)}

IsListed(u) == \E m \in registered : m.slot = u.model.slot

(* A reload is of a slot that is listed; an unload is too, or makes up for a *)
(* load that has failed.                                                    *)
MayBegin(u) ==
  \/ u.kind = "load"
  \/ IsListed(u)
  \/ u.kind = "unload" /\ \E v \in Updates : v.model.slot = u.model.slot /\ update[v] = "failed"

(* WorkerRegistry.add and remove *)
Listed(u) == Clear(registered, u.model) \cup (IF u.kind = "unload" THEN {} ELSE {u.model})

(* reload_model lists the new model before the old one is replaced. *)
ListReload(u) == IF u.kind = "reload" THEN Listed(u) ELSE registered

(* dispatch_update finds the lock taken, or promised to others. *)
WaitUpdate(u) ==
  /\ update[u] = "idle" /\ MayBegin(u)
  /\ holder # {} \/ turns # <<>>
  /\ update' = [update EXCEPT ![u] = "waiting"]
  /\ turns' = Append(turns, u)
  /\ registered' = ListReload(u)
  /\ UNCHANGED <<osVars, handlers, workers, rotation, holder, spawning, restart, msgVars>>

(* Mutant: the update does not wait for the lock. *)
BeginUpdateUnlocked(u) ==
  /\ update[u] = "idle" /\ MayBegin(u)
  /\ holder' = holder \cup {u}
  /\ update' = [update EXCEPT ![u] = "running"]
  /\ registered' = ListReload(u)
  /\ scheduled' = ShareOut(u)
  /\ UNCHANGED <<osVars, handlers, workers, rotation, turns, spawning, restart, pending, succeeded,
                 failed>>

(* Whoever waits longest gets the lock next. *)
IsNext(x) == holder = {} /\ turns # <<>> /\ x = Head(turns)

(* dispatch_update enters the lock and lists the workers. *)
BeginUpdate(u) ==
  /\ \/ /\ update[u] = "idle" /\ MayBegin(u) /\ holder = {} /\ turns = <<>>
        /\ registered' = ListReload(u) /\ turns' = turns
     \/ /\ update[u] = "waiting" /\ IsNext(u)
        /\ registered' = registered /\ turns' = Tail(turns)
  /\ holder' = {u}
  /\ update' = [update EXCEPT ![u] = "running"]
  /\ scheduled' = ShareOut(u)
  /\ UNCHANGED <<osVars, handlers, workers, rotation, spawning, restart, pending, succeeded, failed>>

(* Every worker has answered: out of the lock, and into the WorkerRegistry. *)
FinishUpdate(u) ==
  /\ update[u] = "running"
  /\ Shares(u) \subseteq succeeded
  /\ holder' = holder \ {u}
  /\ update' = [update EXCEPT ![u] = "done"]
  /\ registered' = Listed(u)
  /\ UNCHANGED <<osVars, handlers, workers, rotation, turns, spawning, restart, msgVars>>

(* gather raises the first exception and leaves the other shares running:   *)
(* all of them were sent before the first of their answers came.            *)
FailUpdate(u) ==
  /\ update[u] = "running"
  /\ Shares(u) \cap failed # {} /\ Shares(u) \cap scheduled = {}
  /\ holder' = holder \ {u}
  /\ update' = [update EXCEPT ![u] = "failed"]
  /\ UNCHANGED <<osVars, handlers, turns, poolVars, msgVars>>

-----------------------------------------------------------------------------
(* A worker stops and is replaced.                                          *)

(* AsyncResponses.cancel: what the worker was asked and has not answered. *)
InFlight(p) == pending \cap ToWorker(p)

(* Mutant: what the worker had in flight is not cancelled. *)
HandleWorkerStopKeepsCalls(p) ==
  /\ handlers > 0
  /\ handlers' = handlers - 1
  /\ proc[p] = "zombie"
  /\ proc' = [proc EXCEPT ![p] = "reaped"]
  /\ workers' = Without(workers, p)
  /\ rotation' = Without(workers, p)
  /\ spawning' = spawning + 1
  /\ UNCHANGED <<plan, sigchld, workerVars, registered, lockVars, update, restart, msgVars>>

(* waitpid(-1) reports a dead child; on_worker_stop takes it out of the     *)
(* pool, resets the rotation and cancels what it had in flight.             *)
HandleWorkerStop(p) ==
  /\ handlers > 0
  /\ handlers' = handlers - 1
  /\ proc[p] = "zombie"
  /\ proc' = [proc EXCEPT ![p] = "reaped"]
  /\ IF p \in Range(workers)
     THEN /\ workers' = Without(workers, p)
          /\ rotation' = Without(workers, p)
          /\ pending' = pending \ InFlight(p)
          /\ failed' = failed \cup InFlight(p)
          /\ spawning' = spawning + 1
     ELSE UNCHANGED <<workers, rotation, pending, failed, spawning>>
  /\ UNCHANGED <<plan, sigchld, workerVars, registered, lockVars, update, restart, scheduled,
                 succeeded>>

(* waitpid(-1) finds no dead child: pid 0 counts as a graceful end. *)
HandleNoStop ==
  /\ handlers > 0
  /\ \A p \in Pids : proc[p] # "zombie"
  /\ handlers' = handlers - 1
  /\ UNCHANGED <<osVars, lockVars, update, poolVars, msgVars>>

(* _start_worker up to the lock, where it takes its turn at once.           *)
(* Process.start() first polls the other children of the server, which      *)
(* reaps those that are dead.  Which of the unused pids the worker gets      *)
(* makes no difference.                                                     *)
StartWorker(p) ==
  /\ spawning > 0
  /\ spawning' = spawning - 1
  /\ proc[p] = "unborn" /\ p = CHOOSE q \in Pids : proc[q] = "unborn"
  /\ proc' = [q \in Pids |-> IF q = p THEN "up"
                             ELSE IF proc[q] = "zombie" THEN "reaped" ELSE proc[q]]
  /\ workers' = Append(workers, p)
  /\ restart' = [restart EXCEPT ![p] = "locking"]
  /\ turns' = Append(turns, p)
  /\ UNCHANGED <<plan, sigchld, workerVars, handlers, rotation, registered, holder, update, msgVars>>

(* Mutant: the reloads are listed without the lock. *)
BeginRestoreUnlocked(p) ==
  /\ restart[p] = "locking"
  /\ restart' = [restart EXCEPT ![p] = "restoring"]
  /\ scheduled' = scheduled \cup {Message("restore", p, m, p) : m \in registered}
  /\ turns' = Without(turns, p)
  /\ UNCHANGED <<osVars, handlers, workers, rotation, registered, holder, update, spawning,
                 pending, succeeded, failed>>

(* on_worker_start gets the lock, files the worker (again) and lets go; the *)
(* reloads are listed in the same step.                                     *)
BeginRestore(p) ==
  /\ restart[p] = "locking" /\ IsNext(p)
  /\ turns' = Tail(turns)
  /\ restart' = [restart EXCEPT ![p] = "restoring"]
  /\ workers' = IF p \in Range(workers) THEN workers ELSE Append(workers, p)
  /\ scheduled' = scheduled \cup {Message("restore", p, m, p) : m \in registered}
  /\ UNCHANGED <<osVars, handlers, rotation, registered, holder, update, spawning,
                 pending, succeeded, failed>>

Restores(p) == {m \in Sent : m.kind = "restore" /\ m.worker = p}

(* Mutant: the worker is ready before its models are. *)
FinishRestoreEarly(p) ==
  /\ restart[p] = "restoring"
  /\ restart' = [restart EXCEPT ![p] = "ready"]
  /\ rotation' = workers
  /\ UNCHANGED <<osVars, handlers, workers, registered, lockVars, update, spawning, msgVars>>

(* on_worker_ready *)
FinishRestore(p) ==
  /\ restart[p] = "restoring"
  /\ Restores(p) \subseteq succeeded
  /\ restart' = [restart EXCEPT ![p] = "ready"]
  /\ rotation' = workers
  /\ UNCHANGED <<osVars, handlers, workers, registered, lockVars, update, spawning, msgVars>>

FailRestore(p) ==
  /\ restart[p] = "restoring"
  /\ Restores(p) \cap failed # {} /\ Restores(p) \cap scheduled = {}
  /\ restart' = [restart EXCEPT ![p] = "failed"]
  /\ UNCHANGED <<osVars, handlers, workers, rotation, registered, lockVars, update, spawning, msgVars>>

-----------------------------------------------------------------------------
Next ==
  \/ \E m \in inbox : ProcessCall(m)
  \/ \E p \in Pids : \E m \in Oldest(p) : StartLoad(m)
  \/ \E t \in loading, ok \in BOOLEAN : EndLoad(t, ok)
  \/ \E p \in Pids : \E m \in Oldest(p), ok \in BOOLEAN : Unload(m, ok)
  \/ \E p \in Pids : Die(p)
  \/ Signal
  \/ \E c \in Calls, m \in Models : DispatchRequest(c, m)
  \/ \E m \in scheduled : SendScheduled(m)
  \/ \E r \in responses : Resolve(r)
  \/ \E u \in Updates : WaitUpdate(u)
  \/ \E u \in Updates : BeginUpdate(u)
  \/ \E u \in Updates : FinishUpdate(u)
  \/ \E u \in Updates : FailUpdate(u)
  \/ \E p \in Pids : HandleWorkerStop(p)
  \/ HandleNoStop
  \/ \E p \in Pids : StartWorker(p)
  \/ \E p \in Pids : BeginRestore(p)
  \/ \E p \in Pids : FinishRestore(p)
  \/ \E p \in Pids : FailRestore(p)

(* Live workers take their messages and answer calls, the loop runs its     *)
(* tasks and signals are delivered; nobody has to call, update or die, and  *)
(* load() need not return.  A behaviour sends finitely many messages, so a  *)
(* queue that never idles handles them all.                                 *)
Fairness ==
  /\ WF_vars(\E m \in inbox : ProcessCall(m))
  /\ WF_vars(Signal)
  /\ WF_vars(\E m \in scheduled : SendScheduled(m))
  /\ WF_vars(\E r \in responses : Resolve(r))
  /\ WF_vars(\E u \in Updates : FinishUpdate(u) \/ FailUpdate(u))
  /\ WF_vars((\E p \in Pids : HandleWorkerStop(p)) \/ HandleNoStop)
  /\ WF_vars(\E p \in Pids : StartWorker(p))
  /\ WF_vars(\E p \in Pids : BeginRestore(p) \/ FinishRestore(p) \/ FailRestore(p))

Spec == Init /\ [][Next]_vars /\ Fairness

-----------------------------------------------------------------------------
(* Properties.                                                              *)

Unloading(m) == \E u \in Updates : u.kind = "unload" /\ u.model.slot = m.slot /\ update[u] # "idle"

(* What may take a slot from a worker: its unload, or a load of it that      *)
(* fails there.                                                             *)
MayLack(p, m) == Unloading(m) \/ <<p, m.slot>> \in undone

(* A worker that is done starting has every registered model, in one        *)
(* revision or another, whatever was loaded or reloaded while it started    *)
(* (dispatcher.py:155), unless a load of the model's slot failed there.     *)
ModelsEverywhere ==
  \A p \in Pids, m \in registered :
    proc[p] = "up" /\ restart[p] = "ready" => Has(p, m) \/ MayLack(p, m)

(* No traffic errors while a new worker is starting                         *)
(* (tests/parallel/test_pool.py:66): as long as one worker at most has died *)
(* no worker is asked for a registered model it does not have, unless it    *)
(* failed to load one of that slot.                                         *)
CallsFindModel ==
  Deaths =< 1 =>
    \A r \in responses :
      r.message.kind = "call" /\ ~r.ok => MayLack(r.message.worker, r.message.model)

(* A call in flight is on a worker that may still answer, or whose end has  *)
(* still to be handled.                                                     *)
CallsOwned ==
  \A m \in pending :
    m.kind = "call" /\ Deaths =< 1 => m.worker \in Range(workers) /\ proc[m.worker] # "reaped"

(* No model update gets lost in translation (dispatcher.py:155): once every *)
(* update and restart is over, every worker has what is registered.         *)
Quiet ==
  /\ scheduled = {} /\ inbox = {} /\ responses = {} /\ handlers = 0 /\ ~sigchld /\ spawning = 0
  /\ loading = {} /\ \A p \in Pids : queue[p] = <<>>
  /\ \A u \in Updates : update[u] \in {"idle", "done"}
  /\ \A p \in Range(workers) : proc[p] = "up" /\ restart[p] = "ready"
NoUpdateLost == Quiet => \A p \in Range(workers) : loaded[p] = registered

(* Every call in flight gets its result or an exception, as long as one     *)
(* worker at most has died.                                                 *)
InCall(c) == \E m \in pending : m.kind = "call" /\ m.id = c.id
CallsSettle ==
  \A c \in UNION {pl.calls : pl \in Plans} : InCall(c) /\ Deaths =< 1 ~> ~InCall(c) \/ Deaths > 1
=============================================================================
