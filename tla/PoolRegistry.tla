----------------------------- MODULE PoolRegistry -----------------------------
(***************************************************************************)
(* mlserver/parallel/registry.py and mlserver/env.py: the inference pools   *)
(* of the server, one per environment and group id, and the directories the *)
(* environments are extracted into.                                         *)
(*                                                                         *)
(* Loads, reloads and unloads are hooks that ModelRegistry awaits: they     *)
(* suspend while a hash is computed or a tarball extracted in an executor,  *)
(* and while the workers of a pool answer.  A pool is its workers taken     *)
(* together; InferencePool has them one by one.                             *)
(***************************************************************************)
EXTENDS Integers, FiniteSets, Functions

CONSTANTS
  Names,          (* models, by name and version                           *)
  Tarballs,       (* environments given as tarballs, by hash               *)
  Paths,          (* environments that exist already, by hash              *)
  Gids,           (* inference_pool_gid                                    *)
  NoEnv, NoGid,   (* the parameters left out                               *)
  Plans,          (* [ops, serial, failures]: what is asked of the server  *)
  MaxPools        (* bound: InferencePool objects made                     *)

Envs == Tarballs \cup Paths \cup {NoEnv}
Settings == [name : Names, env : Envs, gid : Gids \cup {NoGid}]
NoSettings == [name |-> "none"]

Ops == UNION {p.ops : p \in Plans}

ASSUME PlansAssumption ==
  \A p \in Plans :
    /\ \A o \in p.ops : o.kind \in {"load", "reload", "unload", "close"} /\ o.model \in Settings
    /\ p.serial \in BOOLEAN /\ p.failures \subseteq {"extract", "load"}
ASSUME AbsentAssumption ==
  /\ NoEnv \notin Tarballs \cup Paths /\ Tarballs \cap Paths = {}
  /\ NoGid \notin Gids /\ "none" \notin Names
ASSUME BoundAssumption == MaxPools \in Nat

(* The key of a pool: the hash, the hash with the gid, or the gid.          *)
Keys == Envs \X (Gids \cup {NoGid})
KeyOf(s) == <<s.env, s.gid>>
DefaultKey == <<NoEnv, NoGid>>
NoHash == <<>>
HasEnv(k) == k[1] # NoEnv

DefaultPool == 0
Pools == 0..MaxPools
NoPool == -1

VARIABLES
  plan,           (* the plan in force, chosen at the start                *)
  filed,          (* _pools: the pool under each key                       *)
  pool,           (* each InferencePool made                               *)
  dir,            (* the directory of each key in environments_dir         *)
  live,           (* the settings ModelRegistry has for each name          *)
  hash,           (* __env_hash__ of that model                            *)
  task            (* where each operation is                               *)

vars == <<plan, filed, pool, dir, live, hash, task>>

Stages == {"idle", "hashing", "extracting", "loading", "unloading", "closing", "done", "failed"}
Idle == [stage |-> "idle", pool |-> NoPool, late |-> FALSE, old |-> NoSettings, oldHash |-> NoHash,
         hash |-> NoHash, closing |-> {}]
Unmade == [state |-> "unmade", key |-> DefaultKey, env |-> FALSE, whole |-> TRUE,
           models |-> {}, workers |-> {}]

TypeOK ==
  /\ plan \in Plans
  /\ filed \in [Keys -> Pools \cup {NoPool}]
  /\ pool \in [Pools -> [state : {"unmade", "open", "closed"}, key : Keys, env : BOOLEAN,
                         whole : BOOLEAN, models : SUBSET Names, workers : SUBSET Settings]]
  /\ dir \in [Keys -> {"absent", "partial", "whole"}]
  /\ live \in [Names -> Settings \cup {NoSettings}]
  /\ hash \in [Names -> Keys \cup {NoHash}]
  /\ task \in [Ops -> [stage : Stages, pool : Pools \cup {NoPool}, late : BOOLEAN,
                       old : Settings \cup {NoSettings}, oldHash : Keys \cup {NoHash},
                       hash : Keys \cup {NoHash}, closing : SUBSET Keys]]
  /\ \A k \in Keys : filed[k] # NoPool => pool[filed[k]].key = k

Init ==
  /\ plan \in Plans
  /\ filed = [k \in Keys |-> NoPool]
  /\ pool = [p \in Pools |-> IF p = DefaultPool THEN [Unmade EXCEPT !.state = "open"] ELSE Unmade]
  /\ dir = [k \in Keys |-> "absent"]
  /\ live = [n \in Names |-> NoSettings]
  /\ hash = [n \in Names |-> NoHash]
  /\ task = [o \in Ops |-> Idle]

-----------------------------------------------------------------------------
(* Pools.                                                                   *)

At(k) == IF k = DefaultKey THEN DefaultPool ELSE filed[k]
NewPool == CHOOSE p \in Pools : pool[p].state = "unmade" /\ \A q \in 0..(p - 1) : pool[q].state # "unmade"
CanMake == \E p \in Pools : pool[p].state = "unmade"

(* InferencePool's env_hash, None once its Environment was taken away. *)
EnvHash(p) == IF pool[p].env THEN pool[p].key ELSE NoHash

(* A pool is made over its environment's directory as it then is. *)
Made(k, whole) == [Unmade EXCEPT !.state = "open", !.key = k, !.env = HasEnv(k), !.whole = whole]

Running(o) == task[o].stage \notin {"idle", "done", "failed"}

(* ModelRegistry has one operation at a time under way for a name. *)
MayBegin(o) ==
  /\ o \in plan.ops
  /\ task[o].stage = "idle"
  /\ plan.serial => \A q \in Ops : ~Running(q)
  /\ \A q \in Ops : Running(q) => q.kind # "close" /\ q.model.name # o.model.name

(* pool.load_model or reload_model begins; reload_model files the new       *)
(* settings before a worker has them.                                       *)
Listing(o, rec) == IF o.kind = "reload" THEN [rec EXCEPT !.models = @ \cup {o.model.name}] ELSE rec

Enter(o, p, t) == [t EXCEPT !.stage = "loading", !.pool = p, !.late = (pool[p].state = "closed")]

(* A load goes on with pool p, which is filed or the default one.           *)
UsePool(o, p, t) ==
  /\ pool' = [pool EXCEPT ![p] = Listing(o, @)]
  /\ task' = [task EXCEPT ![o] = Enter(o, p, t)]
  /\ UNCHANGED filed

(* Mutant: the gid is left out of the key. *)
MakePoolWithoutGid(o, k, whole, t) ==
  /\ CanMake
  /\ pool' = [pool EXCEPT ![NewPool] = Listing(o, Made(k, whole))]
  /\ filed' = [filed EXCEPT ![<<k[1], NoGid>>] = NewPool]
  /\ task' = [task EXCEPT ![o] = Enter(o, NewPool, t)]

(* ... or with a new one, filed under k whatever is there already.          *)
MakePool(o, k, whole, t) ==
  /\ CanMake
  /\ pool' = [pool EXCEPT ![NewPool] = Listing(o, Made(k, whole))]
  /\ filed' = [filed EXCEPT ![k] = NewPool]
  /\ task' = [task EXCEPT ![o] = Enter(o, NewPool, t)]

-----------------------------------------------------------------------------
(* Loading and reloading: _get_or_create.                                   *)

(* Without an environment there is no suspension before the pool is used.   *)
BeginLoad(o) ==
  LET k == KeyOf(o.model)
      begun == [Idle EXCEPT !.old = live[o.model.name], !.oldHash = hash[o.model.name]]
  IN
  /\ MayBegin(o)
  /\ \/ o.kind = "load" /\ live[o.model.name] = NoSettings
     \/ o.kind = "reload" /\ live[o.model.name] # NoSettings
  /\ IF HasEnv(k)
     THEN task' = [task EXCEPT ![o] = [begun EXCEPT !.stage = "hashing"]] /\ UNCHANGED <<filed, pool>>
     ELSE IF At(k) # NoPool THEN UsePool(o, At(k), begun) ELSE MakePool(o, k, TRUE, begun)
  /\ UNCHANGED <<plan, dir, live, hash>>

(* The hash is known: an existing pool, an environment at a path, one       *)
(* extracted before, or an extraction to wait for.                          *)
FinishHash(o) ==
  LET k == KeyOf(o.model) IN
  /\ task[o].stage = "hashing"
  /\ \/ filed[k] # NoPool /\ UsePool(o, filed[k], task[o]) /\ UNCHANGED dir
     \/ filed[k] = NoPool /\ o.model.env \in Paths /\ MakePool(o, k, TRUE, task[o]) /\ UNCHANGED dir
     \/ /\ filed[k] = NoPool /\ o.model.env \in Tarballs /\ dir[k] # "absent"
        /\ MakePool(o, k, dir[k] = "whole", task[o])
        /\ UNCHANGED dir
     \/ /\ filed[k] = NoPool /\ o.model.env \in Tarballs /\ dir[k] = "absent"
        /\ dir' = [dir EXCEPT ![k] = "partial"]
        /\ task' = [task EXCEPT ![o].stage = "extracting"]
        /\ UNCHANGED <<filed, pool>>
  /\ UNCHANGED <<plan, live, hash>>

(* from_tarball returns; files deleted meanwhile are missing.               *)
FinishExtract(o) ==
  LET k == KeyOf(o.model)
      whole == dir[k] = "partial"
  IN
  /\ task[o].stage = "extracting"
  /\ dir' = [dir EXCEPT ![k] = IF whole THEN "whole" ELSE "partial"]
  /\ MakePool(o, k, whole, task[o])
  /\ UNCHANGED <<plan, live, hash>>

(* The extraction raises, and leaves the directory behind.                  *)
FailExtract(o) ==
  /\ "extract" \in plan.failures
  /\ task[o].stage = "extracting"
  /\ task' = [task EXCEPT ![o].stage = "failed"]
  /\ UNCHANGED <<plan, filed, pool, dir, live, hash>>

(* What an unload of s with hash h goes to: _find. *)
Found(s, h) == At(IF h # NoHash THEN h ELSE <<NoEnv, s.gid>>)

(* A worker that has a model of that name already replaces it. *)
Replaced(ws, s) == {w \in ws : w.name # s.name} \cup {s}

(* The pool once it has loaded s, too late for its workers or not.          *)
Loaded(rec, s, late) ==
  [rec EXCEPT !.models = @ \cup {s.name}, !.workers = IF late THEN @ ELSE Replaced(@, s)]

(* A load or reload that ends well is what ModelRegistry has from then on.  *)
Settle(o, well, h) ==
  LET loaded == well /\ o.kind \in {"load", "reload"} IN
  /\ live' = IF loaded THEN [live EXCEPT ![o.model.name] = o.model] ELSE live
  /\ hash' = IF loaded THEN [hash EXCEPT ![o.model.name] = h] ELSE hash

(* The workers have answered; an update sent to a pool that is closed       *)
(* reaches none of them, and one under way when it closes is not answered.  *)
Answered(t) == pool[t.pool].state = "open" \/ t.late

(* load_model ends, and so does a reload within one environment; another    *)
(* goes on to unload the old model, if its pool is found.                   *)
AfterLoad(o, h, moves) ==
  LET t == task[o]
      s == o.model
      from == Found(t.old, t.oldHash)
  IN
  /\ t.stage = "loading" /\ Answered(t)
  /\ pool' = [pool EXCEPT ![t.pool] = Loaded(@, s, t.late)]
  /\ \/ ~moves /\ task' = [task EXCEPT ![o] = [@ EXCEPT !.stage = "done", !.hash = h]]
     \/ moves /\ task' = [task EXCEPT ![o] = [@ EXCEPT !.stage = IF from = NoPool THEN "failed" ELSE "unloading",
                                                        !.hash = h, !.pool = from]]
  /\ Settle(o, ~moves, h)
  /\ UNCHANGED <<plan, filed, dir>>

(* Mutant: a reload unloads the old model wherever that is. *)
FinishLoadUnloadsOld(o) ==
  AfterLoad(o, EnvHash(task[o].pool), o.kind = "reload")

FinishLoad(o) ==
  LET h == EnvHash(task[o].pool) IN AfterLoad(o, h, o.kind = "reload" /\ task[o].oldHash # h)

(* A worker fails to load the model: the pool made for it stays, and so do  *)
(* the settings a reload has listed.                                        *)
FailLoad(o) ==
  /\ "load" \in plan.failures
  /\ task[o].stage = "loading"
  /\ task' = [task EXCEPT ![o].stage = "failed"]
  /\ UNCHANGED <<plan, filed, pool, dir, live, hash>>

-----------------------------------------------------------------------------
(* Unloading.                                                               *)

(* A pool that is not found is an exception, which ModelRegistry ignores.   *)
BeginUnload(o) ==
  LET n == o.model.name
      p == Found(live[n], hash[n])
  IN
  /\ o.kind = "unload" /\ MayBegin(o)
  /\ live[n] # NoSettings
  /\ live' = [live EXCEPT ![n] = NoSettings]
  /\ task' = [task EXCEPT ![o] = [Idle EXCEPT !.stage = IF p = NoPool THEN "failed" ELSE "unloading",
                                              !.pool = p, !.old = live[n],
                                              !.late = (p # NoPool /\ pool[p].state = "closed")]]
  /\ UNCHANGED <<plan, filed, pool, dir, hash>>

(* pool.close(): its workers are stopped and forgotten. *)
Stopped(rec) == [rec EXCEPT !.state = "closed", !.workers = {}]

(* The pool without a model. *)
Left(rec, n) == [rec EXCEPT !.models = @ \ {n}, !.workers = {w \in @ : w.name # n}]

(* The workers have answered: a worker without the model raises.  When its  *)
(* pool is left without models, _close_pool stops what is filed under the   *)
(* key by now; nothing there is a KeyError.                                 *)
AfterUnload(o, key) ==
  LET t == task[o]
      left == [pool EXCEPT ![t.pool] = Left(@, t.old.name)]
      known == t.late \/ \E w \in pool[t.pool].workers : w.name = t.old.name
      emptied == known /\ t.pool # DefaultPool /\ left[t.pool].models = {} /\ key # DefaultKey
      closes == emptied /\ filed[key] # NoPool
      ends == known /\ ~emptied
  IN
  /\ t.stage = "unloading" /\ Answered(t)
  /\ pool' = IF closes THEN [left EXCEPT ![filed[key]] = Stopped(@)] ELSE IF known THEN left ELSE pool
  /\ task' = [task EXCEPT ![o] = [@ EXCEPT !.stage = IF closes THEN "closing" ELSE IF ends THEN "done" ELSE "failed",
                                           !.closing = IF closes THEN {key} ELSE {}]]
  /\ Settle(o, ends, t.hash)
  /\ UNCHANGED <<plan, filed, dir>>

(* Mutant: only a pool with an environment is closed when it is empty. *)
FinishUnloadKeepsGroups(o) ==
  LET h == EnvHash(task[o].pool) IN AfterUnload(o, IF h # NoHash THEN h ELSE DefaultKey)

(* The key is the pool's hash or, without one, the model's gid. *)
FinishUnload(o) ==
  LET h == EnvHash(task[o].pool) IN AfterUnload(o, IF h # NoHash THEN h ELSE <<NoEnv, task[o].old.gid>>)

-----------------------------------------------------------------------------
(* Closing.                                                                 *)

(* InferencePoolRegistry.close closes every pool there is. *)
BeginClose(o) ==
  LET keys == {k \in Keys : filed[k] # NoPool} \cup {DefaultKey} IN
  /\ o.kind = "close" /\ MayBegin(o)
  /\ task' = [task EXCEPT ![o] = [Idle EXCEPT !.stage = "closing", !.closing = keys]]
  /\ pool' = [p \in Pools |-> IF \E k \in keys : At(k) = p THEN Stopped(pool[p]) ELSE pool[p]]
  /\ UNCHANGED <<plan, filed, dir, live, hash>>

(* Mutant: the Environment stays with the pool. *)
FinishCloseKeepsEnv(o, k) ==
  /\ k \in task[o].closing
  /\ filed' = [filed EXCEPT ![k] = NoPool]
  /\ task' = [task EXCEPT ![o].closing = @ \ {k},
                          ![o].stage = IF task[o].closing = {k} THEN "done" ELSE @]
  /\ Settle(o, task[o].closing = {k}, task[o].hash)
  /\ UNCHANGED <<plan, pool, dir>>

(* _close_pool after pool.close(): what is filed under the key now loses    *)
(* its Environment, whose __del__ deletes what was extracted, and is taken  *)
(* out; nothing there is a KeyError.                                        *)
FinishClose(o, k) ==
  LET p == filed[k]
      gone == k # DefaultKey /\ p = NoPool
      rest == task[o].closing \ {k}
  IN
  /\ k \in task[o].closing
  /\ task' = [task EXCEPT ![o].closing = rest,
                          ![o].stage = IF gone \/ @ = "failed" THEN "failed" ELSE IF rest = {} THEN "done" ELSE @]
  /\ filed' = [filed EXCEPT ![k] = NoPool]
  /\ pool' = IF p = NoPool THEN pool ELSE [pool EXCEPT ![p].env = FALSE]
  /\ dir' = IF gone THEN dir ELSE [dir EXCEPT ![k] = "absent"]
  /\ Settle(o, ~gone /\ rest = {}, task[o].hash)
  /\ UNCHANGED plan

-----------------------------------------------------------------------------
Next ==
  \/ \E o \in Ops : BeginLoad(o)
  \/ \E o \in Ops : FinishHash(o)
  \/ \E o \in Ops : FinishExtract(o)
  \/ \E o \in Ops : FailExtract(o)
  \/ \E o \in Ops : FinishLoad(o)
  \/ \E o \in Ops : FailLoad(o)
  \/ \E o \in Ops : BeginUnload(o)
  \/ \E o \in Ops : FinishUnload(o)
  \/ \E o \in Ops : BeginClose(o)
  \/ \E o \in Ops : \E k \in task[o].closing : FinishClose(o, k)

Spec == Init /\ [][Next]_vars

-----------------------------------------------------------------------------
(* Properties.                                                              *)

Quiet == \A o \in Ops : ~Running(o)
Failed == \E o \in Ops : task[o].stage = "failed"
Closed == \E o \in Ops : o.kind = "close" /\ task[o].stage # "idle"

(* A model that is loaded stays with the workers of the pool an unload of   *)
(* it would go to, with the settings it was last given, while other models  *)
(* come and go (tests/parallel/test_registry.py:434).                 *)
FoundWhereLoaded ==
  \A n \in Names :
    LET s == live[n] IN
    s # NoSettings /\ ~Closed /\ (\A o \in Ops : Running(o) => o.model.name # n)
                   /\ (\A o \in Ops : task[o].stage = "failed" => o.model.name # n) =>
      LET p == Found(s, hash[n]) IN
      p # NoPool /\ pool[p].state = "open" /\ s \in pool[p].workers /\ pool[p].key = KeyOf(s)

(* A model whose last reload kept its environment but not its gid. *)
Regrouped(o) == o.kind = "reload" /\ task[o].stage = "done" /\ task[o].old.gid # o.model.gid
                /\ task[o].old.env = NoEnv /\ o.model.env = NoEnv

(* A pool is removed when its last model is, with or without an environment *)
(* (tests/parallel/test_registry.py:407), as long as no load fails and no   *)
(* model moves between groups without an environment.                       *)
NoEmptyPools ==
  Quiet /\ ~Failed /\ (\A o \in Ops : ~Regrouped(o)) =>
    \A k \in Keys : filed[k] # NoPool => \E n \in Names : live[n] # NoSettings /\ KeyOf(live[n]) = k

(* "If env has already been extracted, use that"                            *)
(* (mlserver/parallel/registry.py:164): a pool's workers start in an        *)
(* environment that has been extracted to the end.                          *)
EnvExtracted == \A p \in Pools : pool[p].whole

(* The directory of an environment is there, whole, as long as a pool uses  *)
(* it, and is deleted with it (tests/parallel/test_registry.py:200).        *)
DirFollowsPool ==
  \A k \in Keys :
    /\ filed[k] # NoPool /\ pool[filed[k]].state = "open" /\ k[1] \in Tarballs => dir[k] = "whole"
    /\ Quiet /\ ~Failed /\ dir[k] # "absent" => filed[k] # NoPool
=============================================================================
