-------------------------- MODULE PoolRegistryProofs --------------------------
(* Proofs about PoolRegistry, for any environments, groups and plans, and    *)
(* any number of pools.                                                     *)
EXTENDS PoolRegistry, TLAPS, WellFoundedInduction

TaskTypes == [stage : Stages, pool : Pools \cup {NoPool}, late : BOOLEAN,
              old : Settings \cup {NoSettings}, oldHash : Keys \cup {NoHash},
              hash : Keys \cup {NoHash}, closing : SUBSET Keys]
PoolTypes == [state : {"unmade", "open", "closed"}, key : Keys, env : BOOLEAN,
              whole : BOOLEAN, models : SUBSET Names, workers : SUBSET Settings]

(* What is filed was made, under its own key, and the default pool is never  *)
(* filed: of _pools f and the pools ps.                                     *)
Filing(f, ps) ==
  /\ f \in [Keys -> Pools \cup {NoPool}] /\ ps \in [Pools -> PoolTypes]
  /\ \A k \in Keys : f[k] # NoPool => ps[f[k]].key = k /\ ps[f[k]].state # "unmade"
  /\ ps[DefaultPool].state # "unmade" /\ ps[DefaultPool].key = DefaultKey /\ f[DefaultKey] = NoPool
MadeOf(ps) == {p \in Pools : ps[p].state # "unmade"}

(* What an operation needs of its own state: the pool it waits for was made, *)
(* and what it replaces or unloads is a model.                              *)
Loading(t) == t.stage \in {"hashing", "extracting", "loading"}
TaskShape(o, t, made, ops) ==
  /\ IF t.stage = "idle" THEN t.closing = {} ELSE o \in ops
  /\ t.stage \in {"loading", "unloading"} => t.pool \in made
  /\ t.stage = "unloading" \/ (o.kind = "reload" /\ Loading(t)) => t.old \in Settings
  /\ Loading(t) => o.kind \in {"load", "reload"} /\ t.closing = {}
  /\ t.stage = "extracting" => o.model.env \in Tarballs
  /\ o.kind # "close" /\ t.closing # {} => t.stage = "closing" /\ \E k \in Keys : t.closing = {k}

PoolInv ==
  /\ plan \in Plans
  /\ Filing(filed, pool)
  /\ dir \in [Keys -> {"absent", "partial", "whole"}]
  /\ live \in [Names -> Settings \cup {NoSettings}]
  /\ hash \in [Names -> Keys \cup {NoHash}]
  /\ task \in [Ops -> TaskTypes]
  /\ \A o \in Ops : TaskShape(o, task[o], MadeOf(pool), plan.ops)

(* Names that stand for something absent are told apart from the rest.      *)
LEMMA Absent ==
  /\ NoPool \notin Pools /\ DefaultPool \in Pools
  /\ NoSettings \notin Settings
  /\ DefaultKey \in Keys
  /\ \A s \in Settings : KeyOf(s) \in Keys /\ s.name \in Names /\ <<NoEnv, s.gid>> \in Keys
<1>1. NoPool \notin Pools /\ DefaultPool \in Pools
  BY BoundAssumption DEF NoPool, Pools, DefaultPool
<1>2. NoSettings \notin Settings
  <2>1. \A s \in Settings : s.name \in Names
    BY DEF Settings
  <2>2. NoSettings.name = "none"
    BY DEF NoSettings
  <2> QED  BY <2>1, <2>2, AbsentAssumption
<1>3. DefaultKey \in Keys
  BY DEF DefaultKey, Keys, Envs
<1>4. \A s \in Settings : KeyOf(s) \in Keys /\ s.name \in Names /\ <<NoEnv, s.gid>> \in Keys
  BY DEF Settings, KeyOf, Keys, Envs
<1> QED  BY <1>1, <1>2, <1>3, <1>4

(* InferencePool(): one more pool.                                          *)
LEMMA NewPoolIs ==
  ASSUME CanMake
  PROVE  NewPool \in Pools /\ pool[NewPool].state = "unmade"
<1> DEFINE F == {p \in Pools : pool[p].state = "unmade"}
<1>1. F # {} /\ F \in SUBSET Nat
  BY BoundAssumption DEF CanMake, Pools
<1>2. \E p \in F : \A q \in F : p =< q
  <2> HIDE DEF F
  <2>1. PICK p \in F : \A q \in F : <<q, p>> \notin OpToRel(<, Nat)
    BY <1>1, NatLessThanWellFounded, WFMin
  <2>2. \A q \in F : p \in Nat /\ q \in Nat /\ ~(q < p)
    BY <1>1, <2>1 DEF OpToRel
  <2> QED  BY <2>2
<1>3. PICK p \in F : \A q \in F : p =< q
  BY <1>2
<1>4. p \in Pools /\ pool[p].state = "unmade" /\ p \in Nat
  BY <1>1
<1>5. ASSUME NEW q \in 0..(p - 1)
      PROVE  pool[q].state # "unmade"
  <2>1. q \in Pools /\ q \in Int /\ q < p
    BY <1>4, BoundAssumption DEF Pools
  <2>2. q \in F => p =< q
    BY <1>3
  <2> QED  BY <1>4, <2>1, <2>2
<1> QED  BY <1>4, <1>5 DEF NewPool

(* The settings a plan's operations are about.                              *)
LEMMA OpsTyping ==
  ASSUME NEW o \in Ops
  PROVE  o.model \in Settings /\ o.kind \in {"load", "reload", "unload", "close"}
BY PlansAssumption DEF Ops

(* As the server starts, the default pool is there and nothing is filed.    *)
LEMMA PoolInit == Init => PoolInv
<1> SUFFICES ASSUME Init PROVE PoolInv
  OBVIOUS
<1>1. /\ filed = [k \in Keys |-> NoPool] /\ task = [o \in Ops |-> Idle] /\ plan \in Plans
      /\ pool = [p \in Pools |-> IF p = DefaultPool THEN [Unmade EXCEPT !.state = "open"] ELSE Unmade]
      /\ dir = [k \in Keys |-> "absent"] /\ live = [n \in Names |-> NoSettings]
      /\ hash = [n \in Names |-> NoHash]
  BY DEF Init
<1>2. Idle \in TaskTypes /\ Idle.stage = "idle" /\ Idle.closing = {}
  BY DEF Idle, TaskTypes, Stages
<1>3. Unmade \in PoolTypes /\ [Unmade EXCEPT !.state = "open"] \in PoolTypes
      /\ [Unmade EXCEPT !.state = "open"].state = "open" /\ [Unmade EXCEPT !.state = "open"].key = DefaultKey
  BY Absent DEF Unmade, PoolTypes
<1>4. Filing(filed, pool)
  BY <1>1, <1>3, Absent DEF Filing
<1>5. \A o \in Ops : TaskShape(o, task[o], MadeOf(pool), plan.ops)
  BY <1>1, <1>2 DEF TaskShape, Loading
<1>6. task \in [Ops -> TaskTypes]
  BY <1>1, <1>2
<1> QED  BY <1>1, <1>4, <1>5, <1>6 DEF PoolInv

-----------------------------------------------------------------------------
(* The types. *)

(* A pool that changes and keeps its key, ...                               *)
LEMMA FilingSet ==
  ASSUME NEW f, NEW ps, Filing(f, ps), NEW p \in Pools, NEW r \in PoolTypes,
         r.key = ps[p].key, ps[p].state # "unmade" => r.state # "unmade"
  PROVE  /\ Filing(f, [ps EXCEPT ![p] = r])
         /\ MadeOf(ps) \subseteq MadeOf([ps EXCEPT ![p] = r])
<1>1. PICK qs : qs = [ps EXCEPT ![p] = r]
  OBVIOUS
<1>2. qs \in [Pools -> PoolTypes] /\ \A q \in Pools : qs[q] = IF q = p THEN r ELSE ps[q]
  BY <1>1 DEF Filing
<1>3. \A q \in Pools : qs[q].key = ps[q].key /\ (ps[q].state # "unmade" => qs[q].state # "unmade")
  BY <1>2
<1>4. \A k \in Keys : f[k] # NoPool => f[k] \in Pools
  BY DEF Filing
<1>5. Filing(f, qs)
  BY <1>2, <1>3, <1>4, Absent DEF Filing
<1> QED  BY <1>1, <1>3, <1>5 DEF MadeOf

(* ... one that is made, ...                                                *)
LEMMA FilingNew ==
  ASSUME NEW f, NEW ps, Filing(f, ps), NEW p \in Pools, ps[p].state = "unmade",
         NEW k \in Keys, k # DefaultKey, NEW r \in PoolTypes, r.state = "open", r.key = k
  PROVE  /\ Filing([f EXCEPT ![k] = p], [ps EXCEPT ![p] = r])
         /\ MadeOf(ps) \subseteq MadeOf([ps EXCEPT ![p] = r]) /\ p \in MadeOf([ps EXCEPT ![p] = r])
<1>1. PICK qs : qs = [ps EXCEPT ![p] = r]
  OBVIOUS
<1>2. PICK g : g = [f EXCEPT ![k] = p]
  OBVIOUS
<1>3. /\ qs \in [Pools -> PoolTypes] /\ qs[p] = r /\ \A q \in Pools : q # p => qs[q] = ps[q]
      /\ g \in [Keys -> Pools \cup {NoPool}] /\ g[k] = p /\ \A j \in Keys : j # k => g[j] = f[j]
  BY <1>1, <1>2 DEF Filing
<1>4. \A j \in Keys : f[j] # NoPool => f[j] \in Pools /\ f[j] # p
  BY DEF Filing
<1>5. DefaultPool # p
  BY DEF Filing
<1>6. Filing(g, qs)
  BY <1>3, <1>4, <1>5, Absent DEF Filing
<1> QED  BY <1>1, <1>2, <1>3, <1>6 DEF MadeOf

(* ... and one that is taken out.                                           *)
LEMMA FilingLess ==
  ASSUME NEW f, NEW ps, Filing(f, ps), NEW k \in Keys
  PROVE  Filing([f EXCEPT ![k] = NoPool], ps)
BY DEF Filing

(* A step of operation o, by what it does to the pools and to its own state. *)
Steps(o) ==
  /\ plan' = plan
  /\ Filing(filed', pool')
  /\ MadeOf(pool) \subseteq MadeOf(pool')
  /\ \E x \in TaskTypes : task' = [task EXCEPT ![o] = x] /\ TaskShape(o, x, MadeOf(pool'), plan.ops)

LEMMA StepsKeep ==
  ASSUME PoolInv, NEW o \in Ops, Steps(o),
         dir' \in [Keys -> {"absent", "partial", "whole"}],
         live' \in [Names -> Settings \cup {NoSettings}],
         hash' \in [Names -> Keys \cup {NoHash}]
  PROVE  PoolInv'
<1>1. PICK x \in TaskTypes : task' = [task EXCEPT ![o] = x] /\ TaskShape(o, x, MadeOf(pool'), plan.ops)
  BY DEF Steps
<1>2. task' \in [Ops -> TaskTypes] /\ \A q \in Ops : task'[q] = IF q = o THEN x ELSE task[q]
  BY <1>1 DEF PoolInv
<1>3. ASSUME NEW q \in Ops
      PROVE  TaskShape(q, task'[q], MadeOf(pool'), plan.ops)
  <2>1. CASE q = o
    BY <1>1, <1>2, <2>1
  <2>2. CASE q # o
    <3>1. task'[q] = task[q] /\ TaskShape(q, task[q], MadeOf(pool), plan.ops)
      BY <1>2, <2>2 DEF PoolInv
    <3>2. MadeOf(pool) \subseteq MadeOf(pool')
      BY DEF Steps
    <3> QED  BY <3>1, <3>2 DEF TaskShape
  <2> QED  BY <2>1, <2>2
<1>4. plan' = plan /\ Filing(filed', pool') /\ plan \in Plans
  BY DEF Steps, PoolInv
<1> QED  BY <1>2, <1>3, <1>4 DEF PoolInv, MadeOf

(* reload_model lists a name and changes nothing else of the pool.           *)
LEMMA ListingKeeps ==
  ASSUME NEW o \in Ops, NEW r \in PoolTypes
  PROVE  /\ Listing(o, r) \in PoolTypes
         /\ Listing(o, r).key = r.key /\ Listing(o, r).state = r.state /\ Listing(o, r).env = r.env
         /\ Listing(o, r).whole = r.whole /\ Listing(o, r).workers = r.workers
         /\ Listing(o, r).models = r.models \cup (IF o.kind = "reload" THEN {o.model.name} ELSE {})
BY OpsTyping, Absent DEF Listing, PoolTypes

(* A pool over an environment, with nothing in it yet.                      *)
LEMMA MadeTyping ==
  ASSUME NEW k \in Keys, NEW whole \in BOOLEAN
  PROVE  /\ Made(k, whole) \in PoolTypes
         /\ Made(k, whole).state = "open" /\ Made(k, whole).key = k /\ Made(k, whole).env = HasEnv(k)
         /\ Made(k, whole).whole = whole /\ Made(k, whole).models = {} /\ Made(k, whole).workers = {}
BY DEF Made, Unmade, PoolTypes, HasEnv, DefaultKey

(* A load that has its pool waits for its workers.                          *)
LEMMA EnterTyping ==
  ASSUME NEW o \in Ops, NEW t \in TaskTypes, NEW p \in Pools, NEW ps, NEW ops,
         o \in ops, o.kind \in {"load", "reload"}, o.kind = "reload" => t.old \in Settings, t.closing = {},
         p \in MadeOf(ps)
  PROVE  /\ Enter(o, p, t) \in TaskTypes
         /\ TaskShape(o, Enter(o, p, t), MadeOf(ps), ops)
         /\ Enter(o, p, t).stage = "loading" /\ Enter(o, p, t).pool = p
         /\ Enter(o, p, t).old = t.old /\ Enter(o, p, t).oldHash = t.oldHash
         /\ Enter(o, p, t).closing = t.closing /\ Enter(o, p, t).hash = t.hash
         /\ Enter(o, p, t).late = (pool[p].state = "closed")
<1>1. PICK x : x = Enter(o, p, t)
  OBVIOUS
<1>2. /\ x \in TaskTypes /\ x.stage = "loading" /\ x.pool = p /\ x.old = t.old /\ x.oldHash = t.oldHash
      /\ x.closing = t.closing /\ x.hash = t.hash /\ x.late = (pool[p].state = "closed")
  BY <1>1 DEF Enter, TaskTypes, Stages
<1>3. TaskShape(o, x, MadeOf(ps), ops)
  BY <1>2 DEF TaskShape
<1> QED  BY <1>1, <1>2, <1>3

(* The loads there are: from their own state, what a load step needs.       *)
LoadsNow(o, t) ==
  /\ t \in TaskTypes /\ o \in plan.ops /\ o.kind \in {"load", "reload"}
  /\ (o.kind = "reload" => t.old \in Settings) /\ t.closing = {}

LEMMA UseSteps ==
  ASSUME PoolInv, NEW o \in Ops, NEW p \in MadeOf(pool), NEW t, LoadsNow(o, t), UsePool(o, p, t), plan' = plan
  PROVE  Steps(o)
<1>1. p \in Pools /\ pool[p] \in PoolTypes /\ Filing(filed, pool) /\ pool[p].state # "unmade"
  BY DEF MadeOf, PoolInv, Filing
<1>2. PICK r : r = Listing(o, pool[p])
  OBVIOUS
<1>3. r \in PoolTypes /\ r.key = pool[p].key /\ r.state = pool[p].state
  BY <1>1, <1>2, ListingKeeps
<1>4. pool' = [pool EXCEPT ![p] = r] /\ filed' = filed /\ task' = [task EXCEPT ![o] = Enter(o, p, t)]
  BY <1>1, <1>2 DEF UsePool, PoolInv, Filing
<1>5. Filing(filed', pool') /\ MadeOf(pool) \subseteq MadeOf(pool')
  BY <1>1, <1>3, <1>4, FilingSet
<1>6. p \in MadeOf(pool')
  BY <1>5
<1>7. Enter(o, p, t) \in TaskTypes /\ TaskShape(o, Enter(o, p, t), MadeOf(pool'), plan.ops)
  BY <1>1, <1>6, EnterTyping DEF LoadsNow
<1> QED  BY <1>4, <1>5, <1>7 DEF Steps

LEMMA MakeSteps ==
  ASSUME PoolInv, NEW o \in Ops, NEW k \in Keys, k # DefaultKey, NEW whole \in BOOLEAN,
         NEW t, LoadsNow(o, t), MakePool(o, k, whole, t), plan' = plan
  PROVE  Steps(o)
<1>1. PICK p : p = NewPool
  OBVIOUS
<1>2. CanMake /\ p \in Pools /\ pool[p].state = "unmade" /\ Filing(filed, pool)
  BY <1>1, NewPoolIs DEF MakePool, PoolInv
<1>3. PICK r : r = Listing(o, Made(k, whole))
  OBVIOUS
<1>4. r \in PoolTypes /\ r.key = k /\ r.state = "open"
  BY <1>3, MadeTyping, ListingKeeps
<1>5. /\ pool' = [pool EXCEPT ![p] = r] /\ filed' = [filed EXCEPT ![k] = p]
      /\ task' = [task EXCEPT ![o] = Enter(o, p, t)]
  BY <1>1, <1>3 DEF MakePool
<1>6. Filing(filed', pool') /\ MadeOf(pool) \subseteq MadeOf(pool') /\ p \in MadeOf(pool')
  BY <1>2, <1>4, <1>5, FilingNew
<1>7. Enter(o, p, t) \in TaskTypes /\ TaskShape(o, Enter(o, p, t), MadeOf(pool'), plan.ops)
  BY <1>2, <1>6, EnterTyping DEF LoadsNow
<1> QED  BY <1>5, <1>6, <1>7 DEF Steps

(* _find, __env_hash__ and what is settled in the end.                      *)
LEMMA FoundTyping ==
  ASSUME PoolInv
  PROVE  /\ \A k \in Keys : At(k) \in MadeOf(pool) \cup {NoPool}
         /\ \A s \in Settings, h \in Keys \cup {NoHash} : Found(s, h) \in MadeOf(pool) \cup {NoPool}
         /\ \A p \in Pools : EnvHash(p) \in Keys \cup {NoHash}
<1>1. ASSUME NEW k \in Keys
      PROVE  At(k) \in MadeOf(pool) \cup {NoPool}
  BY Absent DEF PoolInv, Filing, MadeOf, At
<1>2. \A s \in Settings, h \in Keys \cup {NoHash} : (IF h # NoHash THEN h ELSE <<NoEnv, s.gid>>) \in Keys
  BY Absent
<1>3. \A s \in Settings, h \in Keys \cup {NoHash} : Found(s, h) \in MadeOf(pool) \cup {NoPool}
  BY <1>1, <1>2 DEF Found
<1>4. \A p \in Pools : pool[p].key \in Keys
  BY DEF PoolInv, Filing, PoolTypes
<1>5. \A p \in Pools : EnvHash(p) \in Keys \cup {NoHash}
  BY <1>4 DEF EnvHash
<1> QED  BY <1>1, <1>3, <1>5

LEMMA SettleTyping ==
  ASSUME PoolInv, NEW o \in Ops, NEW well, NEW h \in Keys \cup {NoHash}, Settle(o, well, h)
  PROVE  /\ live' \in [Names -> Settings \cup {NoSettings}]
         /\ hash' \in [Names -> Keys \cup {NoHash}]
BY OpsTyping DEF Settle, PoolInv

(* The operation that a step belongs to, and its settings.                  *)
LEMMA TaskOf ==
  ASSUME PoolInv, NEW o \in Ops
  PROVE  /\ task[o] \in TaskTypes /\ TaskShape(o, task[o], MadeOf(pool), plan.ops)
         /\ o.model \in Settings /\ KeyOf(o.model) \in Keys /\ o.model.name \in Names
         /\ o.kind \in {"load", "reload", "unload", "close"}
BY OpsTyping, Absent DEF PoolInv

LEMMA BeginLoadTypes ==
  ASSUME PoolInv, NEW o \in Ops, BeginLoad(o)
  PROVE  PoolInv'
<1>1. /\ o.model \in Settings /\ KeyOf(o.model) \in Keys /\ o.model.name \in Names
  BY TaskOf
<1>2. PICK t : t = [Idle EXCEPT !.old = live[o.model.name], !.oldHash = hash[o.model.name]]
  OBVIOUS
<1>3. /\ MayBegin(o)
      /\ \/ o.kind = "load" /\ live[o.model.name] = NoSettings
         \/ o.kind = "reload" /\ live[o.model.name] # NoSettings
      /\ UNCHANGED <<plan, dir, live, hash>>
  BY DEF BeginLoad
<1>4. live[o.model.name] \in Settings \cup {NoSettings} /\ hash[o.model.name] \in Keys \cup {NoHash}
  BY <1>1 DEF PoolInv
<1>5. t \in TaskTypes /\ t.old = live[o.model.name] /\ LoadsNow(o, t)
  <2>1. t \in TaskTypes /\ t.old = live[o.model.name] /\ t.closing = {}
    BY <1>2, <1>4 DEF Idle, TaskTypes, Stages
  <2> QED  BY <1>3, <1>4, <2>1 DEF LoadsNow, MayBegin
<1>6. Steps(o)
  <2>1. CASE HasEnv(KeyOf(o.model))
    <3>1. task' = [task EXCEPT ![o] = [t EXCEPT !.stage = "hashing"]] /\ UNCHANGED <<filed, pool>>
      BY <1>2, <2>1 DEF BeginLoad
    <3>2. PICK x : x = [t EXCEPT !.stage = "hashing"]
      OBVIOUS
    <3>3. x \in TaskTypes /\ x.stage = "hashing" /\ x.old = t.old /\ x.closing = t.closing
      BY <1>5, <3>2 DEF TaskTypes, Stages
    <3>4. TaskShape(o, x, MadeOf(pool'), plan.ops)
      BY <1>3, <1>5, <3>3 DEF TaskShape, LoadsNow
    <3>5. Filing(filed', pool') /\ MadeOf(pool) \subseteq MadeOf(pool')
      BY <3>1 DEF PoolInv
    <3> QED  BY <1>3, <3>1, <3>2, <3>3, <3>4, <3>5 DEF Steps
  <2>2. CASE ~HasEnv(KeyOf(o.model)) /\ At(KeyOf(o.model)) # NoPool
    <3>1. UsePool(o, At(KeyOf(o.model)), t)
      BY <1>2, <2>2 DEF BeginLoad
    <3>2. At(KeyOf(o.model)) \in MadeOf(pool)
      BY <1>1, <2>2, FoundTyping
    <3> QED  BY <1>3, <1>5, <3>1, <3>2, UseSteps
  <2>3. CASE ~HasEnv(KeyOf(o.model)) /\ At(KeyOf(o.model)) = NoPool
    <3>1. MakePool(o, KeyOf(o.model), TRUE, t)
      BY <1>2, <2>3 DEF BeginLoad
    <3>2. KeyOf(o.model) # DefaultKey
      BY <2>3, Absent DEF At
    <3> QED  BY <1>1, <1>3, <1>5, <3>1, <3>2, MakeSteps
  <2> QED  BY <2>1, <2>2, <2>3
<1>7. /\ dir' \in [Keys -> {"absent", "partial", "whole"}] /\ live' \in [Names -> Settings \cup {NoSettings}]
      /\ hash' \in [Names -> Keys \cup {NoHash}]
  BY <1>3 DEF PoolInv
<1> QED  BY <1>6, <1>7, StepsKeep

LEMMA FinishHashTypes ==
  ASSUME PoolInv, NEW o \in Ops, FinishHash(o)
  PROVE  PoolInv'
<1> DEFINE k == KeyOf(o.model)
<1>1. /\ task[o] \in TaskTypes /\ TaskShape(o, task[o], MadeOf(pool), plan.ops)
      /\ o.model \in Settings /\ k \in Keys
  BY TaskOf
<1>2. task[o].stage = "hashing" /\ UNCHANGED <<plan, live, hash>>
  BY DEF FinishHash
<1>3. LoadsNow(o, task[o])
  BY <1>1, <1>2 DEF LoadsNow, TaskShape, Loading
<1>4. o.model.env \in Tarballs \cup Paths => k # DefaultKey
  BY AbsentAssumption DEF KeyOf, DefaultKey
<1>5. /\ live' \in [Names -> Settings \cup {NoSettings}] /\ hash' \in [Names -> Keys \cup {NoHash}]
      /\ dir \in [Keys -> {"absent", "partial", "whole"}]
  BY <1>2 DEF PoolInv
<1> HIDE DEF k
<1>6. CASE filed[k] # NoPool /\ UsePool(o, filed[k], task[o]) /\ UNCHANGED dir
  <2>1. filed[k] \in MadeOf(pool)
    BY <1>1, <1>6 DEF PoolInv, Filing, MadeOf
  <2>2. Steps(o)
    BY <1>2, <1>3, <1>6, <2>1, UseSteps
  <2> QED  BY <1>5, <1>6, <2>2, StepsKeep
<1>7. ASSUME NEW whole \in BOOLEAN, MakePool(o, k, whole, task[o]), UNCHANGED dir, o.model.env \in Tarballs \cup Paths
      PROVE  PoolInv'
  <2>1. Steps(o)
    BY <1>1, <1>2, <1>3, <1>4, <1>7, MakeSteps
  <2> QED  BY <1>5, <1>7, <2>1, StepsKeep
<1>8. CASE /\ dir' = [dir EXCEPT ![k] = "partial"] /\ o.model.env \in Tarballs
           /\ task' = [task EXCEPT ![o].stage = "extracting"]
           /\ UNCHANGED <<filed, pool>>
  <2>1. PICK x : x = [task[o] EXCEPT !.stage = "extracting"]
    OBVIOUS
  <2>2. x \in TaskTypes /\ x.stage = "extracting" /\ x.old = task[o].old /\ x.closing = task[o].closing
    BY <1>1, <2>1 DEF TaskTypes, Stages
  <2>3. task' = [task EXCEPT ![o] = x]
    BY <1>8, <2>1 DEF PoolInv
  <2>4. TaskShape(o, x, MadeOf(pool'), plan.ops)
    BY <1>1, <1>2, <1>8, <2>2 DEF TaskShape, Loading
  <2>5. Filing(filed', pool') /\ MadeOf(pool) \subseteq MadeOf(pool')
    BY <1>8 DEF PoolInv
  <2>6. Steps(o)
    BY <1>2, <2>2, <2>3, <2>4, <2>5 DEF Steps
  <2>7. dir' \in [Keys -> {"absent", "partial", "whole"}]
    BY <1>5, <1>8
  <2> QED  BY <1>5, <2>6, <2>7, StepsKeep
<1>9. (dir[k] = "whole") \in BOOLEAN
  OBVIOUS
<1> QED  BY <1>6, <1>7, <1>8, <1>9 DEF FinishHash, k

LEMMA FinishExtractTypes ==
  ASSUME PoolInv, NEW o \in Ops, FinishExtract(o)
  PROVE  PoolInv'
<1> DEFINE k == KeyOf(o.model)
           whole == dir[k] = "partial"
<1>1. /\ task[o] \in TaskTypes /\ TaskShape(o, task[o], MadeOf(pool), plan.ops)
      /\ o.model \in Settings /\ k \in Keys
  BY TaskOf
<1>2. /\ task[o].stage = "extracting" /\ UNCHANGED <<plan, live, hash>>
      /\ dir' = [dir EXCEPT ![k] = IF whole THEN "whole" ELSE "partial"]
      /\ MakePool(o, k, whole, task[o])
  BY DEF FinishExtract
<1>3. LoadsNow(o, task[o])
  BY <1>1, <1>2 DEF LoadsNow, TaskShape, Loading
<1>4. /\ live' \in [Names -> Settings \cup {NoSettings}] /\ hash' \in [Names -> Keys \cup {NoHash}]
      /\ dir' \in [Keys -> {"absent", "partial", "whole"}]
  BY <1>2 DEF PoolInv
<1>5. whole \in BOOLEAN
  OBVIOUS
<1>6. k # DefaultKey
  BY <1>1, <1>2, AbsentAssumption DEF TaskShape, KeyOf, DefaultKey
<1> HIDE DEF k, whole
<1>7. Steps(o)
  BY <1>1, <1>2, <1>3, <1>5, <1>6, MakeSteps
<1> QED  BY <1>4, <1>7, StepsKeep

LEMMA FailTypes ==
  ASSUME PoolInv, NEW o \in Ops, FailExtract(o) \/ FailLoad(o)
  PROVE  PoolInv'
<1>1. /\ task[o] \in TaskTypes /\ TaskShape(o, task[o], MadeOf(pool), plan.ops)
  BY TaskOf
<1>2. /\ task[o].stage # "idle" /\ UNCHANGED <<plan, filed, pool, dir, live, hash>>
      /\ task' = [task EXCEPT ![o].stage = "failed"]
  BY DEF FailExtract, FailLoad
<1>3. PICK x : x = [task[o] EXCEPT !.stage = "failed"]
  OBVIOUS
<1>4. /\ x \in TaskTypes /\ x.stage = "failed" /\ x.closing = task[o].closing
      /\ task' = [task EXCEPT ![o] = x] /\ Loading(task[o])
  BY <1>1, <1>2, <1>3 DEF TaskTypes, Stages, PoolInv, Loading, FailExtract, FailLoad
<1>5. TaskShape(o, x, MadeOf(pool'), plan.ops)
  BY <1>1, <1>2, <1>4 DEF TaskShape, Loading
<1>6. Filing(filed', pool') /\ MadeOf(pool) \subseteq MadeOf(pool')
  BY <1>2 DEF PoolInv
<1>7. Steps(o)
  BY <1>2, <1>4, <1>5, <1>6 DEF Steps
<1>8. /\ dir' \in [Keys -> {"absent", "partial", "whole"}] /\ live' \in [Names -> Settings \cup {NoSettings}]
      /\ hash' \in [Names -> Keys \cup {NoHash}]
  BY <1>2 DEF PoolInv
<1> QED  BY <1>7, <1>8, StepsKeep

(* What a load leaves of its pool, with the model and with its workers.     *)
LEMMA LoadedPool ==
  ASSUME NEW r \in PoolTypes, NEW s \in Settings, NEW late \in BOOLEAN
  PROVE  /\ Loaded(r, s, late) \in PoolTypes
         /\ Loaded(r, s, late).state = r.state /\ Loaded(r, s, late).key = r.key
         /\ Loaded(r, s, late).env = r.env /\ Loaded(r, s, late).whole = r.whole
         /\ Loaded(r, s, late).models = r.models \cup {s.name}
         /\ Loaded(r, s, late).workers = IF late THEN r.workers ELSE Replaced(r.workers, s)
<1> DEFINE ws == IF late THEN r.workers ELSE Replaced(r.workers, s)
           ms == r.models \cup {s.name}
<1>1. Replaced(r.workers, s) \subseteq Settings /\ s.name \in Names
  BY Absent DEF Replaced, PoolTypes
<1>2. ws \in SUBSET Settings /\ ms \in SUBSET Names
  BY <1>1 DEF PoolTypes
<1>3. Loaded(r, s, late) = [r EXCEPT !.models = ms, !.workers = ws]
  BY DEF PoolTypes, Loaded
<1> HIDE DEF ws, ms
<1>4. /\ Loaded(r, s, late) \in PoolTypes
      /\ Loaded(r, s, late).state = r.state /\ Loaded(r, s, late).key = r.key
      /\ Loaded(r, s, late).env = r.env /\ Loaded(r, s, late).whole = r.whole
      /\ Loaded(r, s, late).models = ms /\ Loaded(r, s, late).workers = ws
  BY <1>2, <1>3 DEF PoolTypes
<1> QED  BY <1>4 DEF ws, ms

(* The parts of FinishLoad: pool p becomes r, and the operation's state x.   *)
LoadEnds(o, p, r, x, h) ==
  /\ p = task[o].pool /\ p \in Pools /\ p \in MadeOf(pool) /\ h = EnvHash(p)
  /\ task[o].stage = "loading" /\ Answered(task[o])
  /\ pool' = [pool EXCEPT ![p] = r] /\ r \in PoolTypes
  /\ r.state = pool[p].state /\ r.key = pool[p].key /\ r.env = pool[p].env /\ r.whole = pool[p].whole
  /\ r.models = pool[p].models \cup {o.model.name}
  /\ r.workers = IF task[o].late THEN pool[p].workers ELSE Replaced(pool[p].workers, o.model)
  /\ task' = [task EXCEPT ![o] = x] /\ x \in TaskTypes
  /\ x.hash = h /\ x.old = task[o].old /\ x.late = task[o].late /\ x.closing = task[o].closing
  /\ \/ ~(o.kind = "reload" /\ task[o].oldHash # h) /\ x.stage = "done" /\ Settle(o, TRUE, h)
     \/ /\ o.kind = "reload" /\ task[o].oldHash # h /\ Settle(o, FALSE, h)
        /\ x.pool = Found(task[o].old, task[o].oldHash)
        /\ x.stage = IF x.pool = NoPool THEN "failed" ELSE "unloading"
  /\ UNCHANGED <<plan, filed, dir>>

LEMMA FinishLoadParts ==
  ASSUME PoolInv, NEW o \in Ops, FinishLoad(o)
  PROVE  \E p, r, x, h : LoadEnds(o, p, r, x, h)
<1> DEFINE t == task[o]
           p == task[o].pool
           h == EnvHash(p)
           moves == o.kind = "reload" /\ task[o].oldHash # h
           from == Found(t.old, t.oldHash)
           r == Loaded(pool[p], o.model, t.late)
           x == IF moves THEN [t EXCEPT !.stage = IF from = NoPool THEN "failed" ELSE "unloading",
                                        !.hash = h, !.pool = from]
                         ELSE [t EXCEPT !.stage = "done", !.hash = h]
<1>1. t \in TaskTypes /\ TaskShape(o, t, MadeOf(pool), plan.ops) /\ o.model \in Settings
  BY TaskOf
<1>2. t.stage = "loading" /\ Answered(t) /\ UNCHANGED <<plan, filed, dir>> /\ Settle(o, ~moves, h)
  BY DEF FinishLoad, AfterLoad
<1>3. p \in Pools /\ p \in MadeOf(pool) /\ pool[p] \in PoolTypes
  BY <1>1, <1>2 DEF TaskShape, MadeOf, PoolInv, Filing
<1>4. pool' = [pool EXCEPT ![p] = r]
  BY <1>3 DEF FinishLoad, AfterLoad, PoolInv, Filing
<1>5. task' = [task EXCEPT ![o] = x]
  BY DEF FinishLoad, AfterLoad, PoolInv
<1>6. t.late \in BOOLEAN /\ t.oldHash \in Keys \cup {NoHash} /\ h \in Keys \cup {NoHash}
  BY <1>1, <1>3, FoundTyping DEF TaskTypes
<1>7. /\ r \in PoolTypes /\ r.state = pool[p].state /\ r.key = pool[p].key /\ r.env = pool[p].env
      /\ r.whole = pool[p].whole /\ r.models = pool[p].models \cup {o.model.name}
      /\ r.workers = IF t.late THEN pool[p].workers ELSE Replaced(pool[p].workers, o.model)
  BY <1>1, <1>3, <1>6, LoadedPool
<1>8. moves => from \in MadeOf(pool) \cup {NoPool} /\ from \in Pools \cup {NoPool}
  <2>1. moves => t.old \in Settings
    BY <1>1, <1>2 DEF TaskShape, Loading
  <2> QED  BY <1>6, <2>1, FoundTyping DEF MadeOf
<1>9. /\ x \in TaskTypes /\ x.hash = h /\ x.old = t.old /\ x.late = t.late /\ x.closing = t.closing
      /\ ~moves => x.stage = "done"
      /\ moves => x.pool = from /\ x.stage = IF x.pool = NoPool THEN "failed" ELSE "unloading"
  <2>1. CASE moves
    <3> HIDE DEF from, h, moves
    <3> QED  BY <1>1, <1>6, <1>8, <2>1 DEF TaskTypes, Stages
  <2>2. CASE ~moves
    <3> HIDE DEF from, h, moves
    <3> QED  BY <1>1, <1>6, <2>2 DEF TaskTypes, Stages
  <2> QED  BY <2>1, <2>2
<1>10. \/ ~moves /\ x.stage = "done" /\ Settle(o, TRUE, h)
       \/ moves /\ Settle(o, FALSE, h) /\ x.pool = from /\ x.stage = IF x.pool = NoPool THEN "failed" ELSE "unloading"
  <2>1. moves = TRUE \/ moves = FALSE
    OBVIOUS
  <2> HIDE DEF moves, x, h, from
  <2>2. CASE moves
    <3>1. (~moves) = FALSE
      BY <2>2
    <3> QED  BY <1>2, <1>9, <2>2, <3>1
  <2>3. CASE ~moves
    <3>1. (~moves) = TRUE
      BY <2>3
    <3> QED  BY <1>2, <1>9, <2>3, <3>1
  <2> QED  BY <2>2, <2>3
<1> HIDE DEF r, x
<1>11. LoadEnds(o, p, r, x, h)
  BY <1>2, <1>3, <1>4, <1>5, <1>7, <1>9, <1>10 DEF LoadEnds
<1> QED  BY <1>11

LEMMA FinishLoadTypes ==
  ASSUME PoolInv, NEW o \in Ops, FinishLoad(o)
  PROVE  PoolInv'
<1>0. PICK p, r, x, h : LoadEnds(o, p, r, x, h)
  BY FinishLoadParts
<1>1. /\ p = task[o].pool /\ p \in Pools /\ p \in MadeOf(pool) /\ h = EnvHash(p)
      /\ task[o].stage = "loading"
      /\ pool' = [pool EXCEPT ![p] = r] /\ r \in PoolTypes
      /\ r.state = pool[p].state /\ r.key = pool[p].key
      /\ task' = [task EXCEPT ![o] = x] /\ x \in TaskTypes
      /\ x.old = task[o].old /\ x.closing = task[o].closing
      /\ \/ x.stage = "done" /\ Settle(o, TRUE, h)
         \/ /\ o.kind = "reload" /\ Settle(o, FALSE, h)
            /\ x.pool = Found(task[o].old, task[o].oldHash)
            /\ x.stage = IF x.pool = NoPool THEN "failed" ELSE "unloading"
      /\ UNCHANGED <<plan, filed, dir>>
  BY <1>0 DEF LoadEnds
<1>2. /\ task[o] \in TaskTypes /\ TaskShape(o, task[o], MadeOf(pool), plan.ops)
  BY TaskOf
<1>3. Filing(filed', pool') /\ MadeOf(pool) \subseteq MadeOf(pool')
  BY <1>1, FilingSet DEF PoolInv
<1>4. h \in Keys \cup {NoHash}
  BY <1>1, FoundTyping
<1>5. o \in plan.ops /\ x.closing = {}
  BY <1>1, <1>2 DEF TaskShape, Loading
<1>6. TaskShape(o, x, MadeOf(pool'), plan.ops)
  <2>1. CASE x.stage = "unloading"
    <3>1. /\ o.kind = "reload" /\ x.pool = Found(task[o].old, task[o].oldHash) /\ x.pool # NoPool
      BY <1>1, <2>1
    <3>2. task[o].old \in Settings /\ task[o].oldHash \in Keys \cup {NoHash}
      BY <1>1, <1>2, <3>1 DEF TaskShape, Loading, TaskTypes
    <3>3. x.pool \in MadeOf(pool)
      BY <3>1, <3>2, FoundTyping
    <3> QED  BY <1>1, <1>3, <1>5, <2>1, <3>2, <3>3 DEF TaskShape, Loading
  <2>2. CASE x.stage \in {"done", "failed"}
    BY <1>5, <2>2 DEF TaskShape, Loading
  <2>3. x.stage \in {"done", "failed", "unloading"}
    BY <1>1
  <2> QED  BY <2>1, <2>2, <2>3
<1>7. Steps(o)
  BY <1>1, <1>3, <1>6 DEF Steps
<1>8. /\ live' \in [Names -> Settings \cup {NoSettings}] /\ hash' \in [Names -> Keys \cup {NoHash}]
  BY <1>1, <1>4, SettleTyping
<1>9. dir' \in [Keys -> {"absent", "partial", "whole"}]
  BY <1>1 DEF PoolInv
<1> QED  BY <1>7, <1>8, <1>9, StepsKeep

LEMMA BeginUnloadTypes ==
  ASSUME PoolInv, NEW o \in Ops, BeginUnload(o)
  PROVE  PoolInv'
<1> DEFINE n == o.model.name
<1>1. n \in Names /\ live[n] \in Settings \cup {NoSettings} /\ hash[n] \in Keys \cup {NoHash}
  BY TaskOf DEF PoolInv
<1>2. /\ MayBegin(o) /\ o.kind = "unload" /\ live[n] # NoSettings /\ live' = [live EXCEPT ![n] = NoSettings]
      /\ UNCHANGED <<plan, filed, pool, dir, hash>>
  BY DEF BeginUnload
<1>3. PICK p : p = Found(live[n], hash[n])
  OBVIOUS
<1>4. p \in MadeOf(pool) \cup {NoPool} /\ p \in Pools \cup {NoPool}
  BY <1>1, <1>2, <1>3, FoundTyping DEF MadeOf
<1>5. PICK late \in BOOLEAN : late = (p # NoPool /\ pool[p].state = "closed")
  OBVIOUS
<1>6. PICK x : x = [Idle EXCEPT !.stage = IF p = NoPool THEN "failed" ELSE "unloading",
                                !.pool = p, !.old = live[n], !.late = late]
  OBVIOUS
<1>7. task' = [task EXCEPT ![o] = x]
  BY <1>3, <1>5, <1>6 DEF BeginUnload
<1>8. /\ x \in TaskTypes /\ x.pool = p /\ x.old = live[n] /\ x.closing = {}
      /\ x.stage = IF p = NoPool THEN "failed" ELSE "unloading"
  <2>1. live[n] \in Settings
    BY <1>1, <1>2
  <2> HIDE DEF n
  <2> QED  BY <1>4, <1>6, <2>1 DEF TaskTypes, Idle, Stages
<1>9. TaskShape(o, x, MadeOf(pool'), plan.ops)
  BY <1>1, <1>2, <1>4, <1>8 DEF TaskShape, Loading, MayBegin, MadeOf
<1>10. Steps(o)
  BY <1>2, <1>7, <1>8, <1>9 DEF Steps, PoolInv, MadeOf
<1>11. /\ dir' \in [Keys -> {"absent", "partial", "whole"}] /\ live' \in [Names -> Settings \cup {NoSettings}]
       /\ hash' \in [Names -> Keys \cup {NoHash}]
  BY <1>1, <1>2 DEF PoolInv
<1> QED  BY <1>10, <1>11, StepsKeep

(* What the unload from pool p leaves as it is in every pool.                *)
UnloadKeeps(p) ==
  \A q \in Pools : /\ pool'[q].key = pool[q].key /\ pool'[q].env = pool[q].env
                   /\ pool'[q].whole = pool[q].whole /\ pool'[q].state \in {pool[q].state, "closed"}
                   /\ q # p => pool'[q].models = pool[q].models

(* The parts of FinishUnload: pool p becomes r and the operation's state x,   *)
(* and what is filed under the key, p or not, is stopped when the last model *)
(* leaves p.                                                                *)
UnloadEnds(o, p, r, x, key, known, emptied, closes) ==
  /\ p = task[o].pool /\ p \in Pools /\ p \in MadeOf(pool)
  /\ key = (IF EnvHash(p) # NoHash THEN EnvHash(p) ELSE <<NoEnv, task[o].old.gid>>) /\ key \in Keys
  /\ task[o].stage = "unloading" /\ Answered(task[o])
  /\ known \in BOOLEAN /\ emptied \in BOOLEAN /\ closes \in BOOLEAN
  /\ known = (task[o].late \/ \E w \in pool[p].workers : w.name = task[o].old.name)
  /\ emptied = (known /\ p # DefaultPool /\ pool[p].models \ {task[o].old.name} = {} /\ key # DefaultKey)
  /\ closes = (emptied /\ filed[key] # NoPool)
  /\ pool' \in [Pools -> PoolTypes] /\ pool'[p] = r
  /\ (~closes \/ filed[key] = p) => pool' = [pool EXCEPT ![p] = r]
  /\ UnloadKeeps(p)
  /\ r \in PoolTypes
  /\ r.state = (IF closes /\ filed[key] = p THEN "closed" ELSE pool[p].state)
  /\ r.key = pool[p].key /\ r.env = pool[p].env /\ r.whole = pool[p].whole
  /\ r.models = (IF known THEN pool[p].models \ {task[o].old.name} ELSE pool[p].models)
  /\ r.workers = (IF closes /\ filed[key] = p THEN {}
                  ELSE IF known THEN {w \in pool[p].workers : w.name # task[o].old.name} ELSE pool[p].workers)
  /\ task' = [task EXCEPT ![o] = x] /\ x \in TaskTypes
  /\ x.stage = (IF closes THEN "closing" ELSE IF known /\ ~emptied THEN "done" ELSE "failed")
  /\ x.closing = (IF closes THEN {key} ELSE {})
  /\ x.hash = task[o].hash /\ x.old = task[o].old /\ x.late = task[o].late /\ x.pool = p
  /\ Settle(o, known /\ ~emptied, task[o].hash)
  /\ UNCHANGED <<plan, filed, dir>>

(* The pool a model has left.                                               *)
LEMMA LeftPool ==
  ASSUME NEW q \in PoolTypes, NEW n
  PROVE  /\ Left(q, n) \in PoolTypes /\ Left(q, n).state = q.state /\ Left(q, n).key = q.key
         /\ Left(q, n).env = q.env /\ Left(q, n).whole = q.whole
         /\ Left(q, n).models = q.models \ {n} /\ Left(q, n).workers = {w \in q.workers : w.name # n}
<1> DEFINE ms == q.models \ {n}
           ws == {w \in q.workers : w.name # n}
<1>1. ms \in SUBSET Names /\ ws \in SUBSET Settings
  BY DEF PoolTypes
<1>2. Left(q, n) = [q EXCEPT !.models = ms, !.workers = ws]
  BY DEF PoolTypes, Left
<1> HIDE DEF ms, ws
<1>3. /\ Left(q, n) \in PoolTypes /\ Left(q, n).state = q.state /\ Left(q, n).key = q.key
      /\ Left(q, n).env = q.env /\ Left(q, n).whole = q.whole
      /\ Left(q, n).models = ms /\ Left(q, n).workers = ws
  BY <1>1, <1>2 DEF PoolTypes
<1> QED  BY <1>3 DEF ms, ws

(* ... and one that is closed.                                              *)
LEMMA StoppedPool ==
  ASSUME NEW q \in PoolTypes
  PROVE  /\ Stopped(q) \in PoolTypes /\ Stopped(q).state = "closed"
         /\ Stopped(q).key = q.key /\ Stopped(q).env = q.env /\ Stopped(q).whole = q.whole
         /\ Stopped(q).models = q.models /\ Stopped(q).workers = {}
BY DEF Stopped, PoolTypes

LEMMA FinishUnloadParts ==
  ASSUME PoolInv, NEW o \in Ops, FinishUnload(o)
  PROVE  \E p, r, x, key, known, emptied, closes : UnloadEnds(o, p, r, x, key, known, emptied, closes)
<1>1. PICK t, p, n : t = task[o] /\ p = task[o].pool /\ n = task[o].old.name
  OBVIOUS
<1>2. PICK key : key = IF EnvHash(p) # NoHash THEN EnvHash(p) ELSE <<NoEnv, task[o].old.gid>>
  OBVIOUS
<1>3. PICK rec : rec = Left(pool[p], n)
  OBVIOUS
<1>4. PICK known \in BOOLEAN : known = (t.late \/ \E w \in pool[p].workers : w.name = n)
  OBVIOUS
<1>5. PICK left : left = [pool EXCEPT ![p] = rec]
  OBVIOUS
<1>6. t \in TaskTypes /\ TaskShape(o, t, MadeOf(pool), plan.ops)
  BY <1>1, TaskOf
<1>7. PICK emptied \in BOOLEAN : emptied = (known /\ p # DefaultPool /\ left[p].models = {} /\ key # DefaultKey)
  OBVIOUS
<1>8. PICK closes \in BOOLEAN : closes = (emptied /\ filed[key] # NoPool)
  OBVIOUS
<1>9. left = [pool EXCEPT ![p] = Left(@, n)]
  BY <1>3, <1>5
<1>10. /\ t.stage = "unloading" /\ Answered(t)
       /\ pool' = IF closes THEN [left EXCEPT ![filed[key]] = Stopped(@)] ELSE IF known THEN left ELSE pool
       /\ task' = [task EXCEPT ![o] = [@ EXCEPT !.stage = IF closes THEN "closing"
                                                          ELSE IF known /\ ~emptied THEN "done" ELSE "failed",
                                                !.closing = IF closes THEN {key} ELSE {}]]
       /\ Settle(o, known /\ ~emptied, t.hash)
       /\ UNCHANGED <<plan, filed, dir>>
  BY <1>1, <1>2, <1>4, <1>7, <1>8, <1>9, Zenon DEF FinishUnload, AfterUnload
<1>11. /\ p \in Pools /\ p \in MadeOf(pool) /\ pool[p] \in PoolTypes /\ pool \in [Pools -> PoolTypes]
       /\ t.old \in Settings /\ filed \in [Keys -> Pools \cup {NoPool}]
  BY <1>1, <1>6, <1>10 DEF TaskShape, MadeOf, PoolInv, Filing
<1>12. /\ rec \in PoolTypes /\ rec.state = pool[p].state /\ rec.key = pool[p].key /\ rec.env = pool[p].env
       /\ rec.whole = pool[p].whole
       /\ rec.models = pool[p].models \ {n} /\ rec.workers = {w \in pool[p].workers : w.name # n}
  BY <1>3, <1>11, LeftPool
<1>13. left \in [Pools -> PoolTypes] /\ \A q \in Pools : left[q] = IF q = p THEN rec ELSE pool[q]
  BY <1>5, <1>11, <1>12
<1>14. key \in Keys
  BY <1>1, <1>2, <1>11, Absent, FoundTyping
<1>15. emptied = (known /\ p # DefaultPool /\ pool[p].models \ {n} = {} /\ key # DefaultKey)
  BY <1>7, <1>11, <1>12, <1>13
<1>16. closes => known /\ filed[key] \in Pools
  BY <1>8, <1>11, <1>14, <1>15
<1>17. ASSUME NEW q \in Pools
       PROVE  /\ pool'[q] \in PoolTypes
              /\ pool'[q] = IF closes /\ q = filed[key] THEN Stopped(left[q]) ELSE IF known THEN left[q] ELSE pool[q]
  BY <1>10, <1>11, <1>13, <1>16, StoppedPool
<1>18. pool' \in [Pools -> PoolTypes]
  BY <1>10, <1>11, <1>13, <1>16, <1>17
<1> DEFINE r == pool'[p]
           x == [t EXCEPT !.stage = IF closes THEN "closing" ELSE IF known /\ ~emptied THEN "done" ELSE "failed",
                          !.closing = IF closes THEN {key} ELSE {}]
<1>19. ASSUME NEW q \in Pools
       PROVE  /\ pool'[q].key = pool[q].key /\ pool'[q].env = pool[q].env /\ pool'[q].whole = pool[q].whole
              /\ pool'[q].state \in {pool[q].state, "closed"}
              /\ q # p => pool'[q].models = pool[q].models
  <2>1. /\ left[q] \in PoolTypes /\ left[q].key = pool[q].key /\ left[q].env = pool[q].env
        /\ left[q].whole = pool[q].whole /\ left[q].state = pool[q].state
        /\ q # p => left[q].models = pool[q].models
    BY <1>11, <1>12, <1>13
  <2> QED  BY <1>17, <2>1, StoppedPool
<1>20. (~closes \/ filed[key] = p) => pool' = [pool EXCEPT ![p] = r]
  <2>1. ASSUME ~closes \/ filed[key] = p, NEW q \in Pools
        PROVE  pool'[q] = [pool EXCEPT ![p] = r][q]
    <3>1. CASE q = p
      BY <1>11, <3>1
    <3>2. CASE q # p
      BY <1>11, <1>13, <1>17, <2>1, <3>2
    <3> QED  BY <3>1, <3>2
  <2>2. [pool EXCEPT ![p] = r] \in [Pools -> PoolTypes]
    BY <1>11, <1>17
  <2> HIDE DEF r
  <2> QED  BY <1>18, <2>1, <2>2
<1>21. /\ r \in PoolTypes /\ r.state = (IF closes /\ filed[key] = p THEN "closed" ELSE pool[p].state)
       /\ r.key = pool[p].key /\ r.env = pool[p].env /\ r.whole = pool[p].whole
       /\ r.models = (IF known THEN pool[p].models \ {n} ELSE pool[p].models)
       /\ r.workers = (IF closes /\ filed[key] = p THEN {}
                       ELSE IF known THEN {w \in pool[p].workers : w.name # n} ELSE pool[p].workers)
  <2>1. CASE closes /\ filed[key] = p
    <3>1. r = Stopped(rec) /\ known
      BY <1>11, <1>13, <1>16, <1>17, <2>1
    <3> QED  BY <1>12, <2>1, <3>1, StoppedPool
  <2>2. CASE ~(closes /\ filed[key] = p)
    <3>1. r = IF known THEN rec ELSE pool[p]
      BY <1>11, <1>13, <1>17, <2>2
    <3> QED  BY <1>11, <1>12, <2>2, <3>1
  <2> QED  BY <2>1, <2>2
<1>22. task' = [task EXCEPT ![o] = x]
  BY <1>1, <1>10 DEF PoolInv
<1>23. /\ x \in TaskTypes /\ x.stage = (IF closes THEN "closing" ELSE IF known /\ ~emptied THEN "done" ELSE "failed")
       /\ x.closing = (IF closes THEN {key} ELSE {})
       /\ x.hash = t.hash /\ x.old = t.old /\ x.late = t.late /\ x.pool = t.pool
  BY <1>6, <1>14 DEF TaskTypes, Stages
<1>24. pool'[p] = r
  OBVIOUS
<1> HIDE DEF r, x
<1>25. /\ key = (IF EnvHash(p) # NoHash THEN EnvHash(p) ELSE <<NoEnv, task[o].old.gid>>)
       /\ task[o].stage = "unloading" /\ Answered(task[o])
       /\ known = (task[o].late \/ \E w \in pool[p].workers : w.name = task[o].old.name)
       /\ emptied = (known /\ p # DefaultPool /\ pool[p].models \ {task[o].old.name} = {} /\ key # DefaultKey)
       /\ x.hash = task[o].hash /\ x.old = task[o].old /\ x.late = task[o].late /\ x.pool = p
       /\ Settle(o, known /\ ~emptied, task[o].hash)
  BY <1>1, <1>2, <1>4, <1>10, <1>15, <1>23
<1>26. /\ r.models = (IF known THEN pool[p].models \ {task[o].old.name} ELSE pool[p].models)
       /\ r.workers = (IF closes /\ filed[key] = p THEN {}
                       ELSE IF known THEN {w \in pool[p].workers : w.name # task[o].old.name} ELSE pool[p].workers)
  BY <1>1, <1>21
<1>27. UnloadKeeps(p)
  BY <1>19 DEF UnloadKeeps
<1>28. /\ known \in BOOLEAN /\ emptied \in BOOLEAN /\ closes \in BOOLEAN
       /\ p = task[o].pool /\ p \in Pools /\ p \in MadeOf(pool) /\ key \in Keys
       /\ closes = (emptied /\ filed[key] # NoPool) /\ UNCHANGED <<plan, filed, dir>>
  BY <1>1, <1>8, <1>10, <1>11, <1>14
<1>29. /\ r \in PoolTypes
       /\ r.state = (IF closes /\ filed[key] = p THEN "closed" ELSE pool[p].state)
       /\ r.key = pool[p].key /\ r.env = pool[p].env /\ r.whole = pool[p].whole
       /\ task' = [task EXCEPT ![o] = x] /\ x \in TaskTypes
       /\ x.stage = (IF closes THEN "closing" ELSE IF known /\ ~emptied THEN "done" ELSE "failed")
       /\ x.closing = (IF closes THEN {key} ELSE {})
  BY <1>21, <1>22, <1>23
<1>30. UnloadEnds(o, p, r, x, key, known, emptied, closes)
  BY <1>18, <1>20, <1>24, <1>25, <1>26, <1>27, <1>28, <1>29, Zenon DEF UnloadEnds
<1> QED  BY <1>30

LEMMA FinishUnloadTypes ==
  ASSUME PoolInv, NEW o \in Ops, FinishUnload(o)
  PROVE  PoolInv'
<1>1. PICK p, r, x, key, known, emptied, closes : UnloadEnds(o, p, r, x, key, known, emptied, closes)
  BY FinishUnloadParts
<1>2. /\ pool' \in [Pools -> PoolTypes]
      /\ \A q \in Pools : pool'[q].key = pool[q].key /\ pool'[q].state \in {pool[q].state, "closed"}
      /\ task' = [task EXCEPT ![o] = x] /\ x \in TaskTypes /\ task[o].stage = "unloading"
      /\ Settle(o, known /\ ~emptied, task[o].hash) /\ UNCHANGED <<plan, filed, dir>>
  <2>1. UnloadKeeps(p)
    BY <1>1 DEF UnloadEnds
  <2> QED  BY <1>1, <2>1 DEF UnloadEnds, UnloadKeeps
<1>3. /\ x.stage \in {"failed", "closing", "done"}
      /\ x.closing = {} \/ (x.stage = "closing" /\ key \in Keys /\ x.closing = {key})
  <2>1. /\ x.stage = (IF closes THEN "closing" ELSE IF known /\ ~emptied THEN "done" ELSE "failed")
        /\ x.closing = (IF closes THEN {key} ELSE {}) /\ key \in Keys
    BY <1>1 DEF UnloadEnds
  <2>2. CASE closes
    BY <2>1, <2>2
  <2>3. CASE ~closes
    BY <2>1, <2>3
  <2> QED  BY <2>2, <2>3
<1>4. task[o] \in TaskTypes /\ TaskShape(o, task[o], MadeOf(pool), plan.ops)
  BY TaskOf
<1>5. Filing(filed', pool') /\ MadeOf(pool) \subseteq MadeOf(pool')
  <2>1. Filing(filed, pool) /\ filed' = filed
    BY <1>2 DEF PoolInv
  <2>2. \A q \in Pools : pool[q].state # "unmade" => pool'[q].state # "unmade"
    BY <1>2
  <2>3. ASSUME NEW k \in Keys, filed[k] # NoPool
        PROVE  pool'[filed[k]].key = k /\ pool'[filed[k]].state # "unmade"
    <3>1. PICK q \in Pools : q = filed[k] /\ pool[q].key = k /\ pool[q].state # "unmade"
      BY <2>1, <2>3 DEF Filing
    <3> QED  BY <1>2, <2>2, <3>1
  <2>4. pool'[DefaultPool].state # "unmade" /\ pool'[DefaultPool].key = DefaultKey
    BY <1>2, <2>1, <2>2, Absent DEF Filing
  <2>5. Filing(filed', pool')
    BY <1>2, <2>1, <2>3, <2>4 DEF Filing
  <2> QED  BY <2>2, <2>5 DEF MadeOf
<1>6. TaskShape(o, x, MadeOf(pool'), plan.ops)
  BY <1>2, <1>3, <1>4 DEF TaskShape, Loading
<1>7. Steps(o)
  BY <1>2, <1>5, <1>6 DEF Steps
<1>8. task[o].hash \in Keys \cup {NoHash}
  BY <1>4 DEF TaskTypes
<1>9. /\ live' \in [Names -> Settings \cup {NoSettings}] /\ hash' \in [Names -> Keys \cup {NoHash}]
  BY <1>2, <1>8, SettleTyping
<1>10. dir' \in [Keys -> {"absent", "partial", "whole"}]
  BY <1>2 DEF PoolInv
<1> QED  BY <1>7, <1>9, <1>10, StepsKeep

(* close(): every pool there is, the default one among them.                *)
LEMMA BeginCloseTypes ==
  ASSUME PoolInv, NEW o \in Ops, BeginClose(o)
  PROVE  PoolInv'
<1>1. PICK keys : keys = {k \in Keys : filed[k] # NoPool} \cup {DefaultKey}
  OBVIOUS
<1>2. /\ MayBegin(o) /\ task' = [task EXCEPT ![o] = [Idle EXCEPT !.stage = "closing", !.closing = keys]]
      /\ pool' = [p \in Pools |-> IF \E k \in keys : At(k) = p THEN Stopped(pool[p]) ELSE pool[p]]
      /\ UNCHANGED <<plan, filed, dir, live, hash>> /\ o.kind = "close"
  BY <1>1 DEF BeginClose
<1>3. keys \subseteq Keys
  BY <1>1, Absent
<1>4. PICK x : x = [Idle EXCEPT !.stage = "closing", !.closing = keys]
  OBVIOUS
<1>5. x \in TaskTypes /\ x.stage = "closing" /\ task' = [task EXCEPT ![o] = x]
  BY <1>2, <1>3, <1>4 DEF Idle, TaskTypes, Stages
<1>6. \A p \in Pools : pool[p] \in PoolTypes
  BY DEF PoolInv, Filing
<1>7. \A k \in keys : At(k) # NoPool => At(k) \in MadeOf(pool)
  BY <1>3, FoundTyping
<1>8. ASSUME NEW p \in Pools
      PROVE  /\ pool'[p] \in PoolTypes /\ pool'[p].key = pool[p].key
             /\ pool[p].state # "unmade" => pool'[p].state # "unmade"
  <2>1. pool'[p] = Stopped(pool[p]) \/ pool'[p] = pool[p]
    BY <1>2
  <2> QED  BY <1>6, <2>1, StoppedPool
<1>9. pool' \in [Pools -> PoolTypes]
  BY <1>2, <1>8
<1>10. Filing(filed', pool')
  <2>1. Filing(filed, pool) /\ filed' = filed /\ DefaultPool \in Pools
    BY <1>2, Absent DEF PoolInv
  <2>2. ASSUME NEW k \in Keys, filed[k] # NoPool
        PROVE  pool'[filed[k]].key = k /\ pool'[filed[k]].state # "unmade"
    <3>1. PICK p \in Pools : p = filed[k] /\ pool[p].key = k /\ pool[p].state # "unmade"
      BY <2>1, <2>2 DEF Filing
    <3> QED  BY <1>8, <3>1
  <2>3. pool'[DefaultPool].state # "unmade" /\ pool'[DefaultPool].key = DefaultKey
    BY <1>8, <2>1 DEF Filing
  <2> QED  BY <1>9, <2>1, <2>2, <2>3 DEF Filing
<1>11. MadeOf(pool) \subseteq MadeOf(pool')
  BY <1>8 DEF MadeOf
<1>12. TaskShape(o, x, MadeOf(pool'), plan.ops)
  BY <1>2, <1>5 DEF TaskShape, Loading, MayBegin
<1>13. Steps(o)
  BY <1>2, <1>5, <1>10, <1>11, <1>12 DEF Steps
<1>14. /\ dir' \in [Keys -> {"absent", "partial", "whole"}] /\ live' \in [Names -> Settings \cup {NoSettings}]
       /\ hash' \in [Names -> Keys \cup {NoHash}]
  BY <1>2 DEF PoolInv
<1> QED  BY <1>13, <1>14, StepsKeep

(* _close_pool once the workers are gone.                                   *)
LEMMA FinishCloseTypes ==
  ASSUME PoolInv, NEW o \in Ops, NEW k \in task[o].closing, FinishClose(o, k)
  PROVE  PoolInv'
<1>1. task[o] \in TaskTypes /\ TaskShape(o, task[o], MadeOf(pool), plan.ops)
  BY TaskOf
<1>2. k \in Keys /\ task[o].closing \subseteq Keys /\ task[o].hash \in Keys \cup {NoHash}
  BY <1>1 DEF TaskTypes
<1>3. task[o].stage # "idle" /\ o \in plan.ops
  BY <1>1 DEF TaskShape
<1>4. PICK p, gone, rest : /\ p = filed[k] /\ gone = (k # DefaultKey /\ p = NoPool) /\ rest = task[o].closing \ {k}
                           /\ gone \in BOOLEAN
  OBVIOUS
<1>5. PICK x : x = [task[o] EXCEPT !.closing = rest,
                                   !.stage = IF gone \/ @ = "failed" THEN "failed" ELSE IF rest = {} THEN "done" ELSE @]
  OBVIOUS
<1>6. /\ task' = [task EXCEPT ![o].closing = rest,
                              ![o].stage = IF gone \/ @ = "failed" THEN "failed" ELSE IF rest = {} THEN "done" ELSE @]
      /\ filed' = [filed EXCEPT ![k] = NoPool]
      /\ pool' = IF p = NoPool THEN pool ELSE [pool EXCEPT ![p].env = FALSE]
      /\ dir' = IF gone THEN dir ELSE [dir EXCEPT ![k] = "absent"]
      /\ Settle(o, ~gone /\ rest = {}, task[o].hash)
      /\ UNCHANGED plan
  BY <1>4, Zenon DEF FinishClose
<1>7. task' = [task EXCEPT ![o] = x]
  BY <1>5, <1>6 DEF PoolInv, TaskTypes
<1>8. /\ x \in TaskTypes /\ x.stage \in {"failed", "done", task[o].stage} /\ x.pool = task[o].pool
      /\ x.old = task[o].old /\ x.closing = rest
  BY <1>1, <1>2, <1>4, <1>5 DEF TaskTypes, Stages
<1>9. Filing([filed EXCEPT ![k] = NoPool], pool)
  BY <1>2, FilingLess DEF PoolInv
<1>10. Filing(filed', pool') /\ MadeOf(pool) \subseteq MadeOf(pool')
  <2>1. CASE p = NoPool
    BY <1>6, <1>9, <2>1
  <2>2. CASE p # NoPool
    <3>1. p \in Pools /\ pool[p] \in PoolTypes /\ pool \in [Pools -> PoolTypes]
      BY <1>2, <1>4, <2>2 DEF PoolInv, Filing
    <3>2. PICK r : r = [pool[p] EXCEPT !.env = FALSE]
      OBVIOUS
    <3>3. r \in PoolTypes /\ r.key = pool[p].key /\ r.state = pool[p].state /\ pool' = [pool EXCEPT ![p] = r]
      BY <1>6, <2>2, <3>1, <3>2 DEF PoolTypes
    <3>4. /\ Filing([filed EXCEPT ![k] = NoPool], [pool EXCEPT ![p] = r])
          /\ MadeOf(pool) \subseteq MadeOf([pool EXCEPT ![p] = r])
      BY <1>9, <3>1, <3>3, FilingSet
    <3> QED  BY <1>6, <3>3, <3>4
  <2> QED  BY <2>1, <2>2
<1>11. TaskShape(o, x, MadeOf(pool'), plan.ops)
  <2>1. x.stage \notin {"failed", "done"} => x.stage = task[o].stage
    BY <1>8
  <2>2. ASSUME o.kind # "close" PROVE x.closing = {}
    <3>1. PICK j \in Keys : task[o].closing = {j}
      BY <1>1, <2>2 DEF TaskShape
    <3> QED  BY <1>4, <1>8, <3>1
  <2>3. ASSUME Loading(x) PROVE FALSE
    BY <1>1, <1>8, <2>1, <2>3 DEF TaskShape, Loading
  <2> QED  BY <1>1, <1>3, <1>8, <1>10, <2>1, <2>2, <2>3 DEF TaskShape, Loading
<1>12. Steps(o)
  BY <1>6, <1>7, <1>8, <1>10, <1>11 DEF Steps
<1>13. /\ live' \in [Names -> Settings \cup {NoSettings}] /\ hash' \in [Names -> Keys \cup {NoHash}]
  BY <1>2, <1>6, SettleTyping
<1>14. dir' \in [Keys -> {"absent", "partial", "whole"}]
  BY <1>2, <1>6 DEF PoolInv
<1> QED  BY <1>12, <1>13, <1>14, StepsKeep

LEMMA PoolStep == PoolInv /\ [Next]_vars => PoolInv'
<1> SUFFICES ASSUME PoolInv, [Next]_vars PROVE PoolInv'
  OBVIOUS
<1>1. CASE UNCHANGED vars
  BY <1>1 DEF PoolInv, vars, MadeOf
<1>2. CASE Next
  BY <1>2, BeginLoadTypes, FinishHashTypes, FinishExtractTypes, FailTypes, FinishLoadTypes, BeginUnloadTypes,
     FinishUnloadTypes, BeginCloseTypes, FinishCloseTypes DEF Next
<1> QED  BY <1>1, <1>2

(* The types, in every behaviour: what is filed under a key is a pool that   *)
(* was made for it.                                                         *)
THEOREM PoolsTyping == Spec => []TypeOK
<1>1. PoolInv => TypeOK
  BY DEF PoolInv, TypeOK, Filing, PoolTypes, TaskTypes
<1> QED  BY PoolInit, PoolStep, <1>1, PTL DEF Spec

-----------------------------------------------------------------------------
(* The directories. *)

(* Operations that load from the same tarball for the same group are never   *)
(* under way at once, and no extraction of it fails: what happens otherwise *)
(* is FinishHash's third case, which uses a directory as it finds it.       *)
OwnTarballs ==
  \A p \in Plans : \A o, q \in p.ops :
    o # q /\ {o.kind, q.kind} \subseteq {"load", "reload"} /\ KeyOf(o.model) = KeyOf(q.model) /\ o.model.env \in Tarballs
    => (p.serial \/ o.model.name = q.model.name) /\ "extract" \notin p.failures

(* A tarball's directory is whole exactly while its pool is filed, open or   *)
(* closed; nothing else has one.                                            *)
DirShape(d, f) ==
  \A k \in Keys : IF k[1] \in Tarballs THEN (f[k] # NoPool) <=> (d[k] = "whole") ELSE d[k] = "absent"

(* A directory that is not whole is being extracted into, or was left by an  *)
(* extraction that failed.                                                  *)
Extracts(o, t, k, failures) ==
  /\ KeyOf(o.model) = k /\ o.kind \in {"load", "reload"}
  /\ t.stage = "extracting" \/ (t.stage = "failed" /\ "extract" \in failures)
PartialShape(d, ts, failures) ==
  /\ \A o \in Ops : ts[o].stage = "extracting" => d[KeyOf(o.model)] = "partial"
  /\ \A k \in Keys : d[k] = "partial" => \E o \in Ops : Extracts(o, ts[o], k, failures)

(* Operations under way are of different names.                             *)
Under(t) == t.stage \notin {"idle", "done", "failed"}
RunsApart(ts, pl) ==
  \A o, q \in Ops : o # q /\ Under(ts[o]) /\ Under(ts[q]) => o.model.name # q.model.name /\ ~pl.serial
WholePools(ps) == \A p \in Pools : ps[p].whole

DirInv ==
  /\ DirShape(dir, filed)
  /\ PartialShape(dir, task, plan.failures)
  /\ RunsApart(task, plan)
  /\ WholePools(pool)

LEMMA DirInit == Init => DirInv
<1> SUFFICES ASSUME Init PROVE DirInv
  OBVIOUS
<1>1. /\ filed = [k \in Keys |-> NoPool] /\ task = [o \in Ops |-> Idle]
      /\ pool = [p \in Pools |-> IF p = DefaultPool THEN [Unmade EXCEPT !.state = "open"] ELSE Unmade]
      /\ dir = [k \in Keys |-> "absent"]
  BY DEF Init
<1>2. Idle.stage = "idle" /\ Unmade.whole = TRUE /\ [Unmade EXCEPT !.state = "open"].whole = TRUE
  BY DEF Idle, Unmade
<1>3. \A o \in Ops : KeyOf(o.model) \in Keys
  BY OpsTyping, Absent
<1> QED  BY <1>1, <1>2, <1>3 DEF DirInv, DirShape, PartialShape, RunsApart, WholePools, Under

(* A step of operation o to x: it was begun, is under way or ends.           *)
Turns(o, x) ==
  /\ task' = [task EXCEPT ![o] = x] /\ plan' = plan
  /\ MayBegin(o) \/ Under(task[o]) \/ ~Under(x)

LEMMA TurnsApart ==
  ASSUME PoolInv, RunsApart(task, plan), NEW o \in Ops, NEW x, Turns(o, x)
  PROVE  RunsApart(task', plan')
<1>1. task' = [task EXCEPT ![o] = x] /\ plan' = plan /\ \A q \in Ops : task'[q] = IF q = o THEN x ELSE task[q]
  BY DEF Turns, PoolInv
<1>2. ASSUME NEW q \in Ops, q # o, Under(x), Under(task[q])
      PROVE  o.model.name # q.model.name /\ ~plan.serial
  <2>1. CASE MayBegin(o)
    BY <1>2, <2>1 DEF MayBegin, Running, Under
  <2>2. CASE Under(task[o])
    BY <1>2, <2>2 DEF RunsApart
  <2> QED  BY <1>2, <2>1, <2>2 DEF Turns
<1>3. ASSUME NEW q \in Ops, NEW r \in Ops, q # r, Under(task'[q]), Under(task'[r])
      PROVE  q.model.name # r.model.name /\ ~plan'.serial
  <2>1. CASE q = o
    BY <1>1, <1>2, <1>3, <2>1
  <2>2. CASE r = o
    BY <1>1, <1>2, <1>3, <2>2
  <2>3. CASE q # o /\ r # o
    BY <1>1, <1>3, <2>3 DEF RunsApart
  <2> QED  BY <2>1, <2>2, <2>3
<1> QED  BY <1>3 DEF RunsApart

(* A step that leaves the directory and what is filed alone.                *)
LEMMA DirKept ==
  ASSUME PoolInv, DirInv, NEW o \in Ops, NEW x, Turns(o, x), UNCHANGED <<dir, filed>>, WholePools(pool'),
         x.stage # "extracting",
         task[o].stage = "extracting" => x.stage = "failed" /\ "extract" \in plan.failures,
         task[o].stage # "failed"
  PROVE  DirInv'
<1>1. RunsApart(task', plan')
  BY TurnsApart DEF DirInv
<1>2. plan' = plan /\ \A q \in Ops : task'[q] = IF q = o THEN x ELSE task[q]
  BY DEF Turns, PoolInv
<1>3. \A q \in Ops : task'[q].stage = "extracting" => dir'[KeyOf(q.model)] = "partial"
  BY <1>2 DEF DirInv, PartialShape
<1>4. ASSUME NEW k \in Keys, dir'[k] = "partial"
      PROVE  \E q \in Ops : Extracts(q, task'[q], k, plan'.failures)
  <2>1. PICK q \in Ops : Extracts(q, task[q], k, plan.failures)
    BY <1>4 DEF DirInv, PartialShape
  <2>2. CASE q # o
    BY <1>2, <2>1, <2>2
  <2>3. CASE q = o
    <3>1. task[o].stage = "extracting"
      BY <2>1, <2>3 DEF Extracts
    <3> QED  BY <1>2, <2>1, <2>3, <3>1 DEF Extracts
  <2> QED  BY <2>2, <2>3
<1>5. PartialShape(dir', task', plan'.failures)
  BY <1>3, <1>4 DEF PartialShape
<1> QED  BY <1>1, <1>5 DEF DirInv

(* What OwnTarballs says of an operation under way: nobody else extracts    *)
(* into its directory, or has failed to.                                    *)
LEMMA Alone ==
  ASSUME OwnTarballs, PoolInv, RunsApart(task, plan), NEW o \in Ops, Under(task[o]), Loading(task[o]),
         o.model.env \in Tarballs, NEW q \in Ops, q # o,
         Extracts(q, task[q], KeyOf(o.model), plan.failures)
  PROVE  FALSE
<1>1. /\ o \in plan.ops /\ o.kind \in {"load", "reload"} /\ plan \in Plans
  BY DEF PoolInv, TaskShape, Under
<1>2. /\ q \in plan.ops /\ q.kind \in {"load", "reload"} /\ KeyOf(q.model) = KeyOf(o.model)
      /\ task[q].stage = "extracting" \/ (task[q].stage = "failed" /\ "extract" \in plan.failures)
  BY DEF PoolInv, TaskShape, Extracts
<1>3. (plan.serial \/ o.model.name = q.model.name) /\ "extract" \notin plan.failures
  BY <1>1, <1>2 DEF OwnTarballs
<1>4. Under(task[q])
  BY <1>2, <1>3 DEF Under
<1> QED  BY <1>3, <1>4 DEF RunsApart

(* A step that files a pool under a key whose directory it completes, or    *)
(* that has none.                                                           *)
LEMMA DirFiled ==
  ASSUME OwnTarballs, PoolInv, DirInv, NEW o \in Ops, NEW x, Turns(o, x), x.stage = "loading",
         NEW k \in Keys, NEW p \in Pools, filed' = [filed EXCEPT ![k] = p], WholePools(pool'),
         \/ /\ k[1] \in Tarballs /\ KeyOf(o.model) = k /\ o.model.env \in Tarballs
            /\ task[o].stage = "extracting" /\ dir' = [dir EXCEPT ![k] = "whole"]
         \/ k[1] \notin Tarballs /\ task[o].stage \notin {"extracting", "failed"} /\ dir' = dir
  PROVE  DirInv'
<1>1. RunsApart(task', plan')
  BY TurnsApart DEF DirInv
<1>2. plan' = plan /\ \A q \in Ops : task'[q] = IF q = o THEN x ELSE task[q]
  BY DEF Turns, PoolInv
<1>3. p # NoPool /\ filed \in [Keys -> Pools \cup {NoPool}] /\ dir \in [Keys -> {"absent", "partial", "whole"}]
  BY Absent DEF PoolInv, Filing
<1>4. DirShape(dir', filed')
  BY <1>3 DEF DirInv, DirShape
<1>5. ASSUME NEW q \in Ops, task'[q].stage = "extracting"
      PROVE  dir'[KeyOf(q.model)] = "partial"
  <2>1. q # o /\ task[q].stage = "extracting"
    BY <1>2, <1>5
  <2>2. dir[KeyOf(q.model)] = "partial" /\ KeyOf(q.model) \in Keys /\ q.kind \in {"load", "reload"}
    BY <2>1, OpsTyping, Absent DEF DirInv, PartialShape, PoolInv, TaskShape, Loading
  <2>3. ~(KeyOf(q.model) = k /\ k[1] \in Tarballs)
    <3> SUFFICES ASSUME KeyOf(q.model) = k, k[1] \in Tarballs PROVE FALSE
      OBVIOUS
    <3>1. /\ KeyOf(o.model) = k /\ o.model.env \in Tarballs /\ task[o].stage = "extracting"
      OBVIOUS
    <3>2. Extracts(q, task[q], KeyOf(o.model), plan.failures)
      BY <2>1, <2>2, <3>1 DEF Extracts
    <3> QED  BY <2>1, <3>1, <3>2, Alone DEF DirInv, Under, Loading
  <2> QED  BY <1>3, <2>2, <2>3
<1>6. ASSUME NEW j \in Keys, dir'[j] = "partial"
      PROVE  \E q \in Ops : Extracts(q, task'[q], j, plan'.failures)
  <2>1. dir[j] = "partial" /\ (k[1] \in Tarballs => j # k)
    BY <1>3, <1>6
  <2>2. PICK q \in Ops : Extracts(q, task[q], j, plan.failures)
    BY <2>1 DEF DirInv, PartialShape
  <2>3. q # o
    BY <2>1, <2>2 DEF Extracts
  <2> QED  BY <1>2, <2>2, <2>3
<1>7. PartialShape(dir', task', plan'.failures)
  BY <1>5, <1>6 DEF PartialShape
<1> QED  BY <1>1, <1>4, <1>7 DEF DirInv

(* The pools of a step that uses one, and of one that makes one.            *)
LEMMA UseWhole ==
  ASSUME PoolInv, DirInv, NEW o \in Ops, NEW p \in MadeOf(pool), NEW t, UsePool(o, p, t)
  PROVE  WholePools(pool')
<1>1. p \in Pools /\ pool[p] \in PoolTypes /\ pool \in [Pools -> PoolTypes]
  BY DEF MadeOf, PoolInv, Filing
<1>2. PICK r : r = Listing(o, pool[p])
  OBVIOUS
<1>3. r.whole = pool[p].whole /\ pool' = [pool EXCEPT ![p] = r]
  BY <1>1, <1>2, ListingKeeps DEF UsePool
<1> QED  BY <1>1, <1>3 DEF DirInv, WholePools

LEMMA MakeWhole ==
  ASSUME PoolInv, DirInv, NEW o \in Ops, NEW k \in Keys, NEW t, MakePool(o, k, TRUE, t)
  PROVE  /\ WholePools(pool')
         /\ NewPool \in Pools /\ filed' = [filed EXCEPT ![k] = NewPool]
<1>1. PICK p : p = NewPool
  OBVIOUS
<1>2. p \in Pools /\ pool \in [Pools -> PoolTypes]
  BY <1>1, NewPoolIs DEF MakePool, PoolInv, Filing
<1>3. PICK r : r = Listing(o, Made(k, TRUE))
  OBVIOUS
<1>4. r.whole = TRUE
  <2>1. Made(k, TRUE) \in PoolTypes /\ Made(k, TRUE).whole = TRUE
    BY MadeTyping
  <2> QED  BY <1>3, <2>1, ListingKeeps
<1>5. pool' = [pool EXCEPT ![p] = r] /\ filed' = [filed EXCEPT ![k] = p]
  BY <1>1, <1>3 DEF MakePool
<1>6. WholePools(pool')
  BY <1>2, <1>4, <1>5 DEF DirInv, WholePools
<1> QED  BY <1>1, <1>2, <1>5, <1>6

(* A load's own state, once it has its pool.                                *)
LEMMA EnterStage ==
  ASSUME NEW o, NEW p, NEW t \in TaskTypes
  PROVE  Enter(o, p, t).stage = "loading"
BY DEF Enter, TaskTypes

LEMMA BeginLoadDirs ==
  ASSUME OwnTarballs, PoolInv, DirInv, NEW o \in Ops, BeginLoad(o)
  PROVE  DirInv'
<1> DEFINE k == KeyOf(o.model)
<1>1. o.model \in Settings /\ k \in Keys /\ o.model.name \in Names
  BY TaskOf
<1>2. PICK t : t = [Idle EXCEPT !.old = live[o.model.name], !.oldHash = hash[o.model.name]]
  OBVIOUS
<1>3. MayBegin(o) /\ task[o].stage = "idle" /\ UNCHANGED <<plan, dir>>
  BY DEF BeginLoad, MayBegin
<1>4. t \in TaskTypes
  BY <1>1, <1>2 DEF PoolInv, Idle, TaskTypes, Stages
<1>5. CASE HasEnv(k)
  <2>1. task' = [task EXCEPT ![o] = [t EXCEPT !.stage = "hashing"]] /\ UNCHANGED <<filed, pool>>
    BY <1>2, <1>5 DEF BeginLoad
  <2>2. PICK x : x = [t EXCEPT !.stage = "hashing"]
    OBVIOUS
  <2>3. x.stage = "hashing"
    BY <1>4, <2>2 DEF TaskTypes
  <2>4. Turns(o, x)
    BY <1>3, <2>1, <2>2 DEF Turns
  <2>5. WholePools(pool')
    BY <2>1 DEF DirInv
  <2> QED  BY <1>3, <2>1, <2>3, <2>4, <2>5, DirKept
<1>6. CASE ~HasEnv(k) /\ At(k) # NoPool
  <2>1. UsePool(o, At(k), t)
    BY <1>2, <1>6 DEF BeginLoad
  <2>2. At(k) \in MadeOf(pool)
    BY <1>1, <1>6, FoundTyping
  <2>3. PICK p \in MadeOf(pool) : p = At(k)
    BY <2>2
  <2>4. PICK x : x = Enter(o, p, t)
    OBVIOUS
  <2>5. task' = [task EXCEPT ![o] = x] /\ UNCHANGED filed /\ x.stage = "loading"
    BY <1>4, <2>1, <2>3, <2>4, EnterStage DEF UsePool
  <2>6. WholePools(pool')
    BY <2>1, <2>3, UseWhole
  <2>7. Turns(o, x)
    BY <1>3, <2>5 DEF Turns
  <2> QED  BY <1>3, <2>5, <2>6, <2>7, DirKept
<1>7. CASE ~HasEnv(k) /\ At(k) = NoPool
  <2>1. MakePool(o, k, TRUE, t)
    BY <1>2, <1>7 DEF BeginLoad
  <2>2. PICK x : x = Enter(o, NewPool, t)
    OBVIOUS
  <2>3. task' = [task EXCEPT ![o] = x] /\ x.stage = "loading"
    BY <1>4, <2>1, <2>2, EnterStage DEF MakePool
  <2>4. k[1] \notin Tarballs
    BY <1>7, AbsentAssumption DEF HasEnv
  <2>5. WholePools(pool') /\ NewPool \in Pools /\ filed' = [filed EXCEPT ![k] = NewPool]
    BY <1>1, <2>1, MakeWhole
  <2>6. Turns(o, x)
    BY <1>3, <2>3 DEF Turns
  <2>7. PICK p \in Pools : filed' = [filed EXCEPT ![k] = p]
    BY <2>5
  <2>8. k[1] \notin Tarballs /\ task[o].stage \notin {"extracting", "failed"} /\ dir' = dir
    BY <1>3, <2>4
  <2> HIDE DEF k
  <2> QED  BY <1>1, <2>3, <2>5, <2>6, <2>7, <2>8, DirFiled
<1> QED  BY <1>5, <1>6, <1>7

LEMMA FinishHashDirs ==
  ASSUME OwnTarballs, PoolInv, DirInv, NEW o \in Ops, FinishHash(o)
  PROVE  DirInv'
<1> DEFINE k == KeyOf(o.model)
<1>1. /\ task[o] \in TaskTypes /\ TaskShape(o, task[o], MadeOf(pool), plan.ops)
      /\ o.model \in Settings /\ k \in Keys
  BY TaskOf
<1>2. task[o].stage = "hashing" /\ UNCHANGED <<plan, live, hash>> /\ k[1] = o.model.env
  BY DEF FinishHash, KeyOf
<1>3. Under(task[o]) /\ Loading(task[o]) /\ o.kind \in {"load", "reload"}
  BY <1>1, <1>2 DEF Under, Loading, TaskShape
<1>4. CASE filed[k] # NoPool /\ UsePool(o, filed[k], task[o]) /\ UNCHANGED dir
  <2>1. PICK p \in MadeOf(pool) : p = filed[k]
    BY <1>1, <1>4 DEF PoolInv, Filing, MadeOf
  <2>2. PICK x : x = Enter(o, p, task[o])
    OBVIOUS
  <2>3. task' = [task EXCEPT ![o] = x] /\ UNCHANGED filed /\ x.stage = "loading"
    BY <1>1, <1>4, <2>1, <2>2, EnterStage DEF UsePool
  <2>4. WholePools(pool')
    BY <1>4, <2>1, UseWhole
  <2>5. Turns(o, x)
    BY <1>2, <1>3, <2>3 DEF Turns
  <2> QED  BY <1>2, <1>4, <2>3, <2>4, <2>5, DirKept
<1>5. CASE filed[k] = NoPool /\ o.model.env \in Paths /\ MakePool(o, k, TRUE, task[o]) /\ UNCHANGED dir
  <2>1. PICK x : x = Enter(o, NewPool, task[o])
    OBVIOUS
  <2>2. task' = [task EXCEPT ![o] = x] /\ x.stage = "loading"
    BY <1>1, <1>5, <2>1, EnterStage DEF MakePool
  <2>3. WholePools(pool') /\ NewPool \in Pools /\ filed' = [filed EXCEPT ![k] = NewPool]
    BY <1>1, <1>5, MakeWhole
  <2>4. Turns(o, x)
    BY <1>2, <1>3, <2>2 DEF Turns
  <2>5. PICK p \in Pools : filed' = [filed EXCEPT ![k] = p]
    BY <2>3
  <2>6. k[1] \notin Tarballs /\ task[o].stage \notin {"extracting", "failed"} /\ dir' = dir
    BY <1>2, <1>5, AbsentAssumption
  <2> HIDE DEF k
  <2> QED  BY <1>1, <2>2, <2>3, <2>4, <2>5, <2>6, DirFiled
<1>6. ~(filed[k] = NoPool /\ o.model.env \in Tarballs /\ dir[k] # "absent")
  <2> SUFFICES ASSUME filed[k] = NoPool, o.model.env \in Tarballs, dir[k] # "absent" PROVE FALSE
    OBVIOUS
  <2>1. dir[k] = "partial"
    BY <1>1, <1>2 DEF DirInv, DirShape, PoolInv
  <2>2. PICK q \in Ops : Extracts(q, task[q], k, plan.failures)
    BY <1>1, <2>1 DEF DirInv, PartialShape
  <2>3. q # o
    BY <1>2, <2>2 DEF Extracts
  <2> QED  BY <1>3, <2>2, <2>3, Alone DEF DirInv
<1>7. CASE /\ filed[k] = NoPool /\ o.model.env \in Tarballs /\ dir[k] = "absent"
           /\ dir' = [dir EXCEPT ![k] = "partial"]
           /\ task' = [task EXCEPT ![o].stage = "extracting"]
           /\ UNCHANGED <<filed, pool>>
  <2>1. PICK x : x = [task[o] EXCEPT !.stage = "extracting"]
    OBVIOUS
  <2>2. x.stage = "extracting" /\ task' = [task EXCEPT ![o] = x]
    BY <1>1, <1>7, <2>1 DEF TaskTypes, PoolInv
  <2>3. Turns(o, x)
    BY <1>2, <1>3, <2>2 DEF Turns
  <2>4. RunsApart(task', plan') /\ WholePools(pool')
    BY <1>7, <2>3, TurnsApart DEF DirInv
  <2>5. /\ \A q \in Ops : task'[q] = IF q = o THEN x ELSE task[q]
        /\ dir \in [Keys -> {"absent", "partial", "whole"}]
    BY <2>2 DEF PoolInv
  <2>6. DirShape(dir', filed')
    BY <1>1, <1>2, <1>7, <2>5 DEF DirInv, DirShape
  <2>7. ASSUME NEW q \in Ops, task'[q].stage = "extracting"
        PROVE  dir'[KeyOf(q.model)] = "partial"
    <3>1. KeyOf(q.model) \in Keys
      BY OpsTyping, Absent
    <3>2. q # o => dir[KeyOf(q.model)] = "partial"
      BY <2>5, <2>7 DEF DirInv, PartialShape
    <3> QED  BY <1>1, <1>7, <2>5, <3>1, <3>2
  <2>8. ASSUME NEW j \in Keys, dir'[j] = "partial"
        PROVE  \E q \in Ops : Extracts(q, task'[q], j, plan'.failures)
    <3>1. CASE j = k
      BY <1>3, <2>2, <2>5, <3>1 DEF Extracts
    <3>2. CASE j # k
      <4>1. PICK q \in Ops : Extracts(q, task[q], j, plan.failures)
        BY <1>1, <1>7, <2>5, <2>8, <3>2 DEF DirInv, PartialShape
      <4>2. q # o
        BY <1>2, <4>1 DEF Extracts
      <4> QED  BY <1>2, <2>5, <4>1, <4>2
    <3> QED  BY <3>1, <3>2
  <2>9. PartialShape(dir', task', plan'.failures)
    BY <2>7, <2>8 DEF PartialShape
  <2> QED  BY <2>4, <2>6, <2>9 DEF DirInv
<1> QED  BY <1>4, <1>5, <1>6, <1>7 DEF FinishHash

LEMMA FinishExtractDirs ==
  ASSUME OwnTarballs, PoolInv, DirInv, NEW o \in Ops, FinishExtract(o)
  PROVE  DirInv'
<1> DEFINE k == KeyOf(o.model)
<1>1. /\ task[o] \in TaskTypes /\ TaskShape(o, task[o], MadeOf(pool), plan.ops)
      /\ o.model \in Settings /\ k \in Keys
  BY TaskOf
<1>2. task[o].stage = "extracting" /\ plan' = plan /\ k[1] = o.model.env
  BY DEF FinishExtract, KeyOf
<1>3. o.model.env \in Tarballs /\ dir[k] = "partial"
  BY <1>1, <1>2 DEF TaskShape, DirInv, PartialShape
<1>4. dir' = [dir EXCEPT ![k] = "whole"] /\ MakePool(o, k, TRUE, task[o])
  <2>1. (dir[k] = "partial") = TRUE
    BY <1>3
  <2> QED  BY <2>1 DEF FinishExtract
<1>5. PICK x : x = Enter(o, NewPool, task[o])
  OBVIOUS
<1>6. task' = [task EXCEPT ![o] = x] /\ x.stage = "loading"
  BY <1>1, <1>4, <1>5, EnterStage DEF MakePool
<1>7. Turns(o, x)
  BY <1>2, <1>6 DEF Turns, Under
<1>8. WholePools(pool') /\ NewPool \in Pools /\ filed' = [filed EXCEPT ![k] = NewPool]
  BY <1>1, <1>4, MakeWhole
<1>9. PICK p \in Pools : filed' = [filed EXCEPT ![k] = p]
  BY <1>8
<1>10. \/ /\ k[1] \in Tarballs /\ KeyOf(o.model) = k /\ o.model.env \in Tarballs
          /\ task[o].stage = "extracting" /\ dir' = [dir EXCEPT ![k] = "whole"]
       \/ k[1] \notin Tarballs /\ task[o].stage \notin {"extracting", "failed"} /\ dir' = dir
  BY <1>2, <1>3, <1>4
<1> HIDE DEF k
<1> QED  BY <1>1, <1>6, <1>7, <1>8, <1>9, <1>10, DirFiled

LEMMA FailDirs ==
  ASSUME PoolInv, DirInv, NEW o \in Ops, FailExtract(o) \/ FailLoad(o)
  PROVE  DirInv'
<1>1. task[o] \in TaskTypes
  BY TaskOf
<1>2. /\ UNCHANGED <<plan, filed, pool, dir>> /\ task' = [task EXCEPT ![o].stage = "failed"]
      /\ task[o].stage \in {"extracting", "loading"} /\ (task[o].stage = "extracting" => "extract" \in plan.failures)
  BY DEF FailExtract, FailLoad
<1>3. PICK x : x = [task[o] EXCEPT !.stage = "failed"]
  OBVIOUS
<1>4. x.stage = "failed" /\ task' = [task EXCEPT ![o] = x]
  BY <1>1, <1>2, <1>3 DEF TaskTypes, PoolInv
<1>5. Turns(o, x)
  BY <1>2, <1>4 DEF Turns, Under
<1>6. WholePools(pool')
  BY <1>2 DEF DirInv
<1> QED  BY <1>2, <1>4, <1>5, <1>6, DirKept

LEMMA FinishLoadDirs ==
  ASSUME PoolInv, DirInv, NEW o \in Ops, FinishLoad(o)
  PROVE  DirInv'
<1>1. PICK p, r, x, h : LoadEnds(o, p, r, x, h)
  BY FinishLoadParts
<1>2. /\ task[o].stage = "loading" /\ pool' = [pool EXCEPT ![p] = r] /\ p \in Pools /\ r.whole = pool[p].whole
      /\ task' = [task EXCEPT ![o] = x] /\ UNCHANGED <<plan, filed, dir>>
  BY <1>1 DEF LoadEnds
<1>3. x.stage \in {"done", "failed", "unloading"}
  BY <1>1 DEF LoadEnds
<1>4. WholePools(pool')
  BY <1>2 DEF DirInv, WholePools, PoolInv, Filing
<1>5. Turns(o, x)
  BY <1>2 DEF Turns, Under
<1> QED  BY <1>2, <1>3, <1>4, <1>5, DirKept

LEMMA BeginUnloadDirs ==
  ASSUME PoolInv, DirInv, NEW o \in Ops, BeginUnload(o)
  PROVE  DirInv'
<1>1. PICK s, l, p, m : task' = [task EXCEPT ![o] = [Idle EXCEPT !.stage = s, !.pool = p, !.old = m, !.late = l]]
                        /\ s \in {"failed", "unloading"}
  <2>1. PICK p : p = Found(live[o.model.name], hash[o.model.name])
    OBVIOUS
  <2>2. PICK s : s = IF p = NoPool THEN "failed" ELSE "unloading"
    OBVIOUS
  <2>3. task' = [task EXCEPT ![o] = [Idle EXCEPT !.stage = s, !.pool = p, !.old = live[o.model.name],
                                                 !.late = (p # NoPool /\ pool[p].state = "closed")]]
    BY <2>1, <2>2 DEF BeginUnload
  <2>4. s \in {"failed", "unloading"}
    BY <2>2
  <2> QED  BY <2>3, <2>4
<1>2. PICK x : x = [Idle EXCEPT !.stage = s, !.pool = p, !.old = m, !.late = l]
  OBVIOUS
<1>3. task' = [task EXCEPT ![o] = x] /\ x.stage \in {"failed", "unloading"}
  BY <1>1, <1>2 DEF Idle
<1>4. MayBegin(o) /\ task[o].stage = "idle" /\ UNCHANGED <<plan, filed, pool, dir>>
  BY DEF BeginUnload, MayBegin
<1>5. WholePools(pool') /\ Turns(o, x)
  BY <1>3, <1>4 DEF DirInv, Turns
<1> QED  BY <1>3, <1>4, <1>5, DirKept

LEMMA FinishUnloadDirs ==
  ASSUME PoolInv, DirInv, NEW o \in Ops, FinishUnload(o)
  PROVE  DirInv'
<1>1. PICK p, r, x, key, known, emptied, closes : UnloadEnds(o, p, r, x, key, known, emptied, closes)
  BY FinishUnloadParts
<1>2. /\ task[o].stage = "unloading" /\ \A q \in Pools : pool'[q].whole = pool[q].whole
      /\ task' = [task EXCEPT ![o] = x] /\ UNCHANGED <<plan, filed, dir>>
  <2>1. UnloadKeeps(p)
    BY <1>1 DEF UnloadEnds
  <2> QED  BY <1>1, <2>1 DEF UnloadEnds, UnloadKeeps
<1>3. x.stage = (IF closes THEN "closing" ELSE IF known /\ ~emptied THEN "done" ELSE "failed")
  BY <1>1 DEF UnloadEnds
<1>4. x.stage # "extracting"
  BY <1>3
<1>5. WholePools(pool')
  BY <1>2 DEF DirInv, WholePools
<1>6. Turns(o, x)
  BY <1>2 DEF Turns, Under
<1> QED  BY <1>2, <1>4, <1>5, <1>6, DirKept

LEMMA BeginCloseDirs ==
  ASSUME PoolInv, DirInv, NEW o \in Ops, BeginClose(o)
  PROVE  DirInv'
<1>1. PICK keys : keys = {k \in Keys : filed[k] # NoPool} \cup {DefaultKey}
  OBVIOUS
<1>2. /\ MayBegin(o) /\ task' = [task EXCEPT ![o] = [Idle EXCEPT !.stage = "closing", !.closing = keys]]
      /\ pool' = [p \in Pools |-> IF \E k \in keys : At(k) = p THEN Stopped(pool[p]) ELSE pool[p]]
      /\ UNCHANGED <<plan, filed, dir, live, hash>>
  BY <1>1 DEF BeginClose
<1>3. PICK x : x = [Idle EXCEPT !.stage = "closing", !.closing = keys]
  OBVIOUS
<1>4. x.stage = "closing" /\ task' = [task EXCEPT ![o] = x] /\ task[o].stage = "idle"
  BY <1>2, <1>3 DEF Idle, MayBegin
<1>5. ASSUME NEW p \in Pools
      PROVE  pool'[p].whole
  <2>1. pool[p] \in PoolTypes /\ pool[p].whole
    BY DEF PoolInv, Filing, DirInv, WholePools
  <2>2. pool'[p] = Stopped(pool[p]) \/ pool'[p] = pool[p]
    BY <1>2
  <2> QED  BY <2>1, <2>2, StoppedPool
<1>6. WholePools(pool') /\ Turns(o, x)
  BY <1>2, <1>4, <1>5 DEF WholePools, Turns
<1> QED  BY <1>2, <1>4, <1>6, DirKept

(* Closing takes the pool out of _pools and deletes its directory at once.   *)
LEMMA FinishCloseDirs ==
  ASSUME PoolInv, DirInv, NEW o \in Ops, NEW k \in task[o].closing, FinishClose(o, k)
  PROVE  DirInv'
<1>1. task[o] \in TaskTypes /\ TaskShape(o, task[o], MadeOf(pool), plan.ops)
  BY TaskOf
<1>2. k \in Keys /\ task[o].stage # "idle"
  BY <1>1 DEF TaskTypes, TaskShape
<1>3. PICK p, gone, rest : /\ p = filed[k] /\ gone = (k # DefaultKey /\ p = NoPool) /\ rest = task[o].closing \ {k}
                           /\ gone \in BOOLEAN
  OBVIOUS
<1>4. PICK x : x = [task[o] EXCEPT !.closing = rest,
                                   !.stage = IF gone \/ @ = "failed" THEN "failed" ELSE IF rest = {} THEN "done" ELSE @]
  OBVIOUS
<1>5. /\ task' = [task EXCEPT ![o].closing = rest,
                              ![o].stage = IF gone \/ @ = "failed" THEN "failed" ELSE IF rest = {} THEN "done" ELSE @]
      /\ filed' = [filed EXCEPT ![k] = NoPool]
      /\ pool' = IF p = NoPool THEN pool ELSE [pool EXCEPT ![p].env = FALSE]
      /\ dir' = IF gone THEN dir ELSE [dir EXCEPT ![k] = "absent"]
      /\ UNCHANGED plan
  BY <1>3, Zenon DEF FinishClose
<1>6. task' = [task EXCEPT ![o] = x] /\ \A q \in Ops : task'[q] = IF q = o THEN x ELSE task[q]
  BY <1>4, <1>5 DEF PoolInv, TaskTypes
<1>7. x.stage = IF gone \/ task[o].stage = "failed" THEN "failed" ELSE IF rest = {} THEN "done" ELSE task[o].stage
  BY <1>1, <1>4 DEF TaskTypes
<1>8. filed \in [Keys -> Pools \cup {NoPool}] /\ dir \in [Keys -> {"absent", "partial", "whole"}]
      /\ pool \in [Pools -> PoolTypes] /\ DefaultKey[1] \notin Tarballs
  BY AbsentAssumption DEF PoolInv, Filing, DefaultKey
<1>9. WholePools(pool')
  <2>1. CASE p = NoPool
    BY <1>5, <2>1 DEF DirInv
  <2>2. CASE p # NoPool
    <3>1. p \in Pools /\ pool' = [pool EXCEPT ![p].env = FALSE]
      BY <1>2, <1>3, <1>5, <1>8, <2>2
    <3>2. PICK r : r = [pool[p] EXCEPT !.env = FALSE]
      OBVIOUS
    <3>3. pool' = [pool EXCEPT ![p] = r] /\ r.whole = pool[p].whole
      BY <1>8, <3>1, <3>2 DEF PoolTypes
    <3> QED  BY <1>8, <3>1, <3>3 DEF DirInv, WholePools
  <2> QED  BY <2>1, <2>2
<1>10. Turns(o, x)
  <2>1. Under(task[o]) \/ ~Under(x)
    <3>1. task[o].stage \in {"failed", "done"} => x.stage \in {"failed", "done"}
      BY <1>7
    <3> QED  BY <1>2, <3>1 DEF Under
  <2> QED  BY <1>5, <1>6, <2>1 DEF Turns
<1>11. RunsApart(task', plan')
  BY <1>10, TurnsApart DEF DirInv
<1>12. task[o].stage # "extracting" /\ (task[o].stage = "failed" => x.stage = "failed")
  BY <1>1, <1>7 DEF TaskShape, Loading
<1>13. ASSUME NEW j \in Keys
       PROVE  /\ dir'[j] = "partial" => dir[j] = "partial"
              /\ dir[j] = "partial" => dir'[j] = "partial"
              /\ IF j[1] \in Tarballs THEN (filed'[j] # NoPool) <=> (dir'[j] = "whole") ELSE dir'[j] = "absent"
  <2>1. IF j[1] \in Tarballs THEN (filed[j] # NoPool) <=> (dir[j] = "whole") ELSE dir[j] = "absent"
    BY DEF DirInv, DirShape
  <2>2. CASE gone
    <3>1. k # DefaultKey /\ filed[k] = NoPool /\ dir' = dir
      BY <1>3, <1>5, <2>2
    <3>2. filed' = filed
      BY <1>5, <1>8, <3>1
    <3> QED  BY <2>1, <3>1, <3>2
  <2>3. CASE ~gone
    <3>1. dir' = [dir EXCEPT ![k] = "absent"] /\ (k = DefaultKey \/ filed[k] # NoPool)
      BY <1>3, <1>5, <2>3
    <3>2. j # k => filed'[j] = filed[j] /\ dir'[j] = dir[j]
      BY <1>5, <1>8, <3>1
    <3>3. filed'[k] = NoPool /\ dir'[k] = "absent"
      BY <1>2, <1>5, <1>8, <3>1
    <3>4. j = k => dir[j] # "partial"
      BY <1>8, <2>1, <3>1
    <3> QED  BY <2>1, <3>2, <3>3, <3>4
  <2> QED  BY <2>2, <2>3
<1>14. DirShape(dir', filed')
  BY <1>13 DEF DirShape
<1>15. ASSUME NEW q \in Ops, task'[q].stage = "extracting"
       PROVE  dir'[KeyOf(q.model)] = "partial"
  <2>1. q # o /\ KeyOf(q.model) \in Keys
    <3>1. x.stage # "extracting"
      BY <1>7, <1>12
    <3> QED  BY <1>6, <1>15, <3>1, OpsTyping, Absent
  <2>2. dir[KeyOf(q.model)] = "partial"
    BY <1>6, <1>15, <2>1 DEF DirInv, PartialShape
  <2> QED  BY <1>13, <2>1, <2>2
<1>16. ASSUME NEW j \in Keys, dir'[j] = "partial"
       PROVE  \E q \in Ops : Extracts(q, task'[q], j, plan'.failures)
  <2>1. PICK q \in Ops : Extracts(q, task[q], j, plan.failures)
    BY <1>13, <1>16 DEF DirInv, PartialShape
  <2>2. Extracts(q, task'[q], j, plan'.failures)
    BY <1>5, <1>6, <1>12, <2>1 DEF Extracts
  <2> QED  BY <2>2
<1>17. PartialShape(dir', task', plan'.failures)
  BY <1>15, <1>16 DEF PartialShape
<1> QED  BY <1>9, <1>11, <1>14, <1>17 DEF DirInv

LEMMA DirStep ==
  ASSUME OwnTarballs
  PROVE  PoolInv /\ DirInv /\ [Next]_vars => DirInv'
<1> SUFFICES ASSUME PoolInv, DirInv, [Next]_vars PROVE DirInv'
  OBVIOUS
<1>1. CASE UNCHANGED vars
  BY <1>1 DEF DirInv, vars
<1>2. CASE Next
  BY <1>2, BeginLoadDirs, FinishHashDirs, FinishExtractDirs, FailDirs, FinishLoadDirs, BeginUnloadDirs,
     FinishUnloadDirs, BeginCloseDirs, FinishCloseDirs DEF Next
<1> QED  BY <1>1, <1>2

(* The directory of an environment is there, whole, as long as its pool is,  *)
(* and goes with it, where every tarball is extracted for one operation at  *)
(* a time and no extraction fails that another operation would make again.  *)
THEOREM DirectoryOfPool == OwnTarballs => (Spec => []DirFollowsPool)
<1> SUFFICES ASSUME OwnTarballs PROVE Spec => []DirFollowsPool
  OBVIOUS
<1>1. PoolInv /\ DirInv => DirFollowsPool
  <2> SUFFICES ASSUME PoolInv, DirInv, NEW k \in Keys
               PROVE  /\ filed[k] # NoPool /\ pool[filed[k]].state = "open" /\ k[1] \in Tarballs => dir[k] = "whole"
                      /\ Quiet /\ ~Failed /\ dir[k] # "absent" => filed[k] # NoPool
    BY DEF DirFollowsPool
  <2>1. IF k[1] \in Tarballs THEN (filed[k] # NoPool) <=> (dir[k] = "whole") ELSE dir[k] = "absent"
    BY DEF DirInv, DirShape
  <2>2. ASSUME Quiet, ~Failed PROVE dir[k] # "partial"
    <3> SUFFICES ASSUME dir[k] = "partial" PROVE FALSE
      OBVIOUS
    <3>1. PICK o \in Ops : Extracts(o, task[o], k, plan.failures)
      BY DEF DirInv, PartialShape
    <3> QED  BY <2>2, <3>1 DEF Extracts, Quiet, Failed, Running
  <2>3. dir[k] \in {"absent", "partial", "whole"}
    BY DEF PoolInv
  <2> QED  BY <2>1, <2>2, <2>3
<1> QED  BY PoolInit, PoolStep, DirInit, DirStep, <1>1, PTL DEF Spec

(* Under the same condition the workers of a pool start in an environment    *)
(* that has been extracted to the end.                                      *)
THEOREM EnvironmentsWhole == OwnTarballs => (Spec => []EnvExtracted)
<1> SUFFICES ASSUME OwnTarballs PROVE Spec => []EnvExtracted
  OBVIOUS
<1>1. DirInv => EnvExtracted
  BY DEF DirInv, WholePools, EnvExtracted
<1> QED  BY PoolInit, PoolStep, DirInit, DirStep, <1>1, PTL DEF Spec

-----------------------------------------------------------------------------
(* Where models are. *)

Loads(o) == o.kind \in {"load", "reload"}
Leaves(o) == o.kind \in {"reload", "unload"}

(* Where operations overlap, a model that shares a pool, other than the      *)
(* default one, with another stays in it, and the pool is not made over a   *)
(* tarball: a pool is closed while others load into it, and one that is     *)
(* made takes the place of another made at the same time.                   *)
SharersStay ==
  \A p \in Plans : p.serial \/ \A o, q \in p.ops :
    Loads(o) /\ Loads(q) /\ o.model.name # q.model.name /\ KeyOf(o.model) = KeyOf(q.model) /\ KeyOf(o.model) # DefaultKey
    => o.model.env \notin Tarballs /\ \A r \in p.ops : Leaves(r) => r.model.name \notin {o.model.name, q.model.name}

(* Of _pools f and the pools ps: the pool of a key, whether s is in the pool *)
(* it belongs to, and the hash of a model loaded with s.                    *)
AtIn(f, k) == IF k = DefaultKey THEN DefaultPool ELSE f[k]
HomeIn(f, ps, s) ==
  LET p == AtIn(f, KeyOf(s)) IN
  p # NoPool /\ ps[p].state = "open" /\ s \in ps[p].workers /\ s.name \in ps[p].models
HashOf(s) == IF HasEnv(KeyOf(s)) THEN KeyOf(s) ELSE NoHash
Planned(n, s, ops) == s \in Settings /\ s.name = n /\ \E o \in ops : Loads(o) /\ o.model = s

(* A pool that is filed has its Environment until it is taken out, ...      *)
KeysOK(f, ps) == \A k \in Keys : AtIn(f, k) # NoPool => ps[AtIn(f, k)].env = HasEnv(k)
(* ... and one that is closed is about to be taken out.                     *)
ClosedOK(f, ps, ts) ==
  \A k \in Keys : f[k] # NoPool /\ ps[f[k]].state = "closed" =>
    \E o \in Ops : ts[o].stage = "closing" /\ ts[o].closing = {k}

(* A model the registry has is at home, until a reload's unload of it closes *)
(* its pool.                                                                *)
LiveOK(n, l, h, f, ps, ts, ops) ==
  l[n] # NoSettings =>
    /\ Planned(n, l[n], ops) /\ h[n] = HashOf(l[n])
    /\ HomeIn(f, ps, l[n]) \/ \E o \in Ops : o.model.name = n /\ ts[o].stage = "closing"

(* What an operation relies on while it waits.                              *)
EntersOK(o, t, f, ps, l, h) ==
  /\ Loading(t) /\ o.kind = "reload" => t.old = l[o.model.name] /\ t.oldHash = h[o.model.name]
  /\ t.stage = "loading" => /\ t.pool = AtIn(f, KeyOf(o.model)) /\ t.pool # NoPool
                            /\ ps[t.pool].state = "open" /\ t.late = FALSE
  /\ t.stage = "extracting" => f[KeyOf(o.model)] = NoPool
LeavesOK(o, t, f, ps, l, ops) ==
  /\ t.stage \in {"unloading", "closing"} =>
       /\ Leaves(o) /\ Planned(o.model.name, t.old, ops)
       /\ o.kind = "unload" => l[o.model.name] = NoSettings
       /\ o.kind = "reload" => /\ HomeIn(f, ps, o.model) /\ t.hash = HashOf(o.model)
                               /\ KeyOf(o.model) # KeyOf(t.old)
  /\ t.stage = "unloading" => t.pool = AtIn(f, KeyOf(t.old)) /\ t.late = FALSE /\ HomeIn(f, ps, t.old)
  /\ t.stage = "closing" => /\ t.closing = {KeyOf(t.old)} /\ KeyOf(t.old) # DefaultKey /\ f[KeyOf(t.old)] # NoPool
                            /\ ps[f[KeyOf(t.old)]].state = "closed" /\ ps[f[KeyOf(t.old)]].models = {}

Calm ==
  /\ KeysOK(filed, pool) /\ pool[DefaultPool].state = "open"
  /\ ClosedOK(filed, pool, task)
  /\ \A n \in Names : LiveOK(n, live, hash, filed, pool, task, plan.ops)
  /\ \A o \in Ops : EntersOK(o, task[o], filed, pool, live, hash) /\ LeavesOK(o, task[o], filed, pool, live, plan.ops)
FoundInv == RunsApart(task, plan) /\ (~Closed => Calm)

LEMMA FoundInit == Init => FoundInv
<1> SUFFICES ASSUME Init PROVE FoundInv
  OBVIOUS
<1>1. /\ filed = [k \in Keys |-> NoPool] /\ task = [o \in Ops |-> Idle]
      /\ pool = [p \in Pools |-> IF p = DefaultPool THEN [Unmade EXCEPT !.state = "open"] ELSE Unmade]
      /\ live = [n \in Names |-> NoSettings]
  BY DEF Init
<1>2. /\ Idle.stage = "idle"
      /\ [Unmade EXCEPT !.state = "open"].state = "open" /\ [Unmade EXCEPT !.state = "open"].env = FALSE
  BY DEF Idle, Unmade
<1>3. pool[DefaultPool] = [Unmade EXCEPT !.state = "open"] /\ ~HasEnv(DefaultKey) /\ HasEnv(DefaultKey) = FALSE
  BY <1>1, Absent DEF HasEnv, DefaultKey
<1>4. KeysOK(filed, pool)
  BY <1>1, <1>2, <1>3 DEF KeysOK, AtIn
<1>5. ClosedOK(filed, pool, task)
  BY <1>1 DEF ClosedOK
<1>6. \A n \in Names : LiveOK(n, live, hash, filed, pool, task, plan.ops)
  BY <1>1 DEF LiveOK
<1>7. \A o \in Ops : EntersOK(o, task[o], filed, pool, live, hash) /\ LeavesOK(o, task[o], filed, pool, live, plan.ops)
  BY <1>1, <1>2 DEF EntersOK, LeavesOK, Loading
<1>8. RunsApart(task, plan)
  BY <1>1, <1>2 DEF RunsApart, Under
<1> QED  BY <1>2, <1>3, <1>4, <1>5, <1>6, <1>7, <1>8 DEF FoundInv, Calm

(* What a step of operation o to x leaves to the others, ...                *)
Stands(q, t, f, ps, g, qs) ==
  /\ t.stage = "loading" => AtIn(g, KeyOf(q.model)) = AtIn(f, KeyOf(q.model)) /\ qs[t.pool].state = "open"
  /\ t.stage = "extracting" => g[KeyOf(q.model)] = NoPool
  /\ t.stage = "unloading" => AtIn(g, KeyOf(t.old)) = AtIn(f, KeyOf(t.old))
  /\ t.stage = "closing" => /\ g[KeyOf(t.old)] = f[KeyOf(t.old)]
                            /\ qs[f[KeyOf(t.old)]].state = "closed" /\ qs[f[KeyOf(t.old)]].models = {}
HomesStay(n, f, ps, g, qs) == \A s \in Settings : s.name # n /\ HomeIn(f, ps, s) => HomeIn(g, qs, s)
Others(o, f, ps, ts, g, qs) ==
  /\ KeysOK(g, qs) /\ qs[DefaultPool].state = "open"
  /\ HomesStay(o.model.name, f, ps, g, qs)
  /\ \A q \in Ops : q # o => Stands(q, ts[q], f, ps, g, qs)
OnlyOwn(n, l, h, ll, hh) == \A m \in Names : m # n => ll[m] = l[m] /\ hh[m] = h[m]

(* ... and has for itself.                                                  *)
Own(o, x, f, ps, l, h, ts, ops) ==
  /\ EntersOK(o, x, f, ps, l, h) /\ LeavesOK(o, x, f, ps, l, ops)
  /\ LiveOK(o.model.name, l, h, f, ps, ts, ops)
  /\ ClosedOK(f, ps, ts)

LEMMA CalmKept ==
  ASSUME PoolInv, RunsApart(task, plan), Calm, NEW o \in Ops, NEW x, Turns(o, x), Under(task[o]) \/ MayBegin(o),
         Others(o, filed, pool, task, filed', pool'), OnlyOwn(o.model.name, live, hash, live', hash'),
         Own(o, x, filed', pool', live', hash', task', plan.ops)
  PROVE  Calm'
<1>1. plan' = plan /\ \A q \in Ops : task'[q] = IF q = o THEN x ELSE task[q]
  BY DEF Turns, PoolInv
<1>2. KeysOK(filed', pool') /\ pool'[DefaultPool].state = "open" /\ ClosedOK(filed', pool', task')
  BY DEF Others, Own
<1>3. ASSUME NEW n \in Names
      PROVE  LiveOK(n, live', hash', filed', pool', task', plan.ops)
  <2>1. CASE n = o.model.name
    BY <2>1 DEF Own
  <2>2. CASE n # o.model.name
    <3>1. live'[n] = live[n] /\ hash'[n] = hash[n]
      BY <2>2 DEF OnlyOwn
    <3>2. LiveOK(n, live, hash, filed, pool, task, plan.ops)
      BY DEF Calm
    <3>3. ASSUME live[n] # NoSettings
          PROVE  /\ Planned(n, live[n], plan.ops) /\ hash[n] = HashOf(live[n])
                 /\ HomeIn(filed', pool', live[n]) \/ \E q \in Ops : q.model.name = n /\ task'[q].stage = "closing"
      <4>1. Planned(n, live[n], plan.ops) /\ hash[n] = HashOf(live[n])
        BY <3>2, <3>3 DEF LiveOK
      <4>2. CASE HomeIn(filed, pool, live[n])
        <5>1. live[n] \in Settings /\ live[n].name = n
          BY <4>1 DEF Planned
        <5> QED  BY <2>2, <4>1, <4>2, <5>1 DEF Others, HomesStay
      <4>3. CASE \E q \in Ops : q.model.name = n /\ task[q].stage = "closing"
        <5>1. PICK q \in Ops : q.model.name = n /\ task[q].stage = "closing"
          BY <4>3
        <5>2. q # o /\ task'[q] = task[q]
          BY <1>1, <2>2, <5>1
        <5> QED  BY <4>1, <5>1, <5>2
      <4> QED  BY <3>2, <3>3, <4>2, <4>3 DEF LiveOK
    <3> QED  BY <3>1, <3>3 DEF LiveOK
  <2> QED  BY <2>1, <2>2
<1>4. ASSUME NEW q \in Ops
      PROVE  EntersOK(q, task'[q], filed', pool', live', hash') /\ LeavesOK(q, task'[q], filed', pool', live', plan.ops)
  <2>1. CASE q = o
    BY <1>1, <2>1 DEF Own
  <2>2. CASE q # o
    <3>1. task'[q] = task[q] /\ Stands(q, task[q], filed, pool, filed', pool')
      BY <1>1, <2>2 DEF Others
    <3>2. EntersOK(q, task[q], filed, pool, live, hash) /\ LeavesOK(q, task[q], filed, pool, live, plan.ops)
      BY DEF Calm
    <3>3. q.model.name \in Names /\ q.model \in Settings
      BY OpsTyping, Absent
    <3>4. Under(task[q]) => q.model.name # o.model.name
      <4>1. CASE Under(task[o])
        BY <2>2, <4>1 DEF RunsApart
      <4>2. CASE MayBegin(o)
        BY <4>2 DEF MayBegin, Running, Under
      <4> QED  BY <4>1, <4>2
    <3>5. Under(task[q]) => live'[q.model.name] = live[q.model.name] /\ hash'[q.model.name] = hash[q.model.name]
      BY <3>3, <3>4 DEF OnlyOwn
    <3>6. EntersOK(q, task[q], filed', pool', live', hash')
      <4>1. Loading(task[q]) => Under(task[q])
        BY DEF Loading, Under
      <4> QED  BY <3>1, <3>2, <3>5, <4>1 DEF EntersOK, Stands
    <3>7. LeavesOK(q, task[q], filed', pool', live', plan.ops)
      <4>1. task[q].stage \in {"unloading", "closing"} => Under(task[q])
        BY DEF Under
      <4>2. task[q].stage \in {"unloading", "closing"} /\ q.kind = "reload" => HomeIn(filed', pool', q.model)
        BY <3>2, <3>3, <3>4, <4>1 DEF LeavesOK, Others, HomesStay
      <4>3. task[q].stage = "unloading" => HomeIn(filed', pool', task[q].old)
        <5>1. ASSUME task[q].stage = "unloading"
              PROVE  task[q].old \in Settings /\ task[q].old.name = q.model.name /\ HomeIn(filed, pool, task[q].old)
          BY <3>2, <5>1 DEF LeavesOK, Planned
        <5> QED  BY <3>4, <4>1, <5>1 DEF Others, HomesStay
      <4> QED  BY <3>1, <3>2, <3>5, <4>1, <4>2, <4>3 DEF LeavesOK, Stands
    <3> QED  BY <3>1, <3>6, <3>7
  <2> QED  BY <2>1, <2>2
<1> QED  BY <1>1, <1>2, <1>3, <1>4 DEF Calm

(* Of two operations under way, or one that begins.                         *)
LEMMA Differ ==
  ASSUME RunsApart(task, plan), NEW o \in Ops, Under(task[o]) \/ MayBegin(o), NEW q \in Ops, q # o, Under(task[q])
  PROVE  o.model.name # q.model.name /\ ~plan.serial
<1>1. CASE Under(task[o])
  BY <1>1 DEF RunsApart
<1>2. CASE MayBegin(o)
  BY <1>2 DEF MayBegin, Running, Under
<1> QED  BY <1>1, <1>2

(* What SharersStay says: nobody who leaves a pool shares it, ...           *)
LEMMA LeavesAlone ==
  ASSUME SharersStay, PoolInv, ~plan.serial, NEW o \in plan.ops, Leaves(o), NEW m, m # o.model.name,
         NEW s, Planned(o.model.name, s, plan.ops), NEW u, Planned(m, u, plan.ops),
         KeyOf(s) = KeyOf(u), KeyOf(s) # DefaultKey
  PROVE  FALSE
<1>1. PICK a \in plan.ops : Loads(a) /\ a.model = s /\ a.model.name = o.model.name
  BY DEF Planned
<1>2. PICK b \in plan.ops : Loads(b) /\ b.model = u /\ b.model.name = m
  BY DEF Planned
<1>3. plan \in Plans
  BY DEF PoolInv
<1> QED  BY <1>1, <1>2, <1>3 DEF SharersStay

(* ... and nobody a pool over a tarball.                                    *)
LEMMA TarballAlone ==
  ASSUME SharersStay, PoolInv, ~plan.serial, NEW o \in plan.ops, Loads(o), NEW q \in plan.ops, Loads(q),
         o.model.name # q.model.name, KeyOf(o.model) = KeyOf(q.model), o.model.env \in Tarballs
  PROVE  FALSE
<1>1. KeyOf(o.model) # DefaultKey
  BY AbsentAssumption DEF KeyOf, DefaultKey
<1>2. plan \in Plans
  BY DEF PoolInv
<1> QED  BY <1>1, <1>2 DEF SharersStay

(* So a load finds its pool open.                                           *)
LEMMA OpenToLoads ==
  ASSUME SharersStay, PoolInv, RunsApart(task, plan), Calm, NEW o \in Ops, Under(task[o]) \/ MayBegin(o),
         Loads(o), ~Under(task[o]) \/ Loading(task[o]), AtIn(filed, KeyOf(o.model)) # NoPool
  PROVE  pool[AtIn(filed, KeyOf(o.model))].state = "open"
<1> DEFINE k == KeyOf(o.model)
<1>1. k \in Keys /\ o.model \in Settings /\ o \in plan.ops
  BY OpsTyping, Absent DEF PoolInv, TaskShape, Under, MayBegin
<1>2. CASE k = DefaultKey
  BY <1>2 DEF Calm, AtIn
<1>3. CASE k # DefaultKey
  <2> SUFFICES ASSUME pool[filed[k]].state # "open" PROVE FALSE
    BY <1>3 DEF AtIn
  <2>1. filed[k] # NoPool
    BY <1>3 DEF AtIn
  <2>2. filed[k] \in Pools /\ pool[filed[k]].state # "unmade" /\ pool[filed[k]] \in PoolTypes
    BY <1>1, <2>1 DEF PoolInv, Filing
  <2>3. pool[filed[k]].state = "closed"
    BY <2>2 DEF PoolTypes
  <2>4. PICK c \in Ops : task[c].stage = "closing" /\ task[c].closing = {k}
    BY <1>1, <2>1, <2>3 DEF Calm, ClosedOK
  <2>5. /\ Leaves(c) /\ Planned(c.model.name, task[c].old, plan.ops) /\ k = KeyOf(task[c].old) /\ c \in plan.ops
    BY <2>4 DEF Calm, LeavesOK, PoolInv, TaskShape
  <2>6. c # o /\ Under(task[c])
    BY <2>4 DEF Loading, Under
  <2>7. o.model.name # c.model.name /\ ~plan.serial
    BY <2>6, Differ
  <2>8. Planned(o.model.name, o.model, plan.ops)
    BY <1>1 DEF Planned
  <2> HIDE DEF k
  <2> QED  BY <1>3, <2>5, <2>7, <2>8, LeavesAlone DEF k
<1> QED  BY <1>2, <1>3

(* A step that changes, in an open pool, what there is of its own name.     *)
LEMMA PlainOthers ==
  ASSUME PoolInv, Calm, NEW o \in Ops, NEW p \in Pools, pool[p].state = "open", NEW r \in PoolTypes,
         filed' = filed, pool' = [pool EXCEPT ![p] = r], r.state = "open", r.env = pool[p].env,
         \A w \in pool[p].workers : w.name # o.model.name => w \in r.workers,
         \A m \in pool[p].models : m # o.model.name => m \in r.models
  PROVE  Others(o, filed, pool, task, filed', pool')
<1>1. pool \in [Pools -> PoolTypes] /\ \A q \in Pools : pool'[q] = IF q = p THEN r ELSE pool[q]
  BY DEF PoolInv, Filing
<1>2. \A k \in Keys : AtIn(filed, k) # NoPool => AtIn(filed, k) \in Pools
  BY Absent DEF PoolInv, Filing, AtIn
<1>3. \A q \in Pools : pool'[q].state = pool[q].state /\ pool'[q].env = pool[q].env
  BY <1>1
<1>4. KeysOK(filed', pool')
  BY <1>2, <1>3 DEF Calm, KeysOK
<1>5. pool'[DefaultPool].state = "open"
  BY <1>3, Absent DEF Calm
<1>6. HomesStay(o.model.name, filed, pool, filed', pool')
  <2> SUFFICES ASSUME NEW s \in Settings, s.name # o.model.name, HomeIn(filed, pool, s)
               PROVE  HomeIn(filed', pool', s)
    BY DEF HomesStay
  <2>1. PICK a : a = AtIn(filed, KeyOf(s))
    OBVIOUS
  <2>2. a # NoPool /\ a \in Pools /\ pool[a].state = "open" /\ s \in pool[a].workers /\ s.name \in pool[a].models
    BY <1>2, <2>1, Absent DEF HomeIn
  <2>3. pool'[a].state = "open" /\ s \in pool'[a].workers /\ s.name \in pool'[a].models
    BY <1>1, <2>2
  <2> QED  BY <2>1, <2>2, <2>3 DEF HomeIn
<1>7. ASSUME NEW q \in Ops, q # o
      PROVE  Stands(q, task[q], filed, pool, filed', pool')
  <2>1. EntersOK(q, task[q], filed, pool, live, hash) /\ LeavesOK(q, task[q], filed, pool, live, plan.ops)
    BY DEF Calm
  <2>2. task[q].stage = "loading" => pool'[task[q].pool].state = "open"
    <3>1. task[q].stage = "loading" => task[q].pool \in Pools
      BY DEF PoolInv, TaskShape, MadeOf
    <3> QED  BY <1>3, <2>1, <3>1 DEF EntersOK
  <2>3. task[q].stage = "closing" => /\ pool'[filed[KeyOf(task[q].old)]].state = "closed"
                                     /\ pool'[filed[KeyOf(task[q].old)]].models = {}
    <3> SUFFICES ASSUME task[q].stage = "closing"
                 PROVE  /\ pool'[filed[KeyOf(task[q].old)]].state = "closed"
                        /\ pool'[filed[KeyOf(task[q].old)]].models = {}
      OBVIOUS
    <3>1. PICK a : a = filed[KeyOf(task[q].old)]
      OBVIOUS
    <3>2. a # NoPool /\ pool[a].state = "closed" /\ pool[a].models = {} /\ task[q].old \in Settings
      BY <2>1, <3>1 DEF LeavesOK, Planned
    <3>3. a \in Pools
      BY <3>1, <3>2, Absent DEF PoolInv, Filing
    <3> QED  BY <1>1, <3>1, <3>2, <3>3
  <2> QED  BY <2>1, <2>2, <2>3 DEF Stands, EntersOK, LeavesOK
<1> QED  BY <1>4, <1>5, <1>6, <1>7 DEF Others

(* A step that makes a pool where none is filed.                            *)
LEMMA MakeOthers ==
  ASSUME SharersStay, PoolInv, RunsApart(task, plan), Calm, NEW o \in Ops, Under(task[o]) \/ MayBegin(o),
         Loads(o), o \in plan.ops, NEW k \in Keys, k = KeyOf(o.model), k # DefaultKey, filed[k] = NoPool,
         NEW p \in Pools, pool[p].state = "unmade", NEW r \in PoolTypes, r.state = "open", r.env = HasEnv(k),
         filed' = [filed EXCEPT ![k] = p], pool' = [pool EXCEPT ![p] = r]
  PROVE  Others(o, filed, pool, task, filed', pool')
<1>1. /\ \A q \in Pools : pool'[q] = IF q = p THEN r ELSE pool[q]
      /\ \A j \in Keys : filed'[j] = IF j = k THEN p ELSE filed[j]
      /\ p # NoPool /\ p # DefaultPool /\ DefaultPool \in Pools
      /\ \A j \in Keys : filed[j] # NoPool => filed[j] \in Pools /\ filed[j] # p
  BY Absent DEF PoolInv, Filing
<1>2. \A j \in Keys : /\ AtIn(filed', j) = IF j = k THEN p ELSE AtIn(filed, j)
                      /\ AtIn(filed, j) # NoPool => j # k /\ AtIn(filed, j) \in Pools /\ AtIn(filed, j) # p
  BY <1>1 DEF AtIn
<1>3. KeysOK(filed', pool')
  <2> SUFFICES ASSUME NEW j \in Keys, AtIn(filed', j) # NoPool
               PROVE  pool'[AtIn(filed', j)].env = HasEnv(j)
    BY DEF KeysOK
  <2>1. CASE j = k
    BY <1>1, <1>2, <2>1
  <2>2. CASE j # k
    BY <1>1, <1>2, <2>2 DEF Calm, KeysOK
  <2> QED  BY <2>1, <2>2
<1>4. pool'[DefaultPool].state = "open"
  BY <1>1 DEF Calm
<1>5. HomesStay(o.model.name, filed, pool, filed', pool')
  <2> SUFFICES ASSUME NEW s \in Settings, s.name # o.model.name, HomeIn(filed, pool, s)
               PROVE  HomeIn(filed', pool', s)
    BY DEF HomesStay
  <2>1. PICK a : a = AtIn(filed, KeyOf(s))
    OBVIOUS
  <2>2. a # NoPool /\ a \in Pools /\ a # p /\ AtIn(filed', KeyOf(s)) = a
    BY <1>2, <2>1, Absent DEF HomeIn
  <2> QED  BY <1>1, <2>1, <2>2 DEF HomeIn
<1>6. ASSUME NEW q \in Ops, q # o
      PROVE  Stands(q, task[q], filed, pool, filed', pool')
  <2>1. /\ EntersOK(q, task[q], filed, pool, live, hash) /\ LeavesOK(q, task[q], filed, pool, live, plan.ops)
        /\ KeyOf(q.model) \in Keys
    BY TaskOf DEF Calm
  <2>2. ASSUME task[q].stage = "loading"
        PROVE  AtIn(filed', KeyOf(q.model)) = AtIn(filed, KeyOf(q.model)) /\ pool'[task[q].pool].state = "open"
    <3>1. task[q].pool = AtIn(filed, KeyOf(q.model)) /\ task[q].pool # NoPool /\ pool[task[q].pool].state = "open"
      BY <2>1, <2>2 DEF EntersOK
    <3> QED  BY <1>1, <1>2, <2>1, <3>1
  <2>3. ASSUME task[q].stage = "extracting"
        PROVE  filed'[KeyOf(q.model)] = NoPool
    <3>1. filed[KeyOf(q.model)] = NoPool
      BY <2>1, <2>3 DEF EntersOK
    <3>2. q \in plan.ops /\ Loads(q) /\ q.model.env \in Tarballs
      BY <2>3 DEF PoolInv, TaskShape, Loading, Loads
    <3>3. o.model.name # q.model.name /\ ~plan.serial
      <4>1. Under(task[q])
        BY <2>3 DEF Under
      <4> QED  BY <1>6, <4>1, Differ
    <3>4. KeyOf(q.model) # KeyOf(o.model)
      BY <3>2, <3>3, TarballAlone
    <3> QED  BY <1>1, <2>1, <3>1, <3>4
  <2>4. ASSUME task[q].stage = "unloading"
        PROVE  AtIn(filed', KeyOf(task[q].old)) = AtIn(filed, KeyOf(task[q].old))
    <3>1. task[q].old \in Settings /\ AtIn(filed, KeyOf(task[q].old)) # NoPool
      BY <2>1, <2>4 DEF LeavesOK, Planned, HomeIn
    <3> QED  BY <1>2, <3>1, Absent
  <2>5. ASSUME task[q].stage = "closing"
        PROVE  /\ filed'[KeyOf(task[q].old)] = filed[KeyOf(task[q].old)]
               /\ pool'[filed[KeyOf(task[q].old)]].state = "closed"
               /\ pool'[filed[KeyOf(task[q].old)]].models = {}
    <3>1. PICK j : j = KeyOf(task[q].old)
      OBVIOUS
    <3>2. j \in Keys /\ filed[j] # NoPool /\ pool[filed[j]].state = "closed" /\ pool[filed[j]].models = {}
      BY <2>1, <2>5, <3>1, Absent DEF LeavesOK, Planned
    <3> QED  BY <1>1, <3>1, <3>2
  <2> QED  BY <2>2, <2>3, <2>4, <2>5 DEF Stands
<1> QED  BY <1>3, <1>4, <1>5, <1>6 DEF Others

(* A step that closes a pool whose last model leaves it.                    *)
LEMMA StopOthers ==
  ASSUME SharersStay, PoolInv, RunsApart(task, plan), Calm, NEW o \in Ops, task[o].stage = "unloading",
         NEW p \in Pools, p = task[o].pool, p # DefaultPool, pool[p].models \ {o.model.name} = {},
         NEW r \in PoolTypes, r.state = "closed", r.env = pool[p].env, r.models = {},
         filed' = filed, pool' = [pool EXCEPT ![p] = r]
  PROVE  Others(o, filed, pool, task, filed', pool')
<1> DEFINE k == KeyOf(task[o].old)
<1>1. /\ p = AtIn(filed, k) /\ Leaves(o) /\ Planned(o.model.name, task[o].old, plan.ops)
      /\ task[o].old \in Settings /\ k \in Keys /\ o \in plan.ops
  <2>1. p = AtIn(filed, k) /\ Leaves(o) /\ Planned(o.model.name, task[o].old, plan.ops)
    BY DEF Calm, LeavesOK
  <2> QED  BY <2>1, Absent DEF Planned, PoolInv, TaskShape
<1>2. k # DefaultKey /\ p = filed[k]
  BY <1>1 DEF AtIn
<1>3. /\ \A q \in Pools : pool'[q] = IF q = p THEN r ELSE pool[q]
      /\ \A j \in Keys : AtIn(filed, j) # NoPool => AtIn(filed, j) \in Pools
      /\ \A j \in Keys : AtIn(filed, j) = p => j = k
  <2>1. \A j \in Keys : filed[j] # NoPool => filed[j] \in Pools /\ pool[filed[j]].key = j
    BY DEF PoolInv, Filing
  <2>2. p # NoPool /\ DefaultPool \in Pools
    BY Absent
  <2> QED  BY <1>1, <1>2, <2>1, <2>2 DEF AtIn, PoolInv, Filing
<1>4. KeysOK(filed', pool')
  <2>1. \A q \in Pools : pool'[q].env = pool[q].env
    BY <1>3
  <2> QED  BY <1>3, <2>1 DEF Calm, KeysOK
<1>5. pool'[DefaultPool].state = "open"
  BY <1>3, Absent DEF Calm
<1>6. HomesStay(o.model.name, filed, pool, filed', pool')
  <2> SUFFICES ASSUME NEW s \in Settings, s.name # o.model.name, HomeIn(filed, pool, s)
               PROVE  HomeIn(filed', pool', s)
    BY DEF HomesStay
  <2>1. PICK a : a = AtIn(filed, KeyOf(s))
    OBVIOUS
  <2>2. a # NoPool /\ a \in Pools /\ s.name \in pool[a].models
    BY <1>3, <2>1, Absent DEF HomeIn
  <2>3. a # p
    BY <2>2
  <2> QED  BY <1>3, <2>1, <2>2, <2>3 DEF HomeIn
<1>7. ASSUME NEW q \in Ops, q # o
      PROVE  Stands(q, task[q], filed, pool, filed', pool')
  <2>1. /\ EntersOK(q, task[q], filed, pool, live, hash) /\ LeavesOK(q, task[q], filed, pool, live, plan.ops)
        /\ KeyOf(q.model) \in Keys
    BY TaskOf DEF Calm
  <2>2. ASSUME task[q].stage = "loading"
        PROVE  pool'[task[q].pool].state = "open"
    <3>1. task[q].pool = AtIn(filed, KeyOf(q.model)) /\ task[q].pool # NoPool /\ pool[task[q].pool].state = "open"
      BY <2>1, <2>2 DEF EntersOK
    <3>2. task[q].pool # p
      <4> SUFFICES ASSUME task[q].pool = p PROVE FALSE
        OBVIOUS
      <4>1. KeyOf(q.model) = k
        BY <1>3, <2>1, <3>1
      <4>2. q \in plan.ops /\ Loads(q)
        BY <2>2 DEF PoolInv, TaskShape, Loading, Loads
      <4>3. Planned(q.model.name, q.model, plan.ops)
        BY <4>2, OpsTyping DEF Planned
      <4>4. o.model.name # q.model.name /\ ~plan.serial
        BY <2>2, Differ DEF Under
      <4> HIDE DEF k
      <4> QED  BY <1>1, <1>2, <4>1, <4>3, <4>4, LeavesAlone DEF k
    <3> QED  BY <1>3, <2>1, <3>1, <3>2
  <2>3. ASSUME task[q].stage = "closing"
        PROVE  /\ pool'[filed[KeyOf(task[q].old)]].state = "closed"
               /\ pool'[filed[KeyOf(task[q].old)]].models = {}
    <3>1. PICK j : j = KeyOf(task[q].old)
      OBVIOUS
    <3>2. j \in Keys /\ filed[j] # NoPool /\ pool[filed[j]].state = "closed" /\ pool[filed[j]].models = {}
      BY <2>1, <2>3, <3>1, Absent DEF LeavesOK, Planned
    <3>3. filed[j] \in Pools
      BY <3>2 DEF PoolInv, Filing
    <3> QED  BY <1>3, <3>1, <3>2, <3>3
  <2> QED  BY <2>1, <2>2, <2>3 DEF Stands, EntersOK
<1> QED  BY <1>4, <1>5, <1>6, <1>7 DEF Others

(* A step that takes out a pool that was closed.                            *)
LEMMA CloseOthers ==
  ASSUME SharersStay, PoolInv, RunsApart(task, plan), Calm, NEW o \in Ops, task[o].stage = "closing",
         NEW k \in Keys, k = KeyOf(task[o].old), NEW p \in Pools, p = filed[k],
         NEW r \in PoolTypes, r.state = pool[p].state, r.models = pool[p].models, r.workers = pool[p].workers,
         filed' = [filed EXCEPT ![k] = NoPool], pool' = [pool EXCEPT ![p] = r]
  PROVE  Others(o, filed, pool, task, filed', pool')
<1>1. /\ k # DefaultKey /\ pool[p].state = "closed" /\ pool[p].models = {}
      /\ Leaves(o) /\ Planned(o.model.name, task[o].old, plan.ops) /\ o \in plan.ops
  BY DEF Calm, LeavesOK, PoolInv, TaskShape
<1>2. /\ \A q \in Pools : pool'[q] = IF q = p THEN r ELSE pool[q]
      /\ \A j \in Keys : filed'[j] = IF j = k THEN NoPool ELSE filed[j]
      /\ \A j \in Keys : filed[j] # NoPool => filed[j] \in Pools /\ (filed[j] = p => j = k)
      /\ DefaultPool \in Pools /\ DefaultPool # p
  <2>1. \A j \in Keys : filed[j] # NoPool => filed[j] \in Pools /\ pool[filed[j]].key = j
    BY DEF PoolInv, Filing
  <2>2. p # NoPool /\ DefaultPool \in Pools
    BY Absent
  <2>3. DefaultPool # p
    BY <1>1 DEF Calm
  <2> QED  BY <2>1, <2>2, <2>3 DEF PoolInv, Filing
<1>3. \A j \in Keys : /\ AtIn(filed', j) = IF j = k THEN NoPool ELSE AtIn(filed, j)
                      /\ AtIn(filed, j) # NoPool => AtIn(filed, j) \in Pools
                      /\ AtIn(filed, j) = p => j = k
  <2>1. p # NoPool
    BY Absent
  <2> QED  BY <1>1, <1>2, <2>1 DEF AtIn
<1>4. KeysOK(filed', pool')
  <2> SUFFICES ASSUME NEW j \in Keys, AtIn(filed', j) # NoPool
               PROVE  pool'[AtIn(filed', j)].env = HasEnv(j)
    BY DEF KeysOK
  <2>1. j # k /\ AtIn(filed', j) = AtIn(filed, j) /\ AtIn(filed, j) \in Pools /\ AtIn(filed, j) # p
    BY <1>3
  <2> QED  BY <1>2, <2>1 DEF Calm, KeysOK
<1>5. pool'[DefaultPool].state = "open"
  BY <1>2 DEF Calm
<1>6. HomesStay(o.model.name, filed, pool, filed', pool')
  <2> SUFFICES ASSUME NEW s \in Settings, s.name # o.model.name, HomeIn(filed, pool, s)
               PROVE  HomeIn(filed', pool', s)
    BY DEF HomesStay
  <2>1. PICK a : a = AtIn(filed, KeyOf(s))
    OBVIOUS
  <2>2. a # NoPool /\ a \in Pools /\ s.name \in pool[a].models /\ KeyOf(s) \in Keys
    BY <1>3, <2>1, Absent DEF HomeIn
  <2>3. a # p /\ KeyOf(s) # k
    BY <1>1, <2>1, <2>2 DEF AtIn
  <2> QED  BY <1>2, <1>3, <2>1, <2>2, <2>3 DEF HomeIn
<1>7. ASSUME NEW q \in Ops, q # o
      PROVE  Stands(q, task[q], filed, pool, filed', pool')
  <2>1. /\ EntersOK(q, task[q], filed, pool, live, hash) /\ LeavesOK(q, task[q], filed, pool, live, plan.ops)
        /\ KeyOf(q.model) \in Keys
    BY TaskOf DEF Calm
  <2>2. ASSUME task[q].stage = "loading"
        PROVE  AtIn(filed', KeyOf(q.model)) = AtIn(filed, KeyOf(q.model)) /\ pool'[task[q].pool].state = "open"
    <3>1. task[q].pool = AtIn(filed, KeyOf(q.model)) /\ task[q].pool # NoPool /\ pool[task[q].pool].state = "open"
      BY <2>1, <2>2 DEF EntersOK
    <3>2. task[q].pool # p /\ KeyOf(q.model) # k
      BY <1>1, <3>1 DEF AtIn
    <3> QED  BY <1>2, <1>3, <2>1, <3>1, <3>2
  <2>3. ASSUME task[q].stage = "extracting"
        PROVE  filed'[KeyOf(q.model)] = NoPool
    BY <1>2, <2>1, <2>3 DEF EntersOK
  <2>4. ASSUME task[q].stage = "unloading"
        PROVE  AtIn(filed', KeyOf(task[q].old)) = AtIn(filed, KeyOf(task[q].old))
    <3>1. PICK j : j = KeyOf(task[q].old)
      OBVIOUS
    <3>2. j \in Keys /\ pool[AtIn(filed, j)].state = "open"
      BY <2>1, <2>4, <3>1, Absent DEF LeavesOK, Planned, HomeIn
    <3>3. j # k
      BY <1>1, <3>2 DEF AtIn
    <3> QED  BY <1>3, <3>1, <3>2, <3>3
  <2>5. ASSUME task[q].stage = "closing"
        PROVE  /\ filed'[KeyOf(task[q].old)] = filed[KeyOf(task[q].old)]
               /\ pool'[filed[KeyOf(task[q].old)]].state = "closed"
               /\ pool'[filed[KeyOf(task[q].old)]].models = {}
    <3>1. PICK j : j = KeyOf(task[q].old)
      OBVIOUS
    <3>2. /\ j \in Keys /\ filed[j] # NoPool /\ pool[filed[j]].state = "closed" /\ pool[filed[j]].models = {}
          /\ Planned(q.model.name, task[q].old, plan.ops)
      BY <2>1, <2>5, <3>1, Absent DEF LeavesOK, Planned
    <3>3. o.model.name # q.model.name /\ ~plan.serial
      BY <1>7, <2>5, Differ DEF Under
    <3>4. j # k
      BY <1>1, <3>1, <3>2, <3>3, LeavesAlone
    <3> QED  BY <1>2, <3>1, <3>2, <3>4
  <2> QED  BY <2>2, <2>3, <2>4, <2>5 DEF Stands
<1> QED  BY <1>4, <1>5, <1>6, <1>7 DEF Others

(* What a step needs for itself when it leaves the registry's models alone.  *)
LEMMA OwnClosed ==
  ASSUME PoolInv, Calm, NEW o \in Ops, NEW x, Turns(o, x), task[o].stage # "closing",
         \A k \in Keys : filed'[k] # NoPool /\ pool'[filed'[k]].state = "closed" =>
           \/ filed[k] # NoPool /\ pool[filed[k]].state = "closed"
           \/ x.stage = "closing" /\ x.closing = {k}
  PROVE  ClosedOK(filed', pool', task')
<1>1. \A q \in Ops : task'[q] = IF q = o THEN x ELSE task[q]
  BY DEF Turns, PoolInv
<1> SUFFICES ASSUME NEW k \in Keys, filed'[k] # NoPool, pool'[filed'[k]].state = "closed"
             PROVE  \E q \in Ops : task'[q].stage = "closing" /\ task'[q].closing = {k}
  BY DEF ClosedOK
<1>2. CASE filed[k] # NoPool /\ pool[filed[k]].state = "closed"
  <2>1. PICK q \in Ops : task[q].stage = "closing" /\ task[q].closing = {k}
    BY <1>2 DEF Calm, ClosedOK
  <2> QED  BY <1>1, <2>1
<1>3. CASE x.stage = "closing" /\ x.closing = {k}
  BY <1>1, <1>3
<1> QED  BY <1>2, <1>3

LEMMA OwnLive ==
  ASSUME PoolInv, Calm, NEW o \in Ops, NEW x, Turns(o, x), task[o].stage # "closing", UNCHANGED <<live, hash>>,
         NEW n \in Names, HomeIn(filed, pool, live[n]) => HomeIn(filed', pool', live[n])
  PROVE  LiveOK(n, live', hash', filed', pool', task', plan.ops)
<1>1. \A q \in Ops : task'[q] = IF q = o THEN x ELSE task[q]
  BY DEF Turns, PoolInv
<1>2. LiveOK(n, live, hash, filed, pool, task, plan.ops)
  BY DEF Calm
<1>3. ASSUME NEW q \in Ops, q.model.name = n, task[q].stage = "closing"
      PROVE  task'[q].stage = "closing"
  BY <1>1, <1>3
<1> QED  BY <1>2, <1>3 DEF LiveOK

(* A step that only changes the operation's own state.                      *)
LEMMA QuietCalm ==
  ASSUME PoolInv, RunsApart(task, plan), Calm, NEW o \in Ops, NEW x, Turns(o, x), Under(task[o]) \/ MayBegin(o),
         task[o].stage # "closing", UNCHANGED <<filed, pool, live, hash>>,
         EntersOK(o, x, filed, pool, live, hash), LeavesOK(o, x, filed, pool, live, plan.ops)
  PROVE  Calm'
<1>1. DefaultPool \in Pools /\ pool \in [Pools -> PoolTypes] /\ o.model.name \in Names
  BY Absent, TaskOf DEF PoolInv, Filing
<1>2. PICK r : r = pool[DefaultPool]
  OBVIOUS
<1>3. r \in PoolTypes /\ r.state = "open" /\ pool' = [pool EXCEPT ![DefaultPool] = r]
  BY <1>1, <1>2 DEF Calm
<1>4. Others(o, filed, pool, task, filed', pool')
  BY <1>1, <1>2, <1>3, PlainOthers
<1>5. ClosedOK(filed', pool', task')
  BY OwnClosed
<1>6. LiveOK(o.model.name, live', hash', filed', pool', task', plan.ops)
  BY <1>1, OwnLive
<1>7. Own(o, x, filed', pool', live', hash', task', plan.ops)
  BY <1>5, <1>6 DEF Own
<1>8. OnlyOwn(o.model.name, live, hash, live', hash')
  BY DEF OnlyOwn
<1> QED  BY <1>4, <1>7, <1>8, CalmKept

(* A load that goes on with a pool, ...                                     *)
LEMMA UseCalm ==
  ASSUME SharersStay, PoolInv, RunsApart(task, plan), Calm, NEW o \in Ops, Under(task[o]) \/ MayBegin(o),
         Loads(o), ~Under(task[o]) \/ Loading(task[o]), NEW p \in Pools, p = AtIn(filed, KeyOf(o.model)),
         NEW t \in TaskTypes, o.kind = "reload" => t.old = live[o.model.name] /\ t.oldHash = hash[o.model.name],
         UsePool(o, p, t), UNCHANGED <<plan, live, hash>>
  PROVE  Calm'
<1>1. /\ KeyOf(o.model) \in Keys /\ o.model.name \in Names /\ o.model \in Settings
      /\ pool \in [Pools -> PoolTypes] /\ pool[p] \in PoolTypes
  BY TaskOf DEF PoolInv, Filing
<1>2. pool[p].state = "open" /\ p # NoPool
  BY Absent, OpenToLoads
<1>3. PICK r : r = Listing(o, pool[p])
  OBVIOUS
<1>4. r \in PoolTypes /\ r.state = "open" /\ r.env = pool[p].env /\ r.workers = pool[p].workers
      /\ pool[p].models \subseteq r.models
  BY <1>1, <1>2, <1>3, ListingKeeps
<1>5. pool' = [pool EXCEPT ![p] = r] /\ filed' = filed
  BY <1>3 DEF UsePool
<1>6. PICK x : x = Enter(o, p, t)
  OBVIOUS
<1>7. /\ task' = [task EXCEPT ![o] = x] /\ x.stage = "loading" /\ x.pool = p /\ x.old = t.old
      /\ x.oldHash = t.oldHash /\ x.late = FALSE
  <2>1. (pool[p].state = "closed") = FALSE
    BY <1>2
  <2> QED  BY <1>6, <2>1 DEF UsePool, Enter, TaskTypes
<1>8. Turns(o, x)
  BY <1>7 DEF Turns
<1>9. task[o].stage # "closing"
  BY DEF Loading, Under
<1>10. Others(o, filed, pool, task, filed', pool')
  BY <1>2, <1>4, <1>5, PlainOthers
<1>11. \A q \in Pools : pool'[q] = IF q = p THEN r ELSE pool[q]
  BY <1>1, <1>5
<1>12. ASSUME NEW s \in Settings, HomeIn(filed, pool, s)
       PROVE  HomeIn(filed', pool', s)
  <2>1. PICK a : a = AtIn(filed, KeyOf(s))
    OBVIOUS
  <2>2. a # NoPool /\ a \in Pools
    BY <1>12, <2>1, Absent DEF HomeIn, PoolInv, Filing, AtIn
  <2> QED  BY <1>4, <1>5, <1>11, <1>12, <2>1, <2>2 DEF HomeIn
<1>13. LiveOK(o.model.name, live', hash', filed', pool', task', plan.ops)
  <2>1. live[o.model.name] # NoSettings => live[o.model.name] \in Settings
    BY <1>1 DEF PoolInv
  <2>2. CASE live[o.model.name] = NoSettings
    BY <2>2 DEF LiveOK
  <2>3. CASE live[o.model.name] # NoSettings
    BY <1>1, <1>8, <1>9, <1>12, <2>1, <2>3, OwnLive
  <2> QED  BY <2>2, <2>3
<1>14. \A k \in Keys : filed'[k] # NoPool /\ pool'[filed'[k]].state = "closed" =>
         filed[k] # NoPool /\ pool[filed[k]].state = "closed"
  <2>1. \A k \in Keys : filed[k] # NoPool => filed[k] \in Pools
    BY DEF PoolInv, Filing
  <2> QED  BY <1>4, <1>5, <1>11, <2>1
<1>15. ClosedOK(filed', pool', task')
  BY <1>8, <1>9, <1>14, OwnClosed
<1>16. EntersOK(o, x, filed', pool', live', hash') /\ LeavesOK(o, x, filed', pool', live', plan.ops)
  <2>1. pool'[p].state = "open"
    BY <1>4, <1>11
  <2> QED  BY <1>2, <1>5, <1>7, <2>1 DEF EntersOK, LeavesOK
<1>17. Own(o, x, filed', pool', live', hash', task', plan.ops) /\ OnlyOwn(o.model.name, live, hash, live', hash')
  BY <1>13, <1>15, <1>16 DEF Own, OnlyOwn
<1> QED  BY <1>8, <1>10, <1>17, CalmKept

(* ... and one that makes it.                                               *)
LEMMA MakeCalm ==
  ASSUME SharersStay, PoolInv, RunsApart(task, plan), Calm, NEW o \in Ops, Under(task[o]) \/ MayBegin(o),
         Loads(o), o \in plan.ops, task[o].stage # "closing",
         NEW k \in Keys, k = KeyOf(o.model), k # DefaultKey, filed[k] = NoPool, NEW whole \in BOOLEAN,
         NEW t \in TaskTypes, o.kind = "reload" => t.old = live[o.model.name] /\ t.oldHash = hash[o.model.name],
         MakePool(o, k, whole, t), UNCHANGED <<plan, live, hash>>
  PROVE  Calm'
<1>1. /\ o.model.name \in Names /\ o.model \in Settings /\ filed \in [Keys -> Pools \cup {NoPool}]
      /\ pool \in [Pools -> PoolTypes]
  BY TaskOf DEF PoolInv, Filing
<1>2. PICK p : p = NewPool
  OBVIOUS
<1>3. p \in Pools /\ pool[p].state = "unmade" /\ p # NoPool
  BY <1>2, NewPoolIs, Absent DEF MakePool
<1>4. PICK r : r = Listing(o, Made(k, whole))
  OBVIOUS
<1>5. r \in PoolTypes /\ r.state = "open" /\ r.env = HasEnv(k)
  <2>1. Made(k, whole) \in PoolTypes /\ Made(k, whole).state = "open" /\ Made(k, whole).env = HasEnv(k)
    BY MadeTyping
  <2> QED  BY <1>4, <2>1, ListingKeeps
<1>6. pool' = [pool EXCEPT ![p] = r] /\ filed' = [filed EXCEPT ![k] = p]
  BY <1>2, <1>4 DEF MakePool
<1>7. PICK x : x = Enter(o, p, t)
  OBVIOUS
<1>8. /\ task' = [task EXCEPT ![o] = x] /\ x.stage = "loading" /\ x.pool = p /\ x.old = t.old
      /\ x.oldHash = t.oldHash /\ x.late = FALSE
  <2>1. (pool[p].state = "closed") = FALSE
    BY <1>3
  <2> QED  BY <1>2, <1>7, <2>1 DEF MakePool, Enter, TaskTypes
<1>9. Turns(o, x)
  BY <1>8 DEF Turns
<1>10. Others(o, filed, pool, task, filed', pool')
  BY <1>3, <1>5, <1>6, MakeOthers
<1>11. /\ \A q \in Pools : pool'[q] = IF q = p THEN r ELSE pool[q]
       /\ \A j \in Keys : filed'[j] = IF j = k THEN p ELSE filed[j]
       /\ \A j \in Keys : AtIn(filed, j) # NoPool => /\ AtIn(filed, j) \in Pools /\ AtIn(filed, j) # p
                                                     /\ AtIn(filed', j) = AtIn(filed, j)
  <2>1. \A j \in Keys : filed[j] # NoPool => filed[j] \in Pools /\ filed[j] # p
    BY <1>3 DEF PoolInv, Filing
  <2>2. DefaultPool # p /\ DefaultPool \in Pools
    BY <1>3, Absent DEF Calm
  <2> QED  BY <1>1, <1>6, <2>1, <2>2 DEF AtIn
<1>12. ASSUME NEW s \in Settings, HomeIn(filed, pool, s)
       PROVE  HomeIn(filed', pool', s)
  <2>1. PICK a : a = AtIn(filed, KeyOf(s))
    OBVIOUS
  <2>2. a # NoPool /\ a \in Pools /\ a # p /\ AtIn(filed', KeyOf(s)) = a
    BY <1>11, <1>12, <2>1, Absent DEF HomeIn
  <2> QED  BY <1>11, <1>12, <2>1, <2>2 DEF HomeIn
<1>13. LiveOK(o.model.name, live', hash', filed', pool', task', plan.ops)
  <2>1. live[o.model.name] # NoSettings => live[o.model.name] \in Settings
    BY <1>1 DEF PoolInv
  <2>2. CASE live[o.model.name] = NoSettings
    BY <2>2 DEF LiveOK
  <2>3. CASE live[o.model.name] # NoSettings
    BY <1>1, <1>9, <1>12, <2>1, <2>3, OwnLive
  <2> QED  BY <2>2, <2>3
<1>14. \A j \in Keys : filed'[j] # NoPool /\ pool'[filed'[j]].state = "closed" =>
         filed[j] # NoPool /\ pool[filed[j]].state = "closed"
  <2>1. \A j \in Keys : filed[j] # NoPool => filed[j] \in Pools
    BY DEF PoolInv, Filing
  <2> QED  BY <1>3, <1>5, <1>11, <2>1
<1>15. ClosedOK(filed', pool', task')
  BY <1>9, <1>14, OwnClosed
<1>16. EntersOK(o, x, filed', pool', live', hash') /\ LeavesOK(o, x, filed', pool', live', plan.ops)
  <2>1. pool'[p].state = "open" /\ AtIn(filed', k) = p
    BY <1>3, <1>5, <1>11 DEF AtIn
  <2> QED  BY <1>3, <1>8, <2>1 DEF EntersOK, LeavesOK
<1>17. Own(o, x, filed', pool', live', hash', task', plan.ops) /\ OnlyOwn(o.model.name, live, hash, live', hash')
  BY <1>13, <1>15, <1>16 DEF Own, OnlyOwn
<1> QED  BY <1>9, <1>10, <1>17, CalmKept

LEMMA BeginLoadCalm ==
  ASSUME SharersStay, PoolInv, RunsApart(task, plan), Calm, NEW o \in Ops, BeginLoad(o)
  PROVE  Calm'
<1> DEFINE k == KeyOf(o.model)
           n == o.model.name
<1>1. o.model \in Settings /\ k \in Keys /\ n \in Names
  BY TaskOf
<1>2. PICK t : t = [Idle EXCEPT !.old = live[o.model.name], !.oldHash = hash[o.model.name]]
  OBVIOUS
<1>3. /\ MayBegin(o) /\ task[o].stage = "idle" /\ o \in plan.ops /\ UNCHANGED <<plan, dir, live, hash>>
      /\ \/ o.kind = "load" /\ live[n] = NoSettings
         \/ o.kind = "reload" /\ live[n] # NoSettings
  BY DEF BeginLoad, MayBegin
<1>4. live[n] \in Settings \cup {NoSettings} /\ hash[n] \in Keys \cup {NoHash}
  BY <1>1 DEF PoolInv
<1>5. t \in TaskTypes /\ t.old = live[n] /\ t.oldHash = hash[n]
  BY <1>2, <1>4 DEF Idle, TaskTypes, Stages
<1>6. Loads(o) /\ ~Under(task[o])
  BY <1>3 DEF Loads, Under
<1>7. CASE HasEnv(k)
  <2>1. task' = [task EXCEPT ![o] = [t EXCEPT !.stage = "hashing"]] /\ UNCHANGED <<filed, pool>>
    BY <1>2, <1>7 DEF BeginLoad
  <2>2. PICK x : x = [t EXCEPT !.stage = "hashing"]
    OBVIOUS
  <2>3. x.stage = "hashing" /\ x.old = live[n] /\ x.oldHash = hash[n] /\ task' = [task EXCEPT ![o] = x]
    BY <1>5, <2>1, <2>2 DEF TaskTypes
  <2>4. Turns(o, x)
    BY <1>3, <2>3 DEF Turns
  <2>5. EntersOK(o, x, filed, pool, live, hash) /\ LeavesOK(o, x, filed, pool, live, plan.ops)
    BY <2>3 DEF EntersOK, LeavesOK
  <2> QED  BY <1>3, <2>1, <2>4, <2>5, QuietCalm
<1>8. CASE ~HasEnv(k) /\ At(k) # NoPool
  <2>1. UsePool(o, At(k), t)
    BY <1>2, <1>8 DEF BeginLoad
  <2>2. At(k) = AtIn(filed, k)
    BY DEF At, AtIn
  <2>3. At(k) \in MadeOf(pool)
    BY <1>1, <1>8, FoundTyping
  <2>4. PICK p \in Pools : p = At(k)
    BY <2>3 DEF MadeOf
  <2>5. UsePool(o, p, t) /\ p = AtIn(filed, KeyOf(o.model))
    BY <2>1, <2>2, <2>4
  <2> QED  BY <1>3, <1>5, <1>6, <2>5, UseCalm
<1>9. CASE ~HasEnv(k) /\ At(k) = NoPool
  <2>1. MakePool(o, k, TRUE, t)
    BY <1>2, <1>9 DEF BeginLoad
  <2>2. k # DefaultKey /\ filed[k] = NoPool
    BY <1>9, Absent DEF At
  <2> HIDE DEF k
  <2>3. k = KeyOf(o.model)
    BY DEF k
  <2> QED  BY <1>1, <1>3, <1>5, <1>6, <2>1, <2>2, <2>3, MakeCalm
<1> QED  BY <1>7, <1>8, <1>9

(* What a load under way knows of itself.                                   *)
LEMMA LoadUnderWay ==
  ASSUME PoolInv, Calm, NEW o \in Ops, Loading(task[o])
  PROVE  /\ Under(task[o]) /\ Loads(o) /\ o \in plan.ops /\ task[o].stage # "closing" /\ task[o] \in TaskTypes
         /\ o.kind = "reload" => /\ task[o].old = live[o.model.name] /\ task[o].oldHash = hash[o.model.name]
                                 /\ task[o].old \in Settings
         /\ EntersOK(o, task[o], filed, pool, live, hash)
<1>1. task[o] \in TaskTypes /\ TaskShape(o, task[o], MadeOf(pool), plan.ops) /\ EntersOK(o, task[o], filed, pool, live, hash)
  BY TaskOf DEF Calm
<1> QED  BY <1>1 DEF TaskShape, Loading, Under, Loads, EntersOK

LEMMA FinishHashCalm ==
  ASSUME SharersStay, PoolInv, RunsApart(task, plan), Calm, NEW o \in Ops, FinishHash(o)
  PROVE  Calm'
<1> DEFINE k == KeyOf(o.model)
<1>1. o.model \in Settings /\ k \in Keys /\ task[o].stage = "hashing" /\ UNCHANGED <<plan, live, hash>> /\ Loading(task[o])
  BY TaskOf DEF FinishHash, Loading
<1>2. /\ Under(task[o]) /\ Loads(o) /\ o \in plan.ops /\ task[o].stage # "closing" /\ task[o] \in TaskTypes
      /\ o.kind = "reload" => task[o].old = live[o.model.name] /\ task[o].oldHash = hash[o.model.name]
  BY <1>1, LoadUnderWay
<1>3. CASE filed[k] # NoPool /\ UsePool(o, filed[k], task[o])
  <2>1. filed[k] = AtIn(filed, k) /\ filed[k] \in Pools
    <3>1. k # DefaultKey /\ filed[k] \in Pools
      BY <1>1, <1>3 DEF PoolInv, Filing
    <3> QED  BY <3>1 DEF AtIn
  <2>2. PICK p \in Pools : p = filed[k]
    BY <2>1
  <2>3. UsePool(o, p, task[o]) /\ p = AtIn(filed, KeyOf(o.model))
    BY <1>3, <2>1, <2>2
  <2> QED  BY <1>1, <1>2, <2>3, UseCalm
<1>4. ASSUME NEW whole \in BOOLEAN, filed[k] = NoPool, o.model.env \in Tarballs \cup Paths, MakePool(o, k, whole, task[o])
      PROVE  Calm'
  <2>1. k # DefaultKey
    BY <1>4, AbsentAssumption DEF KeyOf, DefaultKey
  <2>2. k = KeyOf(o.model)
    OBVIOUS
  <2> HIDE DEF k
  <2> QED  BY <1>1, <1>2, <1>4, <2>1, <2>2, MakeCalm
<1>5. CASE filed[k] = NoPool /\ task' = [task EXCEPT ![o].stage = "extracting"] /\ UNCHANGED <<filed, pool>>
  <2>1. PICK x : x = [task[o] EXCEPT !.stage = "extracting"]
    OBVIOUS
  <2>2. /\ x.stage = "extracting" /\ x.old = task[o].old /\ x.oldHash = task[o].oldHash
        /\ task' = [task EXCEPT ![o] = x]
    BY <1>2, <1>5, <2>1 DEF TaskTypes, PoolInv
  <2>3. Turns(o, x)
    BY <1>1, <1>2, <2>2 DEF Turns
  <2>4. EntersOK(o, x, filed, pool, live, hash) /\ LeavesOK(o, x, filed, pool, live, plan.ops)
    BY <1>2, <1>5, <2>2 DEF EntersOK, LeavesOK
  <2> QED  BY <1>1, <1>2, <1>5, <2>3, <2>4, QuietCalm
<1>6. (dir[k] = "whole") \in BOOLEAN
  OBVIOUS
<1> QED  BY <1>3, <1>4, <1>5, <1>6 DEF FinishHash

LEMMA FinishExtractCalm ==
  ASSUME SharersStay, PoolInv, RunsApart(task, plan), Calm, NEW o \in Ops, FinishExtract(o)
  PROVE  Calm'
<1> DEFINE k == KeyOf(o.model)
<1>1. o.model \in Settings /\ k \in Keys /\ task[o].stage = "extracting" /\ UNCHANGED <<plan, live, hash>> /\ Loading(task[o])
  BY TaskOf DEF FinishExtract, Loading
<1>2. /\ Under(task[o]) /\ Loads(o) /\ o \in plan.ops /\ task[o].stage # "closing" /\ task[o] \in TaskTypes
      /\ o.kind = "reload" => task[o].old = live[o.model.name] /\ task[o].oldHash = hash[o.model.name]
      /\ EntersOK(o, task[o], filed, pool, live, hash)
  BY <1>1, LoadUnderWay
<1>3. filed[k] = NoPool
  BY <1>1, <1>2 DEF EntersOK
<1>4. k # DefaultKey
  <2>1. o.model.env \in Tarballs
    BY <1>1 DEF PoolInv, TaskShape
  <2> QED  BY <2>1, AbsentAssumption DEF KeyOf, DefaultKey
<1>5. PICK whole \in BOOLEAN : whole = (dir[k] = "partial")
  OBVIOUS
<1>6. MakePool(o, k, whole, task[o]) /\ k = KeyOf(o.model)
  BY <1>5 DEF FinishExtract
<1> HIDE DEF k
<1> QED  BY <1>1, <1>2, <1>3, <1>4, <1>6, MakeCalm

LEMMA FailCalm ==
  ASSUME PoolInv, RunsApart(task, plan), Calm, NEW o \in Ops, FailExtract(o) \/ FailLoad(o)
  PROVE  Calm'
<1>1. /\ UNCHANGED <<plan, filed, pool, live, hash>> /\ task' = [task EXCEPT ![o].stage = "failed"]
      /\ Under(task[o]) /\ task[o].stage # "closing" /\ task[o] \in TaskTypes
  BY TaskOf DEF FailExtract, FailLoad, Under
<1>2. PICK x : x = [task[o] EXCEPT !.stage = "failed"]
  OBVIOUS
<1>3. x.stage = "failed" /\ task' = [task EXCEPT ![o] = x]
  BY <1>1, <1>2 DEF TaskTypes, PoolInv
<1>4. Turns(o, x)
  BY <1>1, <1>3 DEF Turns
<1>5. EntersOK(o, x, filed, pool, live, hash) /\ LeavesOK(o, x, filed, pool, live, plan.ops)
  BY <1>3 DEF EntersOK, LeavesOK, Loading
<1> QED  BY <1>1, <1>4, <1>5, QuietCalm

(* The pool of a key, what it calls its environment, and what _find finds.   *)
LEMMA PoolOfKey ==
  ASSUME PoolInv, KeysOK(filed, pool), NEW k \in Keys, AtIn(filed, k) # NoPool
  PROVE  /\ AtIn(filed, k) \in Pools /\ pool[AtIn(filed, k)].key = k
         /\ EnvHash(AtIn(filed, k)) = IF HasEnv(k) THEN k ELSE NoHash
<1>1. PICK p : p = AtIn(filed, k)
  OBVIOUS
<1>2. p \in Pools /\ pool[p].key = k
  BY <1>1, Absent DEF AtIn, PoolInv, Filing
<1>3. pool[p].env = HasEnv(k)
  BY <1>1 DEF KeysOK
<1>4. EnvHash(p) = IF HasEnv(k) THEN k ELSE NoHash
  BY <1>2, <1>3 DEF EnvHash
<1> QED  BY <1>1, <1>2, <1>4

LEMMA FoundHome ==
  ASSUME NEW s \in Settings
  PROVE  Found(s, HashOf(s)) = AtIn(filed, KeyOf(s))
<1>1. KeyOf(s) \in Keys /\ KeyOf(s) # NoHash
  BY Absent DEF Keys, NoHash, KeyOf
<1>2. CASE HasEnv(KeyOf(s))
  BY <1>1, <1>2 DEF Found, HashOf, At, AtIn
<1>3. CASE ~HasEnv(KeyOf(s))
  <2>1. KeyOf(s) = <<NoEnv, s.gid>>
    BY <1>3 DEF HasEnv, KeyOf
  <2> QED  BY <1>3, <2>1 DEF Found, HashOf, At, AtIn
<1> QED  BY <1>2, <1>3

(* The model that an operation under way, which is not closing a pool, finds *)
(* in the registry is at home.                                              *)
LEMMA OldAtHome ==
  ASSUME PoolInv, RunsApart(task, plan), Calm, NEW o \in Ops, Under(task[o]) \/ MayBegin(o), task[o].stage # "closing",
         live[o.model.name] # NoSettings
  PROVE  /\ live[o.model.name] \in Settings /\ Planned(o.model.name, live[o.model.name], plan.ops)
         /\ hash[o.model.name] = HashOf(live[o.model.name]) /\ HomeIn(filed, pool, live[o.model.name])
<1>1. LiveOK(o.model.name, live, hash, filed, pool, task, plan.ops)
  BY TaskOf DEF Calm
<1>2. ASSUME NEW q \in Ops, q.model.name = o.model.name, task[q].stage = "closing"
      PROVE  FALSE
  <2>1. q # o /\ Under(task[q])
    BY <1>2 DEF Under
  <2> QED  BY <1>2, <2>1, Differ
<1> QED  BY <1>1, <1>2 DEF LiveOK, Planned

LEMMA FinishLoadCalm ==
  ASSUME PoolInv, RunsApart(task, plan), Calm, NEW o \in Ops, FinishLoad(o)
  PROVE  Calm'
<1> DEFINE k == KeyOf(o.model)
           n == o.model.name
<1>0. PICK p, r, x, h : LoadEnds(o, p, r, x, h)
  BY FinishLoadParts
<1>1. /\ p = task[o].pool /\ p \in Pools /\ h = EnvHash(p) /\ task[o].stage = "loading"
      /\ pool' = [pool EXCEPT ![p] = r] /\ r \in PoolTypes
      /\ r.state = pool[p].state /\ r.env = pool[p].env
      /\ r.models = pool[p].models \cup {n}
      /\ r.workers = IF task[o].late THEN pool[p].workers ELSE Replaced(pool[p].workers, o.model)
      /\ task' = [task EXCEPT ![o] = x]
      /\ x.hash = h /\ x.old = task[o].old /\ x.late = task[o].late
      /\ UNCHANGED <<plan, filed, dir>>
  BY <1>0 DEF LoadEnds
<1>2. /\ Under(task[o]) /\ Loads(o) /\ o \in plan.ops /\ task[o].stage # "closing"
      /\ o.kind = "reload" => /\ task[o].old = live[n] /\ task[o].oldHash = hash[n] /\ task[o].old \in Settings
      /\ EntersOK(o, task[o], filed, pool, live, hash)
  BY <1>1, LoadUnderWay DEF Loading
<1>3. o.model \in Settings /\ k \in Keys /\ n \in Names /\ pool \in [Pools -> PoolTypes]
  BY TaskOf DEF PoolInv, Filing
<1>4. p = AtIn(filed, k) /\ p # NoPool /\ pool[p].state = "open" /\ task[o].late = FALSE
  BY <1>1, <1>2 DEF EntersOK
<1>5. r.workers = {w \in pool[p].workers : w.name # n} \cup {o.model} /\ r.state = "open"
  BY <1>1, <1>4 DEF Replaced
<1>6. Others(o, filed, pool, task, filed', pool')
  BY <1>1, <1>4, <1>5, PlainOthers
<1>7. Turns(o, x)
  BY <1>1, <1>2 DEF Turns
<1>8. \A q \in Pools : pool'[q] = IF q = p THEN r ELSE pool[q]
  BY <1>1, <1>3
<1>9. ClosedOK(filed', pool', task')
  <2>1. \A j \in Keys : filed[j] # NoPool => filed[j] \in Pools
    BY DEF PoolInv, Filing
  <2>2. \A j \in Keys : filed'[j] # NoPool /\ pool'[filed'[j]].state = "closed" =>
          filed[j] # NoPool /\ pool[filed[j]].state = "closed"
    BY <1>1, <1>5, <1>8, <2>1
  <2> QED  BY <1>2, <1>7, <2>2, OwnClosed
<1>10. h = HashOf(o.model)
  <2>1. KeysOK(filed, pool)
    BY DEF Calm
  <2> QED  BY <1>1, <1>3, <1>4, <2>1, PoolOfKey DEF HashOf
<1>11. HomeIn(filed', pool', o.model)
  <2>1. AtIn(filed', k) = p /\ pool'[p] = r
    BY <1>1, <1>4, <1>8
  <2> QED  BY <1>1, <1>4, <1>5, <2>1 DEF HomeIn
<1>12. CASE ~(o.kind = "reload" /\ task[o].oldHash # h)
  <2>1. x.stage = "done" /\ Settle(o, TRUE, h)
    BY <1>0, <1>12 DEF LoadEnds
  <2>2. live' = [live EXCEPT ![n] = o.model] /\ hash' = [hash EXCEPT ![n] = h]
    BY <1>2, <2>1 DEF Settle, Loads
  <2>3. live'[n] = o.model /\ hash'[n] = h /\ OnlyOwn(n, live, hash, live', hash')
    BY <1>3, <2>2 DEF PoolInv, OnlyOwn
  <2>4. Planned(n, o.model, plan.ops)
    BY <1>2, <1>3 DEF Planned
  <2>5. LiveOK(n, live', hash', filed', pool', task', plan.ops)
    BY <1>10, <1>11, <2>3, <2>4 DEF LiveOK
  <2>6. EntersOK(o, x, filed', pool', live', hash') /\ LeavesOK(o, x, filed', pool', live', plan.ops)
    BY <2>1 DEF EntersOK, LeavesOK, Loading
  <2>7. Own(o, x, filed', pool', live', hash', task', plan.ops)
    BY <1>9, <2>5, <2>6 DEF Own
  <2> QED  BY <1>2, <1>6, <1>7, <2>3, <2>7, CalmKept
<1>13. CASE o.kind = "reload" /\ task[o].oldHash # h
  <2>1. /\ Settle(o, FALSE, h) /\ x.pool = Found(task[o].old, task[o].oldHash)
        /\ x.stage = IF x.pool = NoPool THEN "failed" ELSE "unloading"
    BY <1>0, <1>13 DEF LoadEnds
  <2>2. live' = live /\ hash' = hash
    BY <2>1 DEF Settle
  <2>3. task[o].old = live[n] /\ task[o].oldHash = hash[n] /\ live[n] # NoSettings
    BY <1>2, <1>13, Absent
  <2>4. /\ live[n] \in Settings /\ Planned(n, live[n], plan.ops)
        /\ hash[n] = HashOf(live[n]) /\ HomeIn(filed, pool, live[n])
    BY <1>2, <2>3, OldAtHome
  <2>5. PICK s : s = live[n]
    OBVIOUS
  <2>6. PICK f : f = AtIn(filed, KeyOf(s))
    OBVIOUS
  <2>7. f # NoPool /\ f \in Pools /\ KeyOf(s) # k /\ f # p
    <3>1. KeysOK(filed, pool) /\ KeyOf(s) \in Keys /\ f # NoPool
      BY <2>4, <2>5, <2>6, Absent DEF Calm, HomeIn
    <3>2. f \in Pools /\ pool[f].key = KeyOf(s)
      BY <2>6, <3>1, PoolOfKey
    <3>3. pool[p].key = k
      BY <1>3, <1>4, <3>1, PoolOfKey
    <3>4. KeyOf(s) # k
      BY <1>10, <1>13, <2>3, <2>4, <2>5 DEF HashOf
    <3> QED  BY <3>1, <3>2, <3>3, <3>4
  <2>8. x.pool = f /\ x.stage = "unloading"
    BY <2>1, <2>3, <2>4, <2>5, <2>6, <2>7, FoundHome
  <2>9. HomeIn(filed', pool', s)
    <3>1. AtIn(filed', KeyOf(s)) = f /\ pool'[f] = pool[f]
      BY <1>1, <1>8, <2>6, <2>7
    <3> QED  BY <2>4, <2>5, <2>6, <3>1 DEF HomeIn
  <2>10. EntersOK(o, x, filed', pool', live', hash')
    BY <2>8 DEF EntersOK, Loading
  <2>11. LeavesOK(o, x, filed', pool', live', plan.ops)
    <3>1. Leaves(o) /\ x.old = s /\ x.late = FALSE /\ x.pool = AtIn(filed', KeyOf(s))
      BY <1>1, <1>4, <1>13, <2>3, <2>5, <2>6, <2>8 DEF Leaves
    <3> QED  BY <1>1, <1>10, <1>11, <1>13, <2>4, <2>5, <2>7, <2>8, <2>9, <3>1 DEF LeavesOK
  <2>12. LiveOK(n, live', hash', filed', pool', task', plan.ops)
    BY <1>2, <1>3, <1>7, <2>2, <2>5, <2>9, OwnLive
  <2>13. Own(o, x, filed', pool', live', hash', task', plan.ops) /\ OnlyOwn(n, live, hash, live', hash')
    BY <1>9, <2>2, <2>10, <2>11, <2>12 DEF Own, OnlyOwn
  <2> QED  BY <1>2, <1>6, <1>7, <2>13, CalmKept
<1> QED  BY <1>12, <1>13

(* An unload takes the model from the registry before its pool does.        *)
LEMMA BeginUnloadCalm ==
  ASSUME PoolInv, RunsApart(task, plan), Calm, NEW o \in Ops, BeginUnload(o)
  PROVE  Calm'
<1> DEFINE n == o.model.name
<1>1. /\ MayBegin(o) /\ o.kind = "unload" /\ live[n] # NoSettings /\ live' = [live EXCEPT ![n] = NoSettings]
      /\ UNCHANGED <<plan, filed, pool, dir, hash>> /\ task[o].stage = "idle" /\ n \in Names
  BY TaskOf DEF BeginUnload, MayBegin
<1>2. PICK s : s = live[n]
  OBVIOUS
<1>3. s \in Settings /\ Planned(n, s, plan.ops) /\ hash[n] = HashOf(s) /\ HomeIn(filed, pool, s)
  BY <1>1, <1>2, OldAtHome
<1>4. PICK p : p = AtIn(filed, KeyOf(s))
  OBVIOUS
<1>5. p # NoPool /\ pool[p].state = "open" /\ p = Found(live[n], hash[n]) /\ p \in Pools
  <2>1. p \in Pools
    <3>1. KeysOK(filed, pool) /\ KeyOf(s) \in Keys /\ p # NoPool
      BY <1>3, <1>4, Absent DEF Calm, HomeIn
    <3> QED  BY <1>4, <3>1, PoolOfKey
  <2>2. p = Found(s, HashOf(s))
    BY <1>3, <1>4, FoundHome
  <2> QED  BY <1>2, <1>3, <1>4, <2>1, <2>2 DEF HomeIn
<1>6. PICK x : x = [Idle EXCEPT !.stage = "unloading", !.pool = p, !.old = s, !.late = FALSE]
  OBVIOUS
<1>7. task' = [task EXCEPT ![o] = x]
  <2>1. (p # NoPool /\ pool[p].state = "closed") = FALSE
    BY <1>5
  <2>2. task' = [task EXCEPT ![o] = [Idle EXCEPT !.stage = IF p = NoPool THEN "failed" ELSE "unloading",
                                                 !.pool = p, !.old = s,
                                                 !.late = (p # NoPool /\ pool[p].state = "closed")]]
    BY <1>2, <1>5, Zenon DEF BeginUnload
  <2> QED  BY <1>5, <1>6, <2>1, <2>2
<1>8. x.stage = "unloading" /\ x.pool = p /\ x.old = s /\ x.late = FALSE
  BY <1>6 DEF Idle
<1>9. Turns(o, x)
  BY <1>1, <1>7 DEF Turns
<1>10. Others(o, filed, pool, task, filed', pool')
  <2>1. PICK r : r = pool[p]
    OBVIOUS
  <2>2. r \in PoolTypes /\ r.state = "open" /\ pool' = [pool EXCEPT ![p] = r]
    BY <1>1, <1>5, <2>1 DEF PoolInv, Filing
  <2> QED  BY <1>1, <1>5, <2>1, <2>2, PlainOthers
<1>11. live'[n] = NoSettings /\ OnlyOwn(n, live, hash, live', hash')
  BY <1>1 DEF PoolInv, OnlyOwn
<1>12. EntersOK(o, x, filed', pool', live', hash')
  BY <1>8 DEF EntersOK, Loading
<1>13. LeavesOK(o, x, filed', pool', live', plan.ops)
  BY <1>1, <1>3, <1>4, <1>8, <1>11 DEF LeavesOK, Leaves
<1>14. ClosedOK(filed', pool', task')
  BY <1>1, <1>9, OwnClosed
<1>15. LiveOK(n, live', hash', filed', pool', task', plan.ops)
  BY <1>11 DEF LiveOK
<1>16. Own(o, x, filed', pool', live', hash', task', plan.ops)
  BY <1>12, <1>13, <1>14, <1>15 DEF Own
<1> QED  BY <1>1, <1>9, <1>10, <1>11, <1>16, CalmKept

(* A model stays at home when only the pool of another key changes.         *)
LEMMA HomeElsewhere ==
  ASSUME PoolInv, Calm, NEW k \in Keys, NEW p \in Pools, p = AtIn(filed, k), NEW r, pool' = [pool EXCEPT ![p] = r],
         NEW s \in Settings, KeyOf(s) # k, HomeIn(filed, pool, s),
         AtIn(filed', KeyOf(s)) = AtIn(filed, KeyOf(s))
  PROVE  HomeIn(filed', pool', s)
<1>1. PICK a : a = AtIn(filed, KeyOf(s))
  OBVIOUS
<1>2. a # NoPool /\ KeyOf(s) \in Keys /\ p # NoPool /\ KeysOK(filed, pool)
  BY <1>1, Absent DEF HomeIn, Calm
<1>3. a \in Pools /\ pool[a].key = KeyOf(s) /\ pool[p].key = k
  BY <1>1, <1>2, PoolOfKey
<1>4. pool'[a] = pool[a]
  BY <1>3 DEF PoolInv, Filing
<1> QED  BY <1>1, <1>4 DEF HomeIn

(* What the registry has of its own model once an operation that leaves a    *)
(* pool has ended well.                                                     *)
LEMMA SettlesOwn ==
  ASSUME PoolInv, Calm, NEW o \in Ops, task[o].stage \in {"unloading", "closing"}, Settle(o, TRUE, task[o].hash),
         o.kind = "reload" => HomeIn(filed', pool', o.model)
  PROVE  /\ OnlyOwn(o.model.name, live, hash, live', hash')
         /\ LiveOK(o.model.name, live', hash', filed', pool', task', plan.ops)
<1> DEFINE n == o.model.name
<1>1. /\ LeavesOK(o, task[o], filed, pool, live, plan.ops) /\ o \in plan.ops /\ o.model \in Settings /\ n \in Names
  BY TaskOf, OpsTyping DEF Calm, TaskShape
<1>2. CASE o.kind = "unload"
  <2>1. live' = live /\ hash' = hash /\ live[n] = NoSettings
    BY <1>1, <1>2 DEF Settle, LeavesOK
  <2> QED  BY <2>1 DEF OnlyOwn, LiveOK
<1>3. CASE o.kind = "reload"
  <2>1. live' = [live EXCEPT ![n] = o.model] /\ hash' = [hash EXCEPT ![n] = task[o].hash]
    BY <1>3 DEF Settle
  <2>2. live'[n] = o.model /\ hash'[n] = task[o].hash /\ OnlyOwn(n, live, hash, live', hash')
    BY <1>1, <2>1 DEF PoolInv, OnlyOwn
  <2>3. Planned(n, o.model, plan.ops) /\ task[o].hash = HashOf(o.model)
    BY <1>1, <1>3 DEF LeavesOK, Planned, Loads
  <2> QED  BY <1>3, <2>2, <2>3 DEF LiveOK
<1>4. o.kind \in {"unload", "reload"}
  BY <1>1 DEF LeavesOK, Leaves
<1> QED  BY <1>2, <1>3, <1>4

(* The old model, or the one unloaded, is out of its pool, which is closed   *)
(* if it was the last.                                                      *)
LEMMA FinishUnloadCalm ==
  ASSUME SharersStay, PoolInv, RunsApart(task, plan), Calm, NEW o \in Ops, FinishUnload(o)
  PROVE  Calm'
<1> DEFINE n == o.model.name
<1>0. PICK p, r, x, key, known, emptied, closes : UnloadEnds(o, p, r, x, key, known, emptied, closes)
  BY FinishUnloadParts
<1>1. /\ p = task[o].pool /\ p \in Pools /\ key \in Keys /\ task[o].stage = "unloading"
      /\ r \in PoolTypes /\ r.env = pool[p].env
      /\ task' = [task EXCEPT ![o] = x] /\ known \in BOOLEAN /\ emptied \in BOOLEAN /\ closes \in BOOLEAN
      /\ UNCHANGED <<plan, filed, dir>>
  BY <1>0 DEF UnloadEnds
<1>2. PICK s : s = task[o].old
  OBVIOUS
<1>3. /\ LeavesOK(o, task[o], filed, pool, live, plan.ops) /\ o \in plan.ops /\ o.model \in Settings /\ n \in Names
      /\ pool \in [Pools -> PoolTypes]
  BY <1>1, TaskOf, OpsTyping DEF Calm, TaskShape, PoolInv, Filing
<1>4. /\ Leaves(o) /\ Planned(n, s, plan.ops) /\ s \in Settings /\ s.name = n
      /\ p = AtIn(filed, KeyOf(s)) /\ HomeIn(filed, pool, s)
      /\ o.kind = "reload" => HomeIn(filed, pool, o.model) /\ task[o].hash = HashOf(o.model) /\ KeyOf(o.model) # KeyOf(s)
  BY <1>1, <1>2, <1>3 DEF LeavesOK, Planned
<1>5. KeyOf(s) \in Keys /\ p # NoPool /\ pool[p].state = "open" /\ s \in pool[p].workers
  BY <1>4, Absent DEF HomeIn
<1>6. key = KeyOf(s)
  <2>1. KeysOK(filed, pool)
    BY DEF Calm
  <2>2. EnvHash(p) = IF HasEnv(KeyOf(s)) THEN KeyOf(s) ELSE NoHash
    BY <1>4, <1>5, <2>1, PoolOfKey
  <2>3. key = IF EnvHash(p) # NoHash THEN EnvHash(p) ELSE <<NoEnv, s.gid>>
    BY <1>0, <1>2 DEF UnloadEnds
  <2>4. KeyOf(s) # NoHash
    BY DEF KeyOf, NoHash
  <2>5. ~HasEnv(KeyOf(s)) => KeyOf(s) = <<NoEnv, s.gid>>
    BY DEF HasEnv, KeyOf
  <2> QED  BY <2>2, <2>3, <2>4, <2>5
<1>7. known
  <2>1. known = (task[o].late \/ \E w \in pool[p].workers : w.name = s.name)
    BY <1>0, <1>2 DEF UnloadEnds
  <2> QED  BY <1>1, <1>5, <2>1
<1>11. closes = emptied /\ (emptied => p = filed[key]) /\ pool' = [pool EXCEPT ![p] = r]
  <2>1. closes = (emptied /\ filed[key] # NoPool)
    BY <1>0 DEF UnloadEnds
  <2>2. emptied = (known /\ p # DefaultPool /\ pool[p].models \ {s.name} = {} /\ key # DefaultKey)
    BY <1>0, <1>2 DEF UnloadEnds
  <2>3. emptied => p = filed[key]
    BY <1>4, <1>6, <2>2 DEF AtIn
  <2>4. closes = emptied
    BY <1>1, <1>5, <2>1, <2>3
  <2>5. (~closes \/ filed[key] = p) => pool' = [pool EXCEPT ![p] = r]
    BY <1>0 DEF UnloadEnds
  <2> QED  BY <2>3, <2>4, <2>5
<1>8. Turns(o, x) /\ Under(task[o])
  BY <1>1 DEF Turns, Under
<1>9. \A q \in Pools : pool'[q] = IF q = p THEN r ELSE pool[q]
  BY <1>1, <1>11, <1>3
<1>10. o.kind = "reload" => HomeIn(filed', pool', o.model)
  BY <1>1, <1>11, <1>3, <1>4, <1>5, HomeElsewhere
<1>12. \A j \in Keys : filed[j] # NoPool => filed[j] \in Pools
  BY DEF PoolInv, Filing
<1>13. CASE ~emptied
  <2>1. /\ r.state = "open" /\ x.stage = "done" /\ Settle(o, TRUE, task[o].hash)
        /\ r.models = pool[p].models \ {n} /\ r.workers = {w \in pool[p].workers : w.name # n}
    <3>1. /\ r.state = (IF closes /\ filed[key] = p THEN "closed" ELSE pool[p].state)
          /\ x.stage = (IF closes THEN "closing" ELSE IF known /\ ~emptied THEN "done" ELSE "failed")
          /\ r.models = (IF known THEN pool[p].models \ {s.name} ELSE pool[p].models)
          /\ r.workers = (IF closes /\ filed[key] = p THEN {}
                          ELSE IF known THEN {w \in pool[p].workers : w.name # s.name} ELSE pool[p].workers)
      BY <1>0, <1>2 DEF UnloadEnds
    <3>2. (known /\ ~emptied) = TRUE /\ Settle(o, known /\ ~emptied, task[o].hash)
      BY <1>0, <1>7, <1>13 DEF UnloadEnds
    <3>3. Settle(o, TRUE, task[o].hash)
      BY <3>2
    <3> QED  BY <1>4, <1>5, <1>7, <1>11, <1>13, <3>1, <3>3
  <2>2. Others(o, filed, pool, task, filed', pool')
    BY <1>1, <1>11, <1>5, <2>1, PlainOthers
  <2>3. OnlyOwn(n, live, hash, live', hash') /\ LiveOK(n, live', hash', filed', pool', task', plan.ops)
    BY <1>1, <1>11, <1>10, <2>1, SettlesOwn
  <2>4. ClosedOK(filed', pool', task')
    <3>1. \A j \in Keys : filed'[j] # NoPool /\ pool'[filed'[j]].state = "closed" =>
            filed[j] # NoPool /\ pool[filed[j]].state = "closed"
      BY <1>1, <1>11, <1>9, <1>12, <2>1
    <3> QED  BY <1>1, <1>11, <1>8, <3>1, OwnClosed
  <2>5. EntersOK(o, x, filed', pool', live', hash') /\ LeavesOK(o, x, filed', pool', live', plan.ops)
    BY <2>1 DEF EntersOK, LeavesOK, Loading
  <2>6. Own(o, x, filed', pool', live', hash', task', plan.ops)
    BY <2>3, <2>4, <2>5 DEF Own
  <2> QED  BY <1>8, <2>2, <2>3, <2>6, CalmKept
<1>14. CASE emptied
  <2>1. /\ r.state = "closed" /\ x.stage = "closing" /\ x.closing = {key} /\ r.models = {}
        /\ p # DefaultPool /\ pool[p].models \ {n} = {} /\ key # DefaultKey
    <3>1. /\ r.state = (IF closes /\ filed[key] = p THEN "closed" ELSE pool[p].state)
          /\ x.stage = (IF closes THEN "closing" ELSE IF known /\ ~emptied THEN "done" ELSE "failed")
          /\ r.models = (IF known THEN pool[p].models \ {s.name} ELSE pool[p].models)
          /\ x.closing = (IF closes THEN {key} ELSE {})
          /\ emptied = (known /\ p # DefaultPool /\ pool[p].models \ {s.name} = {} /\ key # DefaultKey)
      BY <1>0, <1>2 DEF UnloadEnds
    <3>2. known /\ p # DefaultPool /\ pool[p].models \ {s.name} = {} /\ key # DefaultKey
      BY <1>14, <3>1
    <3> QED  BY <1>4, <1>7, <1>11, <1>14, <3>1, <3>2
  <2>2. live' = live /\ hash' = hash /\ x.old = s /\ x.hash = task[o].hash
    <3>1. (known /\ ~emptied) = FALSE /\ Settle(o, known /\ ~emptied, task[o].hash)
      BY <1>0, <1>14 DEF UnloadEnds
    <3>2. Settle(o, FALSE, task[o].hash)
      BY <3>1
    <3>3. x.old = s /\ x.hash = task[o].hash
      BY <1>0, <1>2 DEF UnloadEnds
    <3> QED  BY <3>2, <3>3 DEF Settle
  <2>3. Others(o, filed, pool, task, filed', pool')
    BY <1>1, <1>11, <2>1, StopOthers
  <2>4. p = filed[key]
    BY <1>4, <1>6, <2>1 DEF AtIn
  <2>5. ClosedOK(filed', pool', task')
    <3>1. ASSUME NEW j \in Keys, filed'[j] # NoPool, pool'[filed'[j]].state = "closed"
          PROVE  \/ filed[j] # NoPool /\ pool[filed[j]].state = "closed"
                 \/ x.stage = "closing" /\ x.closing = {j}
      <4>1. filed[j] \in Pools /\ pool[filed[j]].key = j /\ pool[p].key = key
        BY <1>1, <1>11, <1>5, <2>4, <3>1 DEF PoolInv, Filing
      <4>2. CASE filed[j] = p
        BY <2>1, <4>1, <4>2
      <4>3. CASE filed[j] # p
        BY <1>1, <1>11, <1>9, <3>1, <4>1, <4>3
      <4> QED  BY <4>2, <4>3
    <3>2. \A j \in Keys : filed'[j] # NoPool /\ pool'[filed'[j]].state = "closed" =>
            \/ filed[j] # NoPool /\ pool[filed[j]].state = "closed"
            \/ x.stage = "closing" /\ x.closing = {j}
      BY <3>1
    <3> QED  BY <1>1, <1>11, <1>8, <3>2, OwnClosed
  <2>6. LiveOK(n, live', hash', filed', pool', task', plan.ops)
    <3>1. task'[o].stage = "closing"
      BY <1>1, <1>11, <2>1 DEF PoolInv
    <3>2. LiveOK(n, live, hash, filed, pool, task, plan.ops)
      BY <1>3 DEF Calm
    <3> QED  BY <2>2, <3>1, <3>2 DEF LiveOK
  <2>7. EntersOK(o, x, filed', pool', live', hash')
    BY <2>1 DEF EntersOK, Loading
  <2>8. LeavesOK(o, x, filed', pool', live', plan.ops)
    <3>1. filed'[key] = p /\ pool'[p] = r
      BY <1>1, <1>11, <1>9, <2>4
    <3>2. o.kind = "unload" => live'[n] = NoSettings
      BY <1>1, <1>11, <1>3, <2>2 DEF LeavesOK
    <3> QED  BY <1>4, <1>5, <1>6, <1>10, <2>1, <2>2, <3>1, <3>2 DEF LeavesOK
  <2>9. Own(o, x, filed', pool', live', hash', task', plan.ops) /\ OnlyOwn(n, live, hash, live', hash')
    BY <2>2, <2>5, <2>6, <2>7, <2>8 DEF Own, OnlyOwn
  <2> QED  BY <1>8, <2>3, <2>9, CalmKept
<1> QED  BY <1>1, <1>13, <1>14

(* The pool that was closed is taken out.                                   *)
LEMMA FinishCloseCalm ==
  ASSUME SharersStay, PoolInv, RunsApart(task, plan), Calm, NEW o \in Ops, o.kind # "close",
         NEW k \in task[o].closing, FinishClose(o, k)
  PROVE  Calm'
<1> DEFINE n == o.model.name
<1>1. /\ task[o] \in TaskTypes /\ task[o].stage = "closing" /\ o \in plan.ops /\ o.model \in Settings /\ n \in Names
      /\ LeavesOK(o, task[o], filed, pool, live, plan.ops)
  <2>1. task[o] \in TaskTypes /\ TaskShape(o, task[o], MadeOf(pool), plan.ops) /\ n \in Names
    BY TaskOf
  <2> QED  BY <2>1, OpsTyping DEF TaskShape, Calm
<1>2. PICK s : s = task[o].old
  OBVIOUS
<1>3. /\ Leaves(o) /\ Planned(n, s, plan.ops) /\ s \in Settings /\ task[o].closing = {KeyOf(s)} /\ k = KeyOf(s)
      /\ k # DefaultKey /\ filed[k] # NoPool
      /\ o.kind = "reload" => HomeIn(filed, pool, o.model) /\ KeyOf(o.model) # k
  BY <1>1, <1>2 DEF LeavesOK, Planned
<1>4. PICK p : p = filed[k]
  OBVIOUS
<1>5. k \in Keys /\ p \in Pools /\ p # NoPool /\ pool[p] \in PoolTypes /\ pool \in [Pools -> PoolTypes]
      /\ filed \in [Keys -> Pools \cup {NoPool}]
  BY <1>3, <1>4, Absent DEF PoolInv, Filing
<1>6. PICK x : x = [task[o] EXCEPT !.closing = {}, !.stage = "done"]
  OBVIOUS
<1>7. PICK r : r = [pool[p] EXCEPT !.env = FALSE]
  OBVIOUS
<1>8. /\ task' = [task EXCEPT ![o].closing = {}, ![o].stage = "done"]
      /\ filed' = [filed EXCEPT ![k] = NoPool] /\ pool' = [pool EXCEPT ![p].env = FALSE]
      /\ Settle(o, TRUE, task[o].hash) /\ UNCHANGED plan
  <2>1. PICK gone, rest, well : /\ gone = (k # DefaultKey /\ p = NoPool) /\ rest = task[o].closing \ {k}
                                /\ well = (~gone /\ rest = {})
    OBVIOUS
  <2>2. /\ task' = [task EXCEPT ![o].closing = rest,
                                ![o].stage = IF gone \/ @ = "failed" THEN "failed" ELSE IF rest = {} THEN "done" ELSE @]
        /\ filed' = [filed EXCEPT ![k] = NoPool]
        /\ pool' = IF p = NoPool THEN pool ELSE [pool EXCEPT ![p].env = FALSE]
        /\ Settle(o, well, task[o].hash) /\ UNCHANGED plan
    BY <1>4, <2>1, Zenon DEF FinishClose
  <2>3. gone = FALSE /\ rest = {} /\ well = TRUE
    BY <1>3, <1>5, <2>1
  <2>4. task' = [task EXCEPT ![o].closing = {}, ![o].stage = "done"]
    BY <1>1, <2>2, <2>3 DEF PoolInv, TaskTypes
  <2>5. Settle(o, TRUE, task[o].hash)
    BY <2>2, <2>3
  <2> QED  BY <1>5, <2>2, <2>4, <2>5
<1>9. x.stage = "done" /\ x.closing = {} /\ task' = [task EXCEPT ![o] = x]
  BY <1>1, <1>6, <1>8 DEF PoolInv, TaskTypes
<1>10. /\ r \in PoolTypes /\ r.state = pool[p].state /\ r.models = pool[p].models /\ r.workers = pool[p].workers
       /\ pool' = [pool EXCEPT ![p] = r]
  BY <1>5, <1>7, <1>8 DEF PoolTypes
<1>11. Others(o, filed, pool, task, filed', pool')
  <2>1. k = KeyOf(task[o].old) /\ filed' = [filed EXCEPT ![k] = NoPool]
    BY <1>2, <1>3, <1>8
  <2> QED  BY <1>1, <1>4, <1>5, <1>10, <2>1, CloseOthers
<1>12. Turns(o, x) /\ Under(task[o])
  BY <1>1, <1>8, <1>9 DEF Turns, Under
<1>13. o.kind = "reload" => HomeIn(filed', pool', o.model)
  <2> SUFFICES ASSUME o.kind = "reload" PROVE HomeIn(filed', pool', o.model)
    OBVIOUS
  <2>1. p = AtIn(filed, k)
    BY <1>3, <1>4 DEF AtIn
  <2>2. AtIn(filed', KeyOf(o.model)) = AtIn(filed, KeyOf(o.model))
    BY <1>3, <1>5, <1>8 DEF AtIn
  <2>3. HomeIn(filed, pool, o.model) /\ KeyOf(o.model) # k
    BY <1>3
  <2> QED  BY <1>1, <1>5, <1>10, <2>1, <2>2, <2>3, HomeElsewhere
<1>14. OnlyOwn(n, live, hash, live', hash') /\ LiveOK(n, live', hash', filed', pool', task', plan.ops)
  BY <1>1, <1>8, <1>13, SettlesOwn
<1>15. ClosedOK(filed', pool', task')
  <2> SUFFICES ASSUME NEW j \in Keys, filed'[j] # NoPool, pool'[filed'[j]].state = "closed"
               PROVE  \E q \in Ops : task'[q].stage = "closing" /\ task'[q].closing = {j}
    BY DEF ClosedOK
  <2>1. j # k /\ filed'[j] = filed[j] /\ filed[j] \in Pools
    BY <1>5, <1>8
  <2>2. pool[filed[j]].state = "closed"
    BY <1>5, <1>10, <2>1
  <2>3. PICK q \in Ops : task[q].stage = "closing" /\ task[q].closing = {j}
    BY <2>1, <2>2 DEF Calm, ClosedOK
  <2>4. q # o
    BY <1>3, <2>1, <2>3
  <2>5. task'[q] = task[q]
    BY <1>9, <2>4 DEF PoolInv
  <2> QED  BY <2>3, <2>5
<1>16. EntersOK(o, x, filed', pool', live', hash') /\ LeavesOK(o, x, filed', pool', live', plan.ops)
  BY <1>9 DEF EntersOK, LeavesOK, Loading
<1>17. Own(o, x, filed', pool', live', hash', task', plan.ops)
  BY <1>14, <1>15, <1>16 DEF Own
<1> QED  BY <1>11, <1>12, <1>14, <1>17, CalmKept

(* Every step of an operation but the end of a close is one of an operation  *)
(* that begins or is under way, ...                                         *)
Changes(o) == \E x : task' = [task EXCEPT ![o] = x]

LEMMA StepChanges ==
  ASSUME PoolInv, NEW o \in Ops,
         \/ BeginLoad(o) \/ FinishHash(o) \/ FinishExtract(o) \/ FailExtract(o) \/ FinishLoad(o) \/ FailLoad(o)
         \/ BeginUnload(o) \/ FinishUnload(o) \/ BeginClose(o)
  PROVE  Changes(o) /\ plan' = plan /\ (MayBegin(o) \/ Under(task[o]))
<1>1. CASE BeginLoad(o)
  <2>1. MayBegin(o) /\ plan' = plan
    BY <1>1 DEF BeginLoad
  <2>2. Changes(o)
    <3>1. PICK k, begun : k = KeyOf(o.model)
                          /\ begun = [Idle EXCEPT !.old = live[o.model.name], !.oldHash = hash[o.model.name]]
      OBVIOUS
    <3>2. \/ task' = [task EXCEPT ![o] = [begun EXCEPT !.stage = "hashing"]]
          \/ UsePool(o, At(k), begun)
          \/ MakePool(o, k, TRUE, begun)
      BY <1>1, <3>1, Zenon DEF BeginLoad
    <3> QED  BY <3>2 DEF UsePool, MakePool, Changes
  <2> QED  BY <2>1, <2>2
<1>2. CASE FinishHash(o)
  <2>1. task[o].stage = "hashing" /\ plan' = plan
    BY <1>2 DEF FinishHash
  <2>2. Changes(o)
    <3>1. PICK k, t : k = KeyOf(o.model) /\ t = task[o]
      OBVIOUS
    <3>2. \/ UsePool(o, filed[k], t)
          \/ MakePool(o, k, TRUE, t)
          \/ MakePool(o, k, dir[k] = "whole", t)
          \/ task' = [task EXCEPT ![o].stage = "extracting"]
      BY <1>2, <3>1, Zenon DEF FinishHash
    <3> QED  BY <3>2 DEF UsePool, MakePool, Changes
  <2> QED  BY <2>1, <2>2 DEF Under
<1>3. CASE FinishExtract(o)
  BY <1>3 DEF FinishExtract, MakePool, Changes, Under
<1>4. CASE FailExtract(o) \/ FailLoad(o)
  BY <1>4 DEF FailExtract, FailLoad, Changes, Under
<1>5. CASE FinishLoad(o)
  <2>1. PICK p, r, x, h : LoadEnds(o, p, r, x, h)
    BY <1>5, FinishLoadParts
  <2> QED  BY <2>1 DEF LoadEnds, Changes, Under
<1>6. CASE BeginUnload(o)
  BY <1>6 DEF BeginUnload, Changes
<1>7. CASE FinishUnload(o)
  <2>1. PICK p, r, x, key, known, emptied, closes : UnloadEnds(o, p, r, x, key, known, emptied, closes)
    BY <1>7, FinishUnloadParts
  <2>2. task[o].stage = "unloading" /\ task' = [task EXCEPT ![o] = x] /\ plan' = plan
    BY <2>1 DEF UnloadEnds
  <2> QED  BY <2>2 DEF Changes, Under
<1>8. CASE BeginClose(o)
  BY <1>8 DEF BeginClose, Changes
<1> QED  BY <1>1, <1>2, <1>3, <1>4, <1>5, <1>6, <1>7, <1>8

(* ... and so is that, unless it has failed or ended already.               *)
LEMMA CloseTurns ==
  ASSUME PoolInv, NEW o \in Ops, NEW k \in task[o].closing, FinishClose(o, k)
  PROVE  \E x : Turns(o, x) /\ x.stage # "idle" /\ task[o].stage # "idle"
<1>1. task[o] \in TaskTypes /\ task[o].stage # "idle"
  BY TaskOf DEF TaskShape
<1>2. PICK gone, rest : gone = (k # DefaultKey /\ filed[k] = NoPool) /\ rest = task[o].closing \ {k}
                        /\ gone \in BOOLEAN
  OBVIOUS
<1>3. PICK x : x = [task[o] EXCEPT !.closing = rest,
                                   !.stage = IF gone \/ @ = "failed" THEN "failed" ELSE IF rest = {} THEN "done" ELSE @]
  OBVIOUS
<1>4. /\ task' = [task EXCEPT ![o].closing = rest,
                              ![o].stage = IF gone \/ @ = "failed" THEN "failed" ELSE IF rest = {} THEN "done" ELSE @]
      /\ UNCHANGED plan
  BY <1>2, Zenon DEF FinishClose
<1>5. task' = [task EXCEPT ![o] = x]
  BY <1>3, <1>4 DEF PoolInv, TaskTypes
<1>6. x.stage = IF gone \/ task[o].stage = "failed" THEN "failed" ELSE IF rest = {} THEN "done" ELSE task[o].stage
  BY <1>1, <1>3 DEF TaskTypes
<1>7. Under(task[o]) \/ ~Under(x)
  <2>1. task[o].stage \in {"failed", "done"} => x.stage \in {"failed", "done"}
    BY <1>6
  <2> QED  BY <1>1, <2>1 DEF Under
<1>8. Turns(o, x) /\ x.stage # "idle"
  BY <1>1, <1>4, <1>5, <1>6, <1>7 DEF Turns
<1> QED  BY <1>1, <1>8

LEMMA StepLoading ==
  ASSUME NEW o \in Ops, FinishHash(o) \/ FinishExtract(o) \/ FailExtract(o) \/ FinishLoad(o) \/ FailLoad(o)
  PROVE  Loading(task[o])
BY DEF FinishHash, FinishExtract, FailExtract, FinishLoad, FailLoad, AfterLoad, Loading

(* Operations stay apart, and a server that is closed stays so.              *)
LEMMA ApartStep ==
  ASSUME PoolInv, RunsApart(task, plan), Next
  PROVE  RunsApart(task', plan') /\ (Closed => Closed')
<1>1. ASSUME NEW o \in Ops, NEW k \in task[o].closing, FinishClose(o, k)
      PROVE  RunsApart(task', plan') /\ (Closed => Closed')
  <2>1. PICK x : Turns(o, x) /\ x.stage # "idle" /\ task[o].stage # "idle"
    BY <1>1, CloseTurns
  <2>2. \A q \in Ops : task[q].stage # "idle" => task'[q].stage # "idle"
    BY <2>1 DEF Turns, PoolInv
  <2>3. Closed => Closed'
    BY <2>2 DEF Closed
  <2> QED  BY <2>1, <2>3, TurnsApart
<1>2. ASSUME NEW o \in Ops,
             \/ BeginLoad(o) \/ FinishHash(o) \/ FinishExtract(o) \/ FailExtract(o) \/ FinishLoad(o) \/ FailLoad(o)
             \/ BeginUnload(o) \/ FinishUnload(o) \/ BeginClose(o)
      PROVE  RunsApart(task', plan') /\ (Closed => Closed')
  <2>1. Changes(o) /\ plan' = plan /\ (MayBegin(o) \/ Under(task[o]))
    BY <1>2, StepChanges
  <2>2. PICK x : task' = [task EXCEPT ![o] = x]
    BY <2>1 DEF Changes
  <2>3. Turns(o, x)
    BY <2>1, <2>2 DEF Turns
  <2>4. \A q \in Ops : q # o => task'[q] = task[q]
    BY <2>2 DEF PoolInv
  <2>5. o.kind = "close" /\ task[o].stage # "idle" => task'[o].stage # "idle"
    <3>1. CASE BeginLoad(o) \/ BeginUnload(o) \/ BeginClose(o)
      BY <3>1 DEF BeginLoad, BeginUnload, BeginClose, MayBegin
    <3>2. CASE FinishHash(o) \/ FinishExtract(o) \/ FailExtract(o) \/ FinishLoad(o) \/ FailLoad(o)
      <4>1. Loading(task[o])
        BY <3>2, StepLoading
      <4> QED  BY <4>1, TaskOf DEF TaskShape
    <3>3. CASE FinishUnload(o)
      <4>1. PICK p, r, y, key, known, emptied, closes : UnloadEnds(o, p, r, y, key, known, emptied, closes)
        BY <3>3, FinishUnloadParts
      <4>2. task' = [task EXCEPT ![o] = y]
        BY <4>1 DEF UnloadEnds
      <4>3. y.stage = (IF closes THEN "closing" ELSE IF known /\ ~emptied THEN "done" ELSE "failed")
        BY <4>1 DEF UnloadEnds
      <4> QED  BY <4>2, <4>3 DEF PoolInv
    <3> QED  BY <1>2, <3>1, <3>2, <3>3
  <2>6. Closed => Closed'
    BY <2>4, <2>5 DEF Closed
  <2> QED  BY <2>3, <2>6, TurnsApart
<1> QED  BY <1>1, <1>2 DEF Next

LEMMA FoundStep ==
  ASSUME SharersStay
  PROVE  PoolInv /\ FoundInv /\ [Next]_vars => FoundInv'
<1> SUFFICES ASSUME PoolInv, FoundInv, [Next]_vars PROVE FoundInv'
  OBVIOUS
<1>1. CASE UNCHANGED vars
  BY <1>1 DEF FoundInv, Calm, Closed, vars
<1>2. CASE Next
  <2>1. RunsApart(task, plan) /\ RunsApart(task', plan') /\ (Closed => Closed')
    BY <1>2, ApartStep DEF FoundInv
  <2>2. ASSUME ~Closed' PROVE Calm'
    <3>1. ~Closed /\ Calm
      BY <2>1, <2>2 DEF FoundInv
    <3>2. ASSUME NEW o \in Ops, BeginClose(o) PROVE FALSE
      <4>1. o.kind = "close" /\ task'[o].stage = "closing"
        BY <3>2 DEF BeginClose, PoolInv, Idle
      <4> QED  BY <2>2, <4>1 DEF Closed
    <3>3. ASSUME NEW o \in Ops, NEW k \in task[o].closing, FinishClose(o, k) PROVE Calm'
      <4>1. o.kind # "close"
        <5>1. task[o].stage # "idle"
          BY <3>3, TaskOf DEF TaskShape
        <5> QED  BY <3>1, <5>1 DEF Closed
      <4> QED  BY <2>1, <3>1, <3>3, <4>1, FinishCloseCalm
    <3>4. ASSUME NEW o \in Ops, BeginLoad(o) \/ FinishHash(o) \/ FinishExtract(o) PROVE Calm'
      BY <2>1, <3>1, <3>4, BeginLoadCalm, FinishHashCalm, FinishExtractCalm
    <3>5. ASSUME NEW o \in Ops, FailExtract(o) \/ FinishLoad(o) \/ FailLoad(o) PROVE Calm'
      BY <2>1, <3>1, <3>5, FailCalm, FinishLoadCalm
    <3>6. ASSUME NEW o \in Ops, BeginUnload(o) \/ FinishUnload(o) PROVE Calm'
      BY <2>1, <3>1, <3>6, BeginUnloadCalm, FinishUnloadCalm
    <3> QED  BY <1>2, <3>2, <3>3, <3>4, <3>5, <3>6 DEF Next
  <2> QED  BY <2>1, <2>2 DEF FoundInv
<1> QED  BY <1>1, <1>2

(* A model the registry has, with no operation of it under way or failed, is *)
(* with the workers of the pool an unload of it would go to, with the       *)
(* settings it was last given, whatever other models come, move and go in   *)
(* between, where a pool is not left while others load into it.             *)
THEOREM ModelsAreFound == SharersStay => (Spec => []FoundWhereLoaded)
<1> SUFFICES ASSUME SharersStay PROVE Spec => []FoundWhereLoaded
  OBVIOUS
<1>1. PoolInv /\ FoundInv => FoundWhereLoaded
  <2> SUFFICES ASSUME PoolInv, FoundInv, NEW n \in Names, live[n] # NoSettings, ~Closed,
                      \A o \in Ops : Running(o) => o.model.name # n
               PROVE  /\ Found(live[n], hash[n]) # NoPool /\ pool[Found(live[n], hash[n])].state = "open"
                      /\ live[n] \in pool[Found(live[n], hash[n])].workers
                      /\ pool[Found(live[n], hash[n])].key = KeyOf(live[n])
    BY DEF FoundWhereLoaded
  <2>1. Calm
    BY DEF FoundInv
  <2>2. LiveOK(n, live, hash, filed, pool, task, plan.ops) /\ KeysOK(filed, pool)
    BY <2>1 DEF Calm
  <2>3. \A o \in Ops : task[o].stage = "closing" => Running(o)
    BY DEF Running
  <2>4. PICK s : s = live[n]
    OBVIOUS
  <2>5. s \in Settings /\ hash[n] = HashOf(s) /\ HomeIn(filed, pool, s)
    BY <2>2, <2>3, <2>4 DEF LiveOK, Planned
  <2>6. PICK p : p = AtIn(filed, KeyOf(s))
    OBVIOUS
  <2>7. p # NoPool /\ pool[p].state = "open" /\ s \in pool[p].workers /\ KeyOf(s) \in Keys
    BY <2>5, <2>6, Absent DEF HomeIn
  <2>8. pool[p].key = KeyOf(s)
    BY <2>2, <2>6, <2>7, PoolOfKey
  <2>9. Found(live[n], hash[n]) = p
    BY <2>4, <2>5, <2>6, FoundHome
  <2> QED  BY <2>4, <2>7, <2>8, <2>9
<1> QED  BY PoolInit, PoolStep, FoundInit, FoundStep, <1>1, PTL DEF Spec

-----------------------------------------------------------------------------
(* Pools that are kept. *)

(* Operation o, in state t, has to do with n in the pool p, filed under k:   *)
(* it loads it there or unloads it from there, or is a reload that has      *)
(* loaded it there and removes it elsewhere.                                *)
Tends(o, t, n, k, p) ==
  /\ o.kind # "close" /\ o.model.name = n
  /\ \/ t.stage \in {"loading", "unloading"} /\ t.pool = p
     \/ o.kind = "reload" /\ t.stage \in {"unloading", "closing"} /\ KeyOf(o.model) = k /\ t.hash = HashOf(o.model)

(* The server is being closed, and the pool under k not yet taken out.       *)
Closes(ts) == \E c \in Ops : c.kind = "close" /\ ts[c].stage = "closing"
ClosesKey(k, ts) == \E c \in Ops : c.kind = "close" /\ ts[c].stage = "closing" /\ k \in ts[c].closing

(* A reload that leaves the old model alone until it has its new pool, which *)
(* keeps its Environment.                                                   *)
Waits(o, t, ps) ==
  /\ o.kind = "reload" /\ Loading(t)
  /\ t.stage = "loading" /\ HasEnv(KeyOf(o.model)) => ps[t.pool].env = TRUE

(* The registry has n with settings that belong under k, ...                 *)
Belongs(n, k, l, h, ps, ts) ==
  /\ l[n] # NoSettings /\ KeyOf(l[n]) = k /\ h[n] = HashOf(l[n])
  /\ \A o \in Ops : o.kind # "close" /\ o.model.name = n /\ Under(ts[o]) => Waits(o, ts[o], ps) /\ ~Closes(ts)
(* ... which is why the pool filed there lists it, or an operation is.       *)
Listed(n, k, l, h, f, ps, ts) ==
  f[k] # NoPool /\ n \in ps[f[k]].models =>
    Belongs(n, k, l, h, ps, ts) \/ (\E o \in Ops : Tends(o, ts[o], n, k, f[k])) \/ ClosesKey(k, ts)

(* A pool that lists nothing is being filled or closed.                      *)
Uses(t, k, p) == (t.stage = "loading" /\ t.pool = p) \/ (t.stage = "closing" /\ k \in t.closing)
Filled(k, f, ps, ts) == f[k] # NoPool /\ ps[f[k]].models = {} => \E o \in Ops : Uses(ts[o], k, f[k])

(* A pool that is filed has its Environment, and no other pool has one.      *)
Environs(f, ps) ==
  /\ \A k \in Keys : f[k] # NoPool => ps[f[k]].env = HasEnv(k)
  /\ \A p \in Pools : ps[p].env = TRUE => HasEnv(ps[p].key)

(* The hash kept of a model, and where its unload goes.                      *)
HashOK(s, h) == h # NoHash => h = KeyOf(s) /\ HasEnv(h)
Leaving(s) == {KeyOf(s), <<NoEnv, s.gid>>}
Known(n, l, h, ops) == l[n] # NoSettings => Planned(n, l[n], ops) /\ HashOK(l[n], h[n])

(* What an operation knows of the model it replaces or unloads.              *)
Moves(o, t, ps, l, h, ops) ==
  LET n == o.model.name IN
  /\ t.stage = "loading" => ps[t.pool].key = KeyOf(o.model)
  /\ Loading(t) /\ o.kind = "load" => l[n] = NoSettings
  /\ Loading(t) /\ o.kind = "reload" => l[n] # NoSettings /\ t.old = l[n] /\ t.oldHash = h[n]
  /\ t.stage = "unloading" \/ (t.stage = "closing" /\ o.kind # "close") => Leaves(o) /\ Planned(n, t.old, ops)
  /\ t.stage = "unloading" => ps[t.pool].key \in Leaving(t.old)
  /\ t.stage = "closing" /\ o.kind # "close" => t.closing \subseteq Leaving(t.old)
  /\ t.stage \in {"unloading", "closing"} /\ o.kind = "reload" => HashOK(o.model, t.hash)
  /\ o.kind = "close" /\ t.closing # {} => t.stage \in {"closing", "failed"}

Kept ==
  /\ Environs(filed, pool)
  /\ \A n \in Names : Known(n, live, hash, plan.ops)
  /\ \A o \in Ops : Moves(o, task[o], pool, live, hash, plan.ops)
  /\ \A n \in Names, k \in Keys : Listed(n, k, live, hash, filed, pool, task)
  /\ \A k \in Keys : Filled(k, filed, pool, task)
Excused == Failed \/ \E o \in Ops : Regrouped(o)

(* What a step of operation o, to x, leaves to the others ...                *)
Leftover(o, ts, f, ps, g, qs) ==
  LET n == o.model.name IN
  /\ \A k \in Keys : g[k] # NoPool =>
       \/ g[k] = f[k] /\ qs[f[k]].models \ {n} = ps[f[k]].models \ {n}
       \/ qs[g[k]].models \subseteq {n}
  /\ \A q \in Ops : q # o /\ ts[q].stage \in {"loading", "unloading"} => qs[ts[q].pool].key = ps[ts[q].pool].key
  /\ \A q \in Ops : q # o /\ q.kind = "reload" /\ ts[q].stage = "loading" /\ HasEnv(KeyOf(q.model)) =>
       qs[ts[q].pool].env = ps[ts[q].pool].env

(* ... and has for itself: t is where it was.                               *)
Ours(o, t, x, f, ps, g, qs, l, h, ts, ops) ==
  LET n == o.model.name IN
  /\ Environs(g, qs) /\ Known(n, l, h, ops) /\ Moves(o, x, qs, l, h, ops)
  /\ \A k \in Keys : Listed(n, k, l, h, g, qs, ts)
  /\ \A k \in Keys : g[k] # NoPool /\ qs[g[k]].models = {} =>
       Uses(x, k, g[k]) \/ (g[k] = f[k] /\ ps[f[k]].models = {} /\ ~Uses(t, k, f[k]))

LEMMA KeptKept ==
  ASSUME PoolInv, RunsApart(task, plan), Kept, NEW o \in Ops, o.kind # "close", NEW x, Turns(o, x),
         Under(task[o]) \/ MayBegin(o),
         Leftover(o, task, filed, pool, filed', pool'), OnlyOwn(o.model.name, live, hash, live', hash'),
         Ours(o, task[o], x, filed, pool, filed', pool', live', hash', task', plan.ops)
  PROVE  Kept'
<1> DEFINE n == o.model.name
<1>1. plan' = plan /\ \A q \in Ops : task'[q] = IF q = o THEN x ELSE task[q]
  BY DEF Turns, PoolInv
<1>2. \A c \in Ops : c.kind = "close" => task'[c] = task[c]
  BY <1>1
<1>3. Closes(task') = Closes(task) /\ \A k \in Keys : ClosesKey(k, task') = ClosesKey(k, task)
  BY <1>2 DEF Closes, ClosesKey
<1>4. \A q \in Ops : q # o /\ Under(task[q]) => q.model.name # n
  BY Differ
<1>5. ASSUME NEW m \in Names
      PROVE  Known(m, live', hash', plan.ops) /\ \A k \in Keys : Listed(m, k, live', hash', filed', pool', task')
  <2>1. CASE m = n
    BY <2>1 DEF Ours
  <2>2. CASE m # n
    <3>1. live'[m] = live[m] /\ hash'[m] = hash[m]
      BY <2>2 DEF OnlyOwn
    <3>2. Known(m, live', hash', plan.ops)
      BY <3>1 DEF Kept, Known
    <3>3. ASSUME NEW k \in Keys, filed'[k] # NoPool, m \in pool'[filed'[k]].models
          PROVE  \/ Belongs(m, k, live', hash', pool', task')
                 \/ \E q \in Ops : Tends(q, task'[q], m, k, filed'[k])
                 \/ ClosesKey(k, task')
      <4>1. ~(pool'[filed'[k]].models \subseteq {n})
        BY <2>2, <3>3
      <4>2. filed'[k] = filed[k] /\ m \in pool[filed[k]].models /\ filed[k] # NoPool
        BY <2>2, <3>3, <4>1 DEF Leftover
      <4>3. Listed(m, k, live, hash, filed, pool, task)
        BY DEF Kept
      <4>4. CASE Belongs(m, k, live, hash, pool, task)
        <5> SUFFICES ASSUME NEW q \in Ops, q.kind # "close", q.model.name = m, Under(task'[q])
                     PROVE  Waits(q, task'[q], pool') /\ ~Closes(task')
          BY <3>1, <4>4 DEF Belongs
        <5>1. q # o /\ task'[q] = task[q]
          BY <1>1, <2>2
        <5>2. Waits(q, task[q], pool) /\ ~Closes(task)
          BY <4>4, <5>1 DEF Belongs
        <5> QED  BY <1>3, <5>1, <5>2 DEF Waits, Leftover
      <4>5. CASE \E q \in Ops : Tends(q, task[q], m, k, filed[k])
        <5>1. PICK q \in Ops : Tends(q, task[q], m, k, filed[k])
          BY <4>5
        <5>2. q # o /\ task'[q] = task[q]
          BY <1>1, <2>2, <5>1 DEF Tends
        <5> QED  BY <4>2, <5>1, <5>2
      <4>6. CASE ClosesKey(k, task)
        BY <1>3, <4>6
      <4> QED  BY <4>2, <4>3, <4>4, <4>5, <4>6 DEF Listed
    <3> QED  BY <3>2, <3>3 DEF Listed
  <2> QED  BY <2>1, <2>2
<1>6. ASSUME NEW q \in Ops
      PROVE  Moves(q, task'[q], pool', live', hash', plan.ops)
  <2>1. CASE q = o
    BY <1>1, <2>1 DEF Ours
  <2>2. CASE q # o
    <3>1. task'[q] = task[q] /\ Moves(q, task[q], pool, live, hash, plan.ops) /\ q.model.name \in Names
      BY <1>1, <2>2, OpsTyping, Absent DEF Kept
    <3>2. Under(task[q]) => live'[q.model.name] = live[q.model.name] /\ hash'[q.model.name] = hash[q.model.name]
      BY <1>4, <2>2, <3>1 DEF OnlyOwn
    <3>3. Loading(task[q]) => Under(task[q])
      BY DEF Loading, Under
    <3>4. task[q].stage \in {"loading", "unloading"} => pool'[task[q].pool].key = pool[task[q].pool].key
      BY <2>2 DEF Leftover
    <3> QED  BY <3>1, <3>2, <3>3, <3>4 DEF Moves
  <2> QED  BY <2>1, <2>2
<1>7. ASSUME NEW k \in Keys, filed'[k] # NoPool, pool'[filed'[k]].models = {}
      PROVE  \E q \in Ops : Uses(task'[q], k, filed'[k])
  <2>1. CASE Uses(x, k, filed'[k])
    BY <1>1, <2>1
  <2>2. CASE filed'[k] = filed[k] /\ pool[filed[k]].models = {} /\ ~Uses(task[o], k, filed[k])
    <3>1. PICK q \in Ops : Uses(task[q], k, filed[k])
      BY <1>7, <2>2 DEF Kept, Filled
    <3> QED  BY <1>1, <2>2, <3>1
  <2> QED  BY <1>7, <2>1, <2>2 DEF Ours
<1>8. Environs(filed', pool')
  BY DEF Ours
<1> QED  BY <1>1, <1>5, <1>6, <1>7, <1>8 DEF Kept, Filled

LEMMA KeptInit == Init => Kept
<1> SUFFICES ASSUME Init PROVE Kept
  OBVIOUS
<1>1. /\ filed = [k \in Keys |-> NoPool] /\ task = [o \in Ops |-> Idle]
      /\ pool = [p \in Pools |-> IF p = DefaultPool THEN [Unmade EXCEPT !.state = "open"] ELSE Unmade]
      /\ live = [n \in Names |-> NoSettings]
  BY DEF Init
<1>2. Idle.stage = "idle" /\ Idle.closing = {} /\ Unmade.env = FALSE /\ [Unmade EXCEPT !.state = "open"].env = FALSE
  BY DEF Idle, Unmade
<1>3. \A p \in Pools : pool[p].env = FALSE
  BY <1>1, <1>2
<1>4. \A k \in Keys : filed[k] = NoPool
  BY <1>1
<1>5. \A n \in Names : Known(n, live, hash, plan.ops)
  BY <1>1 DEF Known
<1>6. \A o \in Ops : Moves(o, task[o], pool, live, hash, plan.ops)
  BY <1>1, <1>2 DEF Moves, Loading
<1>7. Environs(filed, pool)
  BY <1>3, <1>4 DEF Environs
<1> QED  BY <1>4, <1>5, <1>6, <1>7 DEF Kept, Listed, Filled

(* What the operation under way of a name knows of the pools that list it.   *)
LEMMA OwnListed ==
  ASSUME PoolInv, RunsApart(task, plan), Kept, NEW o \in Ops, Under(task[o]) \/ MayBegin(o),
         NEW k \in Keys, filed[k] # NoPool, o.model.name \in pool[filed[k]].models
  PROVE  \/ Belongs(o.model.name, k, live, hash, pool, task)
         \/ Tends(o, task[o], o.model.name, k, filed[k])
         \/ ClosesKey(k, task)
<1>1. Listed(o.model.name, k, live, hash, filed, pool, task)
  BY TaskOf DEF Kept
<1>2. ASSUME NEW q \in Ops, Tends(q, task[q], o.model.name, k, filed[k])
      PROVE  q = o
  <2>1. Under(task[q]) /\ q.model.name = o.model.name
    BY <1>2 DEF Tends, Under
  <2> QED  BY <2>1, Differ
<1> QED  BY <1>1, <1>2 DEF Listed

LEMMA BelongsStill ==
  ASSUME PoolInv, RunsApart(task, plan), NEW o \in Ops, o.kind # "close", Under(task[o]) \/ MayBegin(o),
         NEW x, Turns(o, x), NEW k \in Keys,
         live'[o.model.name] = live[o.model.name], hash'[o.model.name] = hash[o.model.name],
         Belongs(o.model.name, k, live, hash, pool, task), Waits(o, x, pool')
  PROVE  Belongs(o.model.name, k, live', hash', pool', task')
<1> DEFINE n == o.model.name
<1>1. \A q \in Ops : task'[q] = IF q = o THEN x ELSE task[q]
  BY DEF Turns, PoolInv
<1>2. ~Closes(task)
  <2>1. CASE Under(task[o])
    BY <2>1 DEF Belongs
  <2>2. CASE MayBegin(o)
    BY <2>2 DEF MayBegin, Running, Closes
  <2> QED  BY <2>1, <2>2
<1>3. ~Closes(task')
  BY <1>1, <1>2 DEF Closes
<1>4. ASSUME NEW q \in Ops, q.model.name = n, Under(task'[q])
      PROVE  Waits(q, task'[q], pool')
  <2>1. q = o
    BY <1>1, <1>4, Differ
  <2> QED  BY <1>1, <2>1
<1> QED  BY <1>3, <1>4 DEF Belongs

LEMMA ClosesStill ==
  ASSUME PoolInv, NEW o \in Ops, o.kind # "close", NEW x, Turns(o, x), NEW k \in Keys, ClosesKey(k, task)
  PROVE  ClosesKey(k, task')
<1>1. \A c \in Ops : c.kind = "close" => task'[c] = task[c]
  BY DEF Turns, PoolInv
<1> QED  BY <1>1 DEF ClosesKey

(* A load that has its pool.                                                *)
LEMMA EnterKept ==
  ASSUME PoolInv, RunsApart(task, plan), Kept, NEW o \in Ops, Loads(o), Under(task[o]) \/ MayBegin(o),
         task[o].stage \in {"idle", "hashing", "extracting"}, NEW x, Turns(o, x), NEW p \in Pools, p # NoPool,
         x.stage = "loading", x.pool = p, x.closing = {},
         o.kind = "load" => live[o.model.name] = NoSettings,
         o.kind = "reload" => /\ live[o.model.name] # NoSettings /\ x.old = live[o.model.name]
                              /\ x.oldHash = hash[o.model.name],
         UNCHANGED <<live, hash>>, pool'[p].key = KeyOf(o.model),
         HasEnv(KeyOf(o.model)) => pool'[p].env = TRUE, Environs(filed', pool'),
         Leftover(o, task, filed, pool, filed', pool'),
         \A k \in Keys : filed'[k] \notin {p, NoPool} => filed'[k] = filed[k] /\ pool'[filed[k]] = pool[filed[k]]
  PROVE  Kept'
<1> DEFINE n == o.model.name
<1>1. n \in Names /\ o.kind # "close"
  BY TaskOf DEF Loads
<1>2. ASSUME NEW k \in Keys, filed'[k] # NoPool, n \in pool'[filed'[k]].models
      PROVE  \/ Belongs(n, k, live', hash', pool', task')
             \/ \E q \in Ops : Tends(q, task'[q], n, k, filed'[k])
             \/ ClosesKey(k, task')
  <2>1. CASE filed'[k] = p
    <3>1. task'[o] = x
      BY DEF Turns, PoolInv
    <3> QED  BY <1>1, <2>1, <3>1 DEF Tends
  <2>2. CASE filed'[k] # p
    <3>1. filed'[k] = filed[k] /\ filed[k] # NoPool /\ n \in pool[filed[k]].models
      BY <1>2, <2>2
    <3>2. ~Tends(o, task[o], n, k, filed[k])
      BY DEF Tends
    <3>3. CASE Belongs(n, k, live, hash, pool, task)
      <4>1. o.kind = "reload"
        BY <3>3 DEF Belongs, Loads
      <4>2. Waits(o, x, pool')
        BY <4>1 DEF Waits, Loading
      <4> QED  BY <1>1, <3>3, <4>2, BelongsStill
    <3>4. CASE ClosesKey(k, task)
      BY <1>1, <3>4, ClosesStill
    <3> QED  BY <3>1, <3>2, <3>3, <3>4, OwnListed
  <2> QED  BY <2>1, <2>2
<1>3. \A k \in Keys : Listed(n, k, live', hash', filed', pool', task')
  BY <1>2 DEF Listed
<1>4. Known(n, live', hash', plan.ops)
  BY <1>1 DEF Kept, Known
<1>5. Moves(o, x, pool', live', hash', plan.ops)
  BY <1>1 DEF Moves
<1>6. ASSUME NEW k \in Keys, filed'[k] # NoPool, pool'[filed'[k]].models = {}
      PROVE  Uses(x, k, filed'[k]) \/ (filed'[k] = filed[k] /\ pool[filed[k]].models = {} /\ ~Uses(task[o], k, filed[k]))
  <2>1. CASE filed'[k] = p
    BY <2>1 DEF Uses
  <2>2. CASE filed'[k] # p
    BY <1>6, <2>2 DEF Uses
  <2> QED  BY <2>1, <2>2
<1>7. OnlyOwn(n, live, hash, live', hash')
  BY DEF OnlyOwn
<1>8. Ours(o, task[o], x, filed, pool, filed', pool', live', hash', task', plan.ops)
  BY <1>3, <1>4, <1>5, <1>6 DEF Ours
<1> QED  BY <1>1, <1>7, <1>8, KeptKept

LEMMA UseKept ==
  ASSUME PoolInv, RunsApart(task, plan), Kept, NEW o \in Ops, Loads(o), Under(task[o]) \/ MayBegin(o),
         task[o].stage \in {"idle", "hashing", "extracting"}, NEW p \in MadeOf(pool),
         pool[p].key = KeyOf(o.model), HasEnv(KeyOf(o.model)) => filed[KeyOf(o.model)] = p,
         NEW t \in TaskTypes, t.closing = {}, o.kind = "load" => live[o.model.name] = NoSettings,
         o.kind = "reload" => /\ live[o.model.name] # NoSettings /\ t.old = live[o.model.name]
                              /\ t.oldHash = hash[o.model.name],
         UsePool(o, p, t), UNCHANGED <<plan, live, hash>>
  PROVE  Kept'
<1>1. /\ p \in Pools /\ p # NoPool /\ pool \in [Pools -> PoolTypes] /\ pool[p] \in PoolTypes
      /\ \A k \in Keys : filed[k] # NoPool => filed[k] \in Pools
      /\ KeyOf(o.model) \in Keys
  BY TaskOf, Absent DEF MadeOf, PoolInv, Filing
<1>2. PICK r : r = Listing(o, pool[p])
  OBVIOUS
<1>3. /\ r \in PoolTypes /\ r.key = pool[p].key /\ r.env = pool[p].env
      /\ r.models = pool[p].models \cup (IF o.kind = "reload" THEN {o.model.name} ELSE {})
  BY <1>1, <1>2, ListingKeeps
<1>4. pool' = [pool EXCEPT ![p] = r] /\ filed' = filed
  BY <1>2 DEF UsePool
<1>5. \A q \in Pools : pool'[q] = IF q = p THEN r ELSE pool[q]
  BY <1>1, <1>4
<1>6. PICK x : x = Enter(o, p, t)
  OBVIOUS
<1>7. /\ task' = [task EXCEPT ![o] = x] /\ x.stage = "loading" /\ x.pool = p /\ x.old = t.old
      /\ x.oldHash = t.oldHash /\ x.closing = {}
  BY <1>6 DEF UsePool, Enter, TaskTypes
<1>8. Turns(o, x)
  BY <1>7 DEF Turns
<1>9. Environs(filed', pool')
  <2>1. Environs(filed, pool)
    BY DEF Kept
  <2> QED  BY <1>1, <1>3, <1>4, <1>5, <2>1 DEF Environs
<1>10. HasEnv(KeyOf(o.model)) => pool'[p].env = TRUE
  <2>1. HasEnv(KeyOf(o.model)) => HasEnv(KeyOf(o.model)) = TRUE
    BY DEF HasEnv
  <2> QED  BY <1>1, <1>4, <1>9, <2>1 DEF Environs
<1>11. Leftover(o, task, filed, pool, filed', pool')
  <2>1. ASSUME NEW k \in Keys, filed'[k] # NoPool
        PROVE  filed'[k] = filed[k] /\ pool'[filed[k]].models \ {o.model.name} = pool[filed[k]].models \ {o.model.name}
    BY <1>1, <1>3, <1>4, <1>5, <2>1
  <2>2. ASSUME NEW q \in Ops, task[q].stage \in {"loading", "unloading"}
        PROVE  task[q].pool \in Pools
    BY <2>2 DEF PoolInv, TaskShape, MadeOf
  <2>3. \A a \in Pools : pool'[a].key = pool[a].key /\ pool'[a].env = pool[a].env
    BY <1>3, <1>5
  <2> QED  BY <2>1, <2>2, <2>3 DEF Leftover
<1>12. \A k \in Keys : filed'[k] \notin {p, NoPool} => filed'[k] = filed[k] /\ pool'[filed[k]] = pool[filed[k]]
  BY <1>1, <1>4, <1>5
<1>13. /\ UNCHANGED <<live, hash>> /\ pool'[p].key = KeyOf(o.model)
       /\ o.kind = "reload" => /\ live[o.model.name] # NoSettings /\ x.old = live[o.model.name]
                               /\ x.oldHash = hash[o.model.name]
  BY <1>1, <1>3, <1>5, <1>7
<1> QED  BY <1>1, <1>7, <1>8, <1>9, <1>10, <1>11, <1>12, <1>13, EnterKept

LEMMA MakeKept ==
  ASSUME PoolInv, RunsApart(task, plan), Kept, NEW o \in Ops, Loads(o), Under(task[o]) \/ MayBegin(o),
         task[o].stage \in {"idle", "hashing", "extracting"}, NEW k \in Keys, k = KeyOf(o.model),
         NEW whole \in BOOLEAN,
         NEW t \in TaskTypes, t.closing = {}, o.kind = "load" => live[o.model.name] = NoSettings,
         o.kind = "reload" => /\ live[o.model.name] # NoSettings /\ t.old = live[o.model.name]
                              /\ t.oldHash = hash[o.model.name],
         MakePool(o, k, whole, t), UNCHANGED <<plan, live, hash>>
  PROVE  Kept'
<1>1. /\ pool \in [Pools -> PoolTypes] /\ filed \in [Keys -> Pools \cup {NoPool}]
      /\ \A j \in Keys : filed[j] # NoPool => filed[j] \in Pools /\ pool[filed[j]].state # "unmade"
  BY DEF PoolInv, Filing
<1>2. PICK p : p = NewPool
  OBVIOUS
<1>3. p \in Pools /\ pool[p].state = "unmade" /\ p # NoPool
  BY <1>2, NewPoolIs, Absent DEF MakePool
<1>4. PICK r : r = Listing(o, Made(k, whole))
  OBVIOUS
<1>5. r \in PoolTypes /\ r.key = k /\ r.env = HasEnv(k) /\ r.models \subseteq {o.model.name}
  <2>1. /\ Made(k, whole) \in PoolTypes /\ Made(k, whole).key = k /\ Made(k, whole).env = HasEnv(k)
        /\ Made(k, whole).models = {}
    BY MadeTyping
  <2> QED  BY <1>4, <2>1, ListingKeeps
<1>6. pool' = [pool EXCEPT ![p] = r] /\ filed' = [filed EXCEPT ![k] = p]
  BY <1>2, <1>4 DEF MakePool
<1>7. PICK x : x = Enter(o, p, t)
  OBVIOUS
<1>8. /\ task' = [task EXCEPT ![o] = x] /\ x.stage = "loading" /\ x.pool = p /\ x.old = t.old
      /\ x.oldHash = t.oldHash /\ x.closing = {}
  BY <1>2, <1>7 DEF MakePool, Enter, TaskTypes
<1>9. Turns(o, x)
  BY <1>8 DEF Turns
<1>10. /\ \A q \in Pools : pool'[q] = IF q = p THEN r ELSE pool[q]
       /\ \A j \in Keys : filed'[j] = IF j = k THEN p ELSE filed[j]
       /\ \A j \in Keys : filed[j] # p
  BY <1>1, <1>3, <1>6
<1>11. HasEnv(k) => r.env = TRUE
  <2>1. HasEnv(k) => HasEnv(k) = TRUE
    BY DEF HasEnv
  <2> QED  BY <1>5, <2>1
<1>12. Environs(filed', pool')
  <2>1. Environs(filed, pool)
    BY DEF Kept
  <2>2. \A j \in Keys : filed'[j] # NoPool => pool'[filed'[j]].env = HasEnv(j)
    BY <1>1, <1>3, <1>5, <1>10, <2>1 DEF Environs
  <2>3. \A q \in Pools : pool'[q].env = TRUE => HasEnv(pool'[q].key)
    BY <1>5, <1>10, <2>1 DEF Environs
  <2> QED  BY <2>2, <2>3 DEF Environs
<1>13. Leftover(o, task, filed, pool, filed', pool')
  <2>1. ASSUME NEW j \in Keys, filed'[j] # NoPool
        PROVE  \/ filed'[j] = filed[j] /\ pool'[filed[j]].models \ {o.model.name} = pool[filed[j]].models \ {o.model.name}
               \/ pool'[filed'[j]].models \subseteq {o.model.name}
    BY <1>1, <1>3, <1>5, <1>10, <2>1
  <2>2. ASSUME NEW q \in Ops, task[q].stage \in {"loading", "unloading"}
        PROVE  pool'[task[q].pool] = pool[task[q].pool]
    <3>1. task[q].pool \in Pools /\ pool[task[q].pool].state # "unmade"
      BY <2>2 DEF PoolInv, TaskShape, MadeOf
    <3> QED  BY <1>3, <1>10, <3>1
  <2> QED  BY <2>1, <2>2 DEF Leftover
<1>14. \A j \in Keys : filed'[j] \notin {p, NoPool} => filed'[j] = filed[j] /\ pool'[filed[j]] = pool[filed[j]]
  BY <1>1, <1>10
<1>15. pool'[p].key = KeyOf(o.model) /\ (HasEnv(KeyOf(o.model)) => pool'[p].env = TRUE)
  BY <1>3, <1>5, <1>10, <1>11
<1>16. /\ UNCHANGED <<live, hash>>
       /\ o.kind = "reload" => /\ live[o.model.name] # NoSettings /\ x.old = live[o.model.name]
                               /\ x.oldHash = hash[o.model.name]
  BY <1>8
<1> QED  BY <1>3, <1>8, <1>9, <1>12, <1>13, <1>14, <1>15, <1>16, EnterKept

(* ... and one that waits for its hash, or for an extraction.                *)
LEMMA WaitKept ==
  ASSUME PoolInv, RunsApart(task, plan), Kept, NEW o \in Ops, Loads(o), Under(task[o]) \/ MayBegin(o),
         task[o].stage \in {"idle", "hashing", "extracting"}, NEW x, Turns(o, x),
         x.stage \in {"hashing", "extracting"}, x.closing = {},
         o.kind = "load" => live[o.model.name] = NoSettings,
         o.kind = "reload" => /\ live[o.model.name] # NoSettings /\ x.old = live[o.model.name]
                              /\ x.oldHash = hash[o.model.name],
         UNCHANGED <<filed, pool, live, hash>>
  PROVE  Kept'
<1> DEFINE n == o.model.name
<1>1. n \in Names /\ o.kind # "close"
  BY TaskOf DEF Loads
<1>2. ASSUME NEW k \in Keys, filed'[k] # NoPool, n \in pool'[filed'[k]].models
      PROVE  Belongs(n, k, live', hash', pool', task') \/ ClosesKey(k, task')
  <2>1. ~Tends(o, task[o], n, k, filed[k])
    BY DEF Tends
  <2>2. CASE Belongs(n, k, live, hash, pool, task)
    <3>1. o.kind = "reload"
      BY <2>2 DEF Belongs, Loads
    <3>2. Waits(o, x, pool')
      BY <3>1 DEF Waits, Loading
    <3> QED  BY <1>1, <2>2, <3>2, BelongsStill
  <2>3. CASE ClosesKey(k, task)
    BY <1>1, <2>3, ClosesStill
  <2> QED  BY <1>2, <2>1, <2>2, <2>3, OwnListed
<1>3. \A k \in Keys : Listed(n, k, live', hash', filed', pool', task')
  BY <1>2 DEF Listed
<1>4. Known(n, live', hash', plan.ops) /\ Environs(filed', pool')
  BY <1>1 DEF Kept, Known
<1>5. Moves(o, x, pool', live', hash', plan.ops)
  BY <1>1 DEF Moves
<1>6. \A k \in Keys : ~Uses(task[o], k, filed[k])
  BY DEF Uses
<1>7. OnlyOwn(n, live, hash, live', hash') /\ Leftover(o, task, filed, pool, filed', pool')
  BY DEF OnlyOwn, Leftover
<1>8. Ours(o, task[o], x, filed, pool, filed', pool', live', hash', task', plan.ops)
  BY <1>3, <1>4, <1>5, <1>6 DEF Ours
<1> QED  BY <1>1, <1>7, <1>8, KeptKept

LEMMA BeginLoadKept ==
  ASSUME PoolInv, RunsApart(task, plan), Kept, NEW o \in Ops, BeginLoad(o)
  PROVE  Kept'
<1> DEFINE k == KeyOf(o.model)
           n == o.model.name
<1>1. o.model \in Settings /\ k \in Keys /\ n \in Names
  BY TaskOf
<1>2. PICK t : t = [Idle EXCEPT !.old = live[o.model.name], !.oldHash = hash[o.model.name]]
  OBVIOUS
<1>3. /\ MayBegin(o) /\ task[o].stage = "idle" /\ UNCHANGED <<plan, dir, live, hash>>
      /\ \/ o.kind = "load" /\ live[n] = NoSettings
         \/ o.kind = "reload" /\ live[n] # NoSettings
  BY DEF BeginLoad, MayBegin
<1>4. live[n] \in Settings \cup {NoSettings} /\ hash[n] \in Keys \cup {NoHash}
  BY <1>1 DEF PoolInv
<1>5. t \in TaskTypes /\ t.old = live[n] /\ t.oldHash = hash[n] /\ t.closing = {}
  BY <1>2, <1>4 DEF Idle, TaskTypes, Stages
<1>6. /\ Loads(o) /\ (o.kind = "load" => live[n] = NoSettings)
      /\ o.kind = "reload" => live[n] # NoSettings /\ t.old = live[n] /\ t.oldHash = hash[n]
  BY <1>3, <1>5 DEF Loads
<1>7. CASE HasEnv(k)
  <2>1. task' = [task EXCEPT ![o] = [t EXCEPT !.stage = "hashing"]] /\ UNCHANGED <<filed, pool>>
    BY <1>2, <1>7 DEF BeginLoad
  <2>2. PICK x : x = [t EXCEPT !.stage = "hashing"]
    OBVIOUS
  <2>3. /\ x.stage = "hashing" /\ x.old = t.old /\ x.oldHash = t.oldHash /\ x.closing = {}
        /\ task' = [task EXCEPT ![o] = x]
    BY <1>5, <2>1, <2>2 DEF TaskTypes
  <2>4. Turns(o, x)
    BY <1>3, <2>3 DEF Turns
  <2> QED  BY <1>3, <1>6, <2>1, <2>3, <2>4, WaitKept
<1>8. CASE ~HasEnv(k) /\ At(k) # NoPool
  <2>1. PICK p : p = At(k)
    OBVIOUS
  <2>2. UsePool(o, p, t) /\ p \in MadeOf(pool)
    BY <1>1, <1>2, <1>8, <2>1, FoundTyping DEF BeginLoad
  <2>3. pool[p].key = KeyOf(o.model)
    <3>1. CASE k = DefaultKey
      BY <2>1, <3>1 DEF At, PoolInv, Filing
    <3>2. CASE k # DefaultKey
      BY <1>1, <1>8, <2>1, <3>2 DEF At, PoolInv, Filing
    <3> QED  BY <3>1, <3>2
  <2> QED  BY <1>3, <1>5, <1>6, <1>8, <2>2, <2>3, UseKept
<1>9. CASE ~HasEnv(k) /\ At(k) = NoPool
  <2>1. MakePool(o, k, TRUE, t)
    BY <1>2, <1>9 DEF BeginLoad
  <2>2. k = KeyOf(o.model)
    OBVIOUS
  <2> HIDE DEF k
  <2> QED  BY <1>1, <1>3, <1>5, <1>6, <2>1, <2>2, MakeKept
<1> QED  BY <1>7, <1>8, <1>9

(* What a load under way goes on with.                                      *)
LEMMA LoadingNow ==
  ASSUME PoolInv, Kept, NEW o \in Ops, Loading(task[o])
  PROVE  /\ Under(task[o]) /\ Loads(o) /\ task[o] \in TaskTypes /\ task[o].closing = {} /\ o \in plan.ops
         /\ o.kind = "load" => live[o.model.name] = NoSettings
         /\ o.kind = "reload" => /\ live[o.model.name] # NoSettings /\ task[o].old = live[o.model.name]
                                 /\ task[o].oldHash = hash[o.model.name]
<1>1. task[o] \in TaskTypes /\ TaskShape(o, task[o], MadeOf(pool), plan.ops) /\ Moves(o, task[o], pool, live, hash, plan.ops)
  BY TaskOf DEF Kept
<1> QED  BY <1>1 DEF TaskShape, Loading, Under, Loads, Moves

LEMMA FinishHashKept ==
  ASSUME PoolInv, RunsApart(task, plan), Kept, NEW o \in Ops, FinishHash(o)
  PROVE  Kept'
<1> DEFINE k == KeyOf(o.model)
<1>1. k \in Keys /\ task[o].stage = "hashing" /\ UNCHANGED <<plan, live, hash>> /\ Loading(task[o])
  BY TaskOf DEF FinishHash, Loading
<1>2. /\ Under(task[o]) /\ Loads(o) /\ task[o] \in TaskTypes /\ task[o].closing = {}
      /\ o.kind = "load" => live[o.model.name] = NoSettings
      /\ o.kind = "reload" => /\ live[o.model.name] # NoSettings /\ task[o].old = live[o.model.name]
                              /\ task[o].oldHash = hash[o.model.name]
  BY <1>1, LoadingNow
<1>3. CASE filed[k] # NoPool /\ UsePool(o, filed[k], task[o])
  <2>1. PICK p : p = filed[k]
    OBVIOUS
  <2>2. p \in MadeOf(pool) /\ pool[p].key = k
    BY <1>1, <1>3, <2>1 DEF PoolInv, Filing, MadeOf
  <2>3. UsePool(o, p, task[o]) /\ filed[KeyOf(o.model)] = p /\ pool[p].key = KeyOf(o.model)
    BY <1>3, <2>1, <2>2
  <2> QED  BY <1>1, <1>2, <2>2, <2>3, UseKept
<1>4. ASSUME NEW whole \in BOOLEAN, MakePool(o, k, whole, task[o])
      PROVE  Kept'
  <2>1. k = KeyOf(o.model)
    OBVIOUS
  <2> HIDE DEF k
  <2> QED  BY <1>1, <1>2, <1>4, <2>1, MakeKept
<1>5. CASE task' = [task EXCEPT ![o].stage = "extracting"] /\ UNCHANGED <<filed, pool>>
  <2>1. PICK x : x = [task[o] EXCEPT !.stage = "extracting"]
    OBVIOUS
  <2>2. /\ x.stage = "extracting" /\ x.old = task[o].old /\ x.oldHash = task[o].oldHash /\ x.closing = {}
        /\ task' = [task EXCEPT ![o] = x]
    BY <1>2, <1>5, <2>1 DEF TaskTypes, PoolInv
  <2>3. Turns(o, x)
    BY <1>1, <1>2, <2>2 DEF Turns
  <2> QED  BY <1>1, <1>2, <1>5, <2>2, <2>3, WaitKept
<1>6. (dir[k] = "whole") \in BOOLEAN
  OBVIOUS
<1> QED  BY <1>3, <1>4, <1>5, <1>6 DEF FinishHash

LEMMA FinishExtractKept ==
  ASSUME PoolInv, RunsApart(task, plan), Kept, NEW o \in Ops, FinishExtract(o)
  PROVE  Kept'
<1> DEFINE k == KeyOf(o.model)
<1>1. k \in Keys /\ task[o].stage = "extracting" /\ UNCHANGED <<plan, live, hash>> /\ Loading(task[o])
  BY TaskOf DEF FinishExtract, Loading
<1>2. /\ Under(task[o]) /\ Loads(o) /\ task[o] \in TaskTypes /\ task[o].closing = {}
      /\ o.kind = "load" => live[o.model.name] = NoSettings
      /\ o.kind = "reload" => /\ live[o.model.name] # NoSettings /\ task[o].old = live[o.model.name]
                              /\ task[o].oldHash = hash[o.model.name]
  BY <1>1, LoadingNow
<1>3. PICK whole \in BOOLEAN : whole = (dir[k] = "partial")
  OBVIOUS
<1>4. MakePool(o, k, whole, task[o]) /\ k = KeyOf(o.model)
  BY <1>3 DEF FinishExtract
<1> HIDE DEF k
<1> QED  BY <1>1, <1>2, <1>4, MakeKept

(* The pool an unload goes to is one that s belongs to, by its hash or gid.  *)
LEMMA FoundLeaving ==
  ASSUME PoolInv, NEW s \in Settings, NEW h \in Keys \cup {NoHash}, HashOK(s, h), Found(s, h) # NoPool
  PROVE  Found(s, h) \in Pools /\ pool[Found(s, h)].key \in Leaving(s)
<1>1. PICK j : j = IF h # NoHash THEN h ELSE <<NoEnv, s.gid>>
  OBVIOUS
<1>2. j \in Keys /\ j \in Leaving(s)
  BY <1>1, Absent DEF HashOK, Leaving
<1>3. PICK p : p = At(j)
  OBVIOUS
<1>4. p = Found(s, h)
  BY <1>1, <1>3 DEF Found
<1>5. p \in Pools /\ pool[p].key = j
  <2>1. CASE j = DefaultKey
    BY <1>3, <2>1, Absent DEF At, PoolInv, Filing
  <2>2. CASE j # DefaultKey
    BY <1>2, <1>3, <1>4, <2>2 DEF At, PoolInv, Filing
  <2> QED  BY <2>1, <2>2
<1> QED  BY <1>2, <1>4, <1>5

(* What the end of an operation leaves to the registry.                     *)
LEMMA BelongsNow ==
  ASSUME PoolInv, RunsApart(task, plan), NEW o \in Ops, Under(task[o]) \/ MayBegin(o),
         NEW x, Turns(o, x), ~Under(x), NEW k \in Keys,
         live'[o.model.name] = o.model, hash'[o.model.name] = HashOf(o.model), KeyOf(o.model) = k
  PROVE  Belongs(o.model.name, k, live', hash', pool', task')
<1>1. \A q \in Ops : task'[q] = IF q = o THEN x ELSE task[q]
  BY DEF Turns, PoolInv
<1>2. ASSUME NEW q \in Ops, q.model.name = o.model.name, Under(task'[q])
      PROVE  FALSE
  <2>1. q # o /\ Under(task[q])
    BY <1>1, <1>2
  <2> QED  BY <1>2, <2>1, Differ
<1>3. o.model # NoSettings
  BY TaskOf, Absent
<1> QED  BY <1>2, <1>3 DEF Belongs

(* The settings of a model that stays in its pool while it is reloaded, and  *)
(* does not change its group without an environment.                        *)
LEMMA SameKey ==
  ASSUME PoolInv, NEW o \in Ops, NEW s \in Settings, NEW p \in Pools, pool[p] \in PoolTypes,
         pool[p].key = KeyOf(o.model), EnvHash(p) = HashOf(s),
         HasEnv(KeyOf(o.model)) => pool[p].env = TRUE,
         ~(s.gid # o.model.gid /\ s.env = NoEnv /\ o.model.env = NoEnv)
  PROVE  KeyOf(o.model) = KeyOf(s) /\ EnvHash(p) = HashOf(o.model)
<1>1. KeyOf(s) \in Keys /\ KeyOf(s) # NoHash /\ KeyOf(o.model) \in Keys /\ KeyOf(o.model) # NoHash
  BY TaskOf, Absent DEF Keys, NoHash, KeyOf
<1>2. CASE HasEnv(KeyOf(s))
  <2>1. EnvHash(p) = KeyOf(s) /\ KeyOf(s) = KeyOf(o.model)
    BY <1>1, <1>2 DEF HashOf, EnvHash
  <2> QED  BY <1>2, <2>1 DEF HashOf
<1>3. CASE ~HasEnv(KeyOf(s))
  <2>1. EnvHash(p) = NoHash
    BY <1>3 DEF HashOf
  <2>2. pool[p].env # TRUE
    BY <1>1, <2>1 DEF EnvHash
  <2>3. ~HasEnv(KeyOf(o.model))
    BY <2>2
  <2>4. s.env = NoEnv /\ o.model.env = NoEnv
    BY <1>3, <2>3 DEF HasEnv, KeyOf
  <2>5. KeyOf(o.model) = KeyOf(s)
    BY <2>4 DEF KeyOf
  <2> QED  BY <2>1, <2>3, <2>5 DEF HashOf
<1> QED  BY <1>2, <1>3

LEMMA FinishLoadKept ==
  ASSUME PoolInv, RunsApart(task, plan), Kept, NEW o \in Ops, FinishLoad(o), ~Failed', ~Regrouped(o)'
  PROVE  Kept'
<1> DEFINE k0 == KeyOf(o.model)
           n == o.model.name
<1>0. PICK p, r, x, h : LoadEnds(o, p, r, x, h)
  BY FinishLoadParts
<1>1. /\ p = task[o].pool /\ p \in Pools /\ p \in MadeOf(pool) /\ h = EnvHash(p) /\ task[o].stage = "loading"
      /\ pool' = [pool EXCEPT ![p] = r] /\ r \in PoolTypes
      /\ r.key = pool[p].key /\ r.env = pool[p].env /\ r.models = pool[p].models \cup {n}
      /\ task' = [task EXCEPT ![o] = x]
      /\ x.hash = h /\ x.old = task[o].old /\ x.closing = task[o].closing
      /\ UNCHANGED <<plan, filed, dir>>
  BY <1>0 DEF LoadEnds
<1>2. /\ Under(task[o]) /\ Loads(o) /\ task[o].closing = {} /\ o \in plan.ops /\ o.kind # "close"
      /\ o.kind = "load" => live[n] = NoSettings
      /\ o.kind = "reload" => live[n] # NoSettings /\ task[o].old = live[n] /\ task[o].oldHash = hash[n]
      /\ o.kind \in {"load", "reload"}
  BY <1>1, LoadingNow DEF Loading, Loads
<1>3. /\ o.model \in Settings /\ k0 \in Keys /\ n \in Names /\ pool \in [Pools -> PoolTypes] /\ pool[p] \in PoolTypes
      /\ task'[o] = x /\ live[n] \in Settings \cup {NoSettings} /\ hash[n] \in Keys \cup {NoHash}
  BY <1>1, TaskOf DEF PoolInv, Filing
<1>4. Turns(o, x)
  BY <1>1, <1>2 DEF Turns
<1>5. /\ \A q \in Pools : pool'[q] = IF q = p THEN r ELSE pool[q]
      /\ \A k \in Keys : filed[k] # NoPool => filed[k] \in Pools /\ pool[filed[k]].key = k
      /\ filed[DefaultKey] = NoPool
  BY <1>1, <1>3 DEF PoolInv, Filing
<1>6. pool[p].key = k0 /\ Environs(filed, pool)
  BY <1>1 DEF Kept, Moves
<1>7. Environs(filed', pool')
  BY <1>1, <1>5, <1>6 DEF Environs
<1>8. Leftover(o, task, filed, pool, filed', pool')
  <2>1. \A k \in Keys : filed'[k] # NoPool => filed'[k] = filed[k] /\ pool'[filed[k]].models \ {n} = pool[filed[k]].models \ {n}
    BY <1>1, <1>5
  <2>2. ASSUME NEW q \in Ops, task[q].stage \in {"loading", "unloading"}
        PROVE  task[q].pool \in Pools
    BY <2>2 DEF PoolInv, TaskShape, MadeOf
  <2>3. \A a \in Pools : pool'[a].key = pool[a].key /\ pool'[a].env = pool[a].env
    BY <1>1, <1>5
  <2> QED  BY <2>1, <2>2, <2>3 DEF Leftover
<1>9. \A k \in Keys : filed[k] = p /\ filed[k] # NoPool => k = k0 /\ h = HashOf(o.model)
  <2> SUFFICES ASSUME NEW k \in Keys, filed[k] = p, filed[k] # NoPool PROVE k = k0 /\ h = HashOf(o.model)
    OBVIOUS
  <2>1. k = k0 /\ pool[p].env = HasEnv(k0)
    BY <1>5, <1>6 DEF Environs
  <2> QED  BY <1>1, <1>6, <2>1 DEF EnvHash, HashOf
<1>10. \A k \in Keys : filed'[k] # NoPool /\ pool'[filed'[k]].models = {} =>
         filed'[k] = filed[k] /\ pool[filed[k]].models = {} /\ ~Uses(task[o], k, filed[k])
  <2> SUFFICES ASSUME NEW k \in Keys, filed'[k] # NoPool, pool'[filed'[k]].models = {}
               PROVE  filed'[k] = filed[k] /\ pool[filed[k]].models = {} /\ ~Uses(task[o], k, filed[k])
    OBVIOUS
  <2>1. filed'[k] = filed[k] /\ filed[k] # p
    BY <1>1, <1>5
  <2> QED  BY <1>1, <1>5, <2>1 DEF Uses
<1>11. ASSUME NEW k \in Keys, filed'[k] # NoPool, n \in pool'[filed'[k]].models
       PROVE  \/ filed'[k] = p
              \/ Belongs(n, k, live, hash, pool, task)
              \/ ClosesKey(k, task')
  <2> SUFFICES ASSUME filed'[k] # p PROVE Belongs(n, k, live, hash, pool, task) \/ ClosesKey(k, task')
    OBVIOUS
  <2>1. filed'[k] = filed[k] /\ filed[k] # NoPool /\ n \in pool[filed[k]].models /\ filed[k] # p
    BY <1>1, <1>5, <1>11
  <2>2. ~Tends(o, task[o], n, k, filed[k])
    BY <1>1, <2>1 DEF Tends
  <2> QED  BY <1>2, <1>4, <2>1, <2>2, OwnListed, ClosesStill
<1>12. ASSUME NEW k \in Keys, Belongs(n, k, live, hash, pool, task)
       PROVE  /\ o.kind = "reload" /\ live[n] \in Settings /\ KeyOf(live[n]) = k /\ hash[n] = HashOf(live[n])
              /\ HasEnv(k0) => pool[p].env = TRUE
  <2>1. live[n] # NoSettings /\ KeyOf(live[n]) = k /\ hash[n] = HashOf(live[n])
    BY <1>12 DEF Belongs
  <2>2. Waits(o, task[o], pool)
    BY <1>2, <1>12 DEF Belongs
  <2> QED  BY <1>1, <1>3, <2>1, <2>2 DEF Waits
<1>13. HashOK(o.model, h)
  <2>1. h # NoHash => pool[p].env = TRUE /\ h = k0
    BY <1>1, <1>3, <1>6 DEF EnvHash, PoolTypes
  <2> QED  BY <1>1, <1>6, <2>1 DEF HashOK, Environs
<1>14. CASE ~(o.kind = "reload" /\ task[o].oldHash # h)
  <2>1. x.stage = "done" /\ Settle(o, TRUE, h)
    BY <1>0, <1>14 DEF LoadEnds
  <2>2. live' = [live EXCEPT ![n] = o.model] /\ hash' = [hash EXCEPT ![n] = h]
    BY <1>2, <2>1 DEF Settle, Loads
  <2>3. live'[n] = o.model /\ hash'[n] = h /\ OnlyOwn(n, live, hash, live', hash')
    BY <1>3, <2>2 DEF PoolInv, OnlyOwn
  <2>4. Known(n, live', hash', plan.ops)
    <3>1. Planned(n, o.model, plan.ops)
      BY <1>2, <1>3 DEF Planned
    <3> QED  BY <1>13, <2>3, <3>1 DEF Known
  <2>5. Moves(o, x, pool', live', hash', plan.ops)
    BY <1>2, <2>1 DEF Moves, Loading
  <2>6. ASSUME NEW k \in Keys, filed'[k] # NoPool, n \in pool'[filed'[k]].models
        PROVE  Belongs(n, k, live', hash', pool', task') \/ ClosesKey(k, task')
    <3>1. ASSUME k = k0, h = HashOf(o.model)
          PROVE  Belongs(n, k, live', hash', pool', task')
      <4>1. ~Under(x)
        BY <2>1 DEF Under
      <4> QED  BY <1>2, <1>4, <2>3, <3>1, <4>1, BelongsNow
    <3>2. CASE filed'[k] = p
      BY <1>1, <1>9, <2>6, <3>1, <3>2
    <3>3. CASE Belongs(n, k, live, hash, pool, task)
      <4>1. PICK s : s = live[n]
        OBVIOUS
      <4>2. /\ o.kind = "reload" /\ s \in Settings /\ KeyOf(s) = k /\ hash[n] = HashOf(s)
            /\ HasEnv(k0) => pool[p].env = TRUE
        BY <1>12, <3>3, <4>1
      <4>3. h = HashOf(s) /\ x.old = s
        BY <1>1, <1>2, <1>14, <4>1, <4>2
      <4>4. ~(s.gid # o.model.gid /\ s.env = NoEnv /\ o.model.env = NoEnv)
        BY <1>3, <2>1, <4>2, <4>3 DEF Regrouped
      <4>5. k0 = k /\ h = HashOf(o.model)
        BY <1>1, <1>3, <1>6, <4>2, <4>3, <4>4, SameKey
      <4> QED  BY <3>1, <4>5
    <3> QED  BY <1>11, <2>6, <3>2, <3>3
  <2>7. \A k \in Keys : Listed(n, k, live', hash', filed', pool', task')
    BY <2>6 DEF Listed
  <2>8. Ours(o, task[o], x, filed, pool, filed', pool', live', hash', task', plan.ops)
    BY <1>7, <1>10, <2>4, <2>5, <2>7 DEF Ours
  <2> QED  BY <1>2, <1>4, <1>8, <2>3, <2>8, KeptKept
<1>15. CASE o.kind = "reload" /\ task[o].oldHash # h
  <2>1. /\ Settle(o, FALSE, h) /\ x.pool = Found(task[o].old, task[o].oldHash)
        /\ x.stage = IF x.pool = NoPool THEN "failed" ELSE "unloading"
    BY <1>0, <1>15 DEF LoadEnds
  <2>2. x.stage = "unloading" /\ x.pool # NoPool
    BY <1>3, <2>1 DEF Failed
  <2>3. live' = live /\ hash' = hash
    BY <2>1 DEF Settle
  <2>4. PICK s : s = live[n]
    OBVIOUS
  <2>5. s \in Settings /\ x.old = s /\ x.pool = Found(s, hash[n]) /\ Planned(n, s, plan.ops) /\ HashOK(s, hash[n])
    BY <1>1, <1>2, <1>3, <1>15, <2>1, <2>4 DEF Kept, Known
  <2>6. Known(n, live', hash', plan.ops)
    BY <1>3, <2>3 DEF Kept, Known
  <2>7. Moves(o, x, pool', live', hash', plan.ops)
    <3>1. x.pool \in Pools /\ pool[x.pool].key \in Leaving(s)
      BY <1>3, <2>2, <2>5, FoundLeaving
    <3>2. pool'[x.pool].key \in Leaving(s)
      BY <1>1, <1>5, <3>1
    <3> QED  BY <1>1, <1>2, <1>13, <1>15, <2>2, <2>5, <3>2 DEF Moves, Loading, Leaves
  <2>8. ASSUME NEW k \in Keys, filed'[k] # NoPool, n \in pool'[filed'[k]].models
        PROVE  Tends(o, x, n, k, filed'[k]) \/ ClosesKey(k, task')
    <3>1. CASE filed'[k] = p
      <4>1. k = k0 /\ h = HashOf(o.model)
        BY <1>1, <1>9, <2>8, <3>1
      <4> QED  BY <1>1, <1>2, <1>15, <2>2, <4>1 DEF Tends
    <3>2. CASE Belongs(n, k, live, hash, pool, task)
      <4>1. KeyOf(s) = k /\ hash[n] = HashOf(s)
        BY <1>12, <2>4, <3>2
      <4>2. x.pool = AtIn(filed, k)
        BY <2>5, <4>1, FoundHome
      <4>3. x.pool = filed'[k]
        BY <1>1, <1>5, <2>8, <4>2 DEF AtIn
      <4> QED  BY <1>2, <2>2, <4>3 DEF Tends
    <3> QED  BY <1>11, <2>8, <3>1, <3>2
  <2>9. \A k \in Keys : Listed(n, k, live', hash', filed', pool', task')
    BY <1>3, <2>8 DEF Listed
  <2>10. OnlyOwn(n, live, hash, live', hash')
    BY <2>3 DEF OnlyOwn
  <2>11. Ours(o, task[o], x, filed, pool, filed', pool', live', hash', task', plan.ops)
    BY <1>7, <1>10, <2>6, <2>7, <2>9 DEF Ours
  <2> QED  BY <1>2, <1>4, <1>8, <2>10, <2>11, KeptKept
<1> QED  BY <1>14, <1>15

LEMMA BeginUnloadKept ==
  ASSUME PoolInv, RunsApart(task, plan), Kept, NEW o \in Ops, BeginUnload(o), ~Failed'
  PROVE  Kept'
<1> DEFINE n == o.model.name
<1>1. /\ MayBegin(o) /\ o.kind = "unload" /\ live[n] # NoSettings /\ live' = [live EXCEPT ![n] = NoSettings]
      /\ UNCHANGED <<plan, filed, pool, dir, hash>> /\ task[o].stage = "idle" /\ n \in Names
  BY TaskOf DEF BeginUnload, MayBegin
<1>2. live[n] \in Settings /\ hash[n] \in Keys \cup {NoHash} /\ Known(n, live, hash, plan.ops)
  BY <1>1 DEF PoolInv, Kept
<1>3. PICK s : s = live[n]
  OBVIOUS
<1>4. PICK p : p = Found(s, hash[n])
  OBVIOUS
<1>5. PICK late \in BOOLEAN : late = (p # NoPool /\ pool[p].state = "closed")
  OBVIOUS
<1>6. PICK x : x = [Idle EXCEPT !.stage = IF p = NoPool THEN "failed" ELSE "unloading",
                                !.pool = p, !.old = s, !.late = late]
  OBVIOUS
<1>7. task' = [task EXCEPT ![o] = x]
  BY <1>3, <1>4, <1>5, <1>6 DEF BeginUnload
<1>8. /\ x.stage = (IF p = NoPool THEN "failed" ELSE "unloading") /\ x.pool = p /\ x.old = s /\ x.closing = {}
      /\ task'[o] = x
  BY <1>6, <1>7 DEF Idle, PoolInv
<1>9. x.stage = "unloading" /\ p # NoPool
  BY <1>8 DEF Failed
<1>10. Turns(o, x)
  BY <1>1, <1>7 DEF Turns
<1>11. s \in Settings /\ Planned(n, s, plan.ops) /\ HashOK(s, hash[n])
  BY <1>1, <1>2, <1>3 DEF Known
<1>12. p \in Pools /\ pool[p].key \in Leaving(s)
  BY <1>2, <1>4, <1>9, <1>11, FoundLeaving
<1>13. live'[n] = NoSettings /\ OnlyOwn(n, live, hash, live', hash')
  BY <1>1 DEF PoolInv, OnlyOwn
<1>14. ASSUME NEW k \in Keys, filed'[k] # NoPool, n \in pool'[filed'[k]].models
       PROVE  Tends(o, x, n, k, filed'[k]) \/ ClosesKey(k, task')
  <2>1. ~Tends(o, task[o], n, k, filed[k])
    BY <1>1 DEF Tends
  <2>2. CASE Belongs(n, k, live, hash, pool, task)
    <3>1. KeyOf(s) = k /\ hash[n] = HashOf(s)
      BY <1>3, <2>2 DEF Belongs
    <3>2. p = AtIn(filed, k)
      BY <1>4, <1>11, <3>1, FoundHome
    <3>3. filed[DefaultKey] = NoPool
      BY DEF PoolInv, Filing
    <3>4. p = filed'[k]
      BY <1>1, <1>14, <3>2, <3>3 DEF AtIn
    <3> QED  BY <1>1, <1>8, <1>9, <3>4 DEF Tends
  <2>3. CASE ClosesKey(k, task)
    BY <1>1, <1>10, <2>3, ClosesStill
  <2> QED  BY <1>1, <1>14, <2>1, <2>2, <2>3, OwnListed
<1>15. \A k \in Keys : Listed(n, k, live', hash', filed', pool', task')
  BY <1>8, <1>14 DEF Listed
<1>16. Known(n, live', hash', plan.ops) /\ Environs(filed', pool')
  BY <1>1, <1>13 DEF Known, Kept
<1>17. Moves(o, x, pool', live', hash', plan.ops)
  BY <1>1, <1>8, <1>9, <1>11, <1>12 DEF Moves, Loading, Leaves
<1>18. \A k \in Keys : ~Uses(task[o], k, filed[k])
  BY <1>1 DEF Uses
<1>19. Leftover(o, task, filed, pool, filed', pool')
  BY <1>1 DEF Leftover
<1>20. Ours(o, task[o], x, filed, pool, filed', pool', live', hash', task', plan.ops)
  BY <1>1, <1>15, <1>16, <1>17, <1>18 DEF Ours
<1> QED  BY <1>1, <1>10, <1>13, <1>19, <1>20, KeptKept

(* A model has left a pool, or the pool is taken out: what is settled.       *)
LEMMA LeavesKnown ==
  ASSUME PoolInv, Kept, NEW o \in Ops, task[o].stage \in {"unloading", "closing"}, o.kind # "close",
         NEW well, Settle(o, well, task[o].hash)
  PROVE  /\ OnlyOwn(o.model.name, live, hash, live', hash')
         /\ Known(o.model.name, live', hash', plan.ops)
         /\ well /\ o.kind = "reload" => live'[o.model.name] = o.model /\ hash'[o.model.name] = task[o].hash
<1> DEFINE n == o.model.name
<1>1. /\ Moves(o, task[o], pool, live, hash, plan.ops) /\ Known(n, live, hash, plan.ops)
      /\ o \in plan.ops /\ n \in Names /\ o.model \in Settings
  BY TaskOf DEF Kept, TaskShape
<1>2. CASE well /\ o.kind = "reload"
  <2>1. live' = [live EXCEPT ![n] = o.model] /\ hash' = [hash EXCEPT ![n] = task[o].hash]
    BY <1>2 DEF Settle
  <2>2. live'[n] = o.model /\ hash'[n] = task[o].hash /\ OnlyOwn(n, live, hash, live', hash')
    BY <1>1, <2>1 DEF PoolInv, OnlyOwn
  <2>3. Planned(n, o.model, plan.ops) /\ HashOK(o.model, task[o].hash)
    BY <1>1, <1>2 DEF Planned, Loads, Moves
  <2> QED  BY <2>2, <2>3 DEF Known
<1>3. CASE ~(well /\ o.kind = "reload")
  <2>1. o.kind \in {"reload", "unload"}
    BY <1>1 DEF Moves, Leaves
  <2>2. live' = live /\ hash' = hash
    BY <1>3, <2>1 DEF Settle
  <2> QED  BY <1>1, <1>3, <2>2 DEF OnlyOwn, Known
<1> QED  BY <1>2, <1>3

LEMMA FinishUnloadKept ==
  ASSUME PoolInv, RunsApart(task, plan), Kept, NEW o \in Ops, FinishUnload(o), ~Failed'
  PROVE  Kept'
<1> DEFINE n == o.model.name
<1>0. PICK p, r, x, key, known, emptied, closes : UnloadEnds(o, p, r, x, key, known, emptied, closes)
  BY FinishUnloadParts
<1>1. /\ p = task[o].pool /\ p \in Pools /\ key \in Keys /\ known \in BOOLEAN /\ emptied \in BOOLEAN
      /\ key = (IF EnvHash(p) # NoHash THEN EnvHash(p) ELSE <<NoEnv, task[o].old.gid>>)
      /\ task[o].stage = "unloading"
      /\ closes \in BOOLEAN /\ closes = (emptied /\ filed[key] # NoPool)
      /\ pool' \in [Pools -> PoolTypes] /\ pool'[p] = r
      /\ r \in PoolTypes /\ r.key = pool[p].key /\ r.env = pool[p].env
      /\ task' = [task EXCEPT ![o] = x] /\ x.hash = task[o].hash /\ x.old = task[o].old
      /\ UNCHANGED <<plan, filed, dir>> /\ Settle(o, known /\ ~emptied, task[o].hash)
  BY <1>0 DEF UnloadEnds
<1>2. /\ Moves(o, task[o], pool, live, hash, plan.ops) /\ task[o] \in TaskTypes /\ o \in plan.ops
      /\ pool \in [Pools -> PoolTypes] /\ pool[p] \in PoolTypes /\ n \in Names /\ task'[o] = x
  BY <1>1, TaskOf DEF Kept, TaskShape, PoolInv, Filing
<1>3. /\ Leaves(o) /\ o.kind # "close" /\ Planned(n, task[o].old, plan.ops) /\ pool[p].key \in Leaving(task[o].old)
      /\ task[o].old.name = n /\ task[o].old \in Settings /\ Under(task[o])
  BY <1>1, <1>2 DEF Moves, Planned, Leaves, Under
<1>4. known /\ closes = emptied /\ x.stage = (IF emptied THEN "closing" ELSE "done")
  <2>1. x.stage = (IF closes THEN "closing" ELSE IF known /\ ~emptied THEN "done" ELSE "failed")
    BY <1>0 DEF UnloadEnds
  <2>2. x.stage # "failed"
    BY <1>2 DEF Failed
  <2>3. emptied => known
    BY <1>0 DEF UnloadEnds
  <2> QED  BY <1>1, <2>1, <2>2, <2>3
<1>5. /\ x.stage = (IF emptied THEN "closing" ELSE "done") /\ x.closing = (IF emptied THEN {key} ELSE {})
      /\ r.models = pool[p].models \ {n}
      /\ emptied = (p # DefaultPool /\ r.models = {} /\ key # DefaultKey)
  <2>1. /\ x.closing = (IF closes THEN {key} ELSE {})
        /\ r.models = (IF known THEN pool[p].models \ {task[o].old.name} ELSE pool[p].models)
        /\ emptied = (known /\ p # DefaultPool /\ pool[p].models \ {task[o].old.name} = {} /\ key # DefaultKey)
    BY <1>0 DEF UnloadEnds
  <2>2. known = TRUE /\ closes = emptied
    BY <1>1, <1>4
  <2> QED  BY <1>3, <1>4, <2>1, <2>2
<1>6. Turns(o, x)
  BY <1>1, <1>3 DEF Turns
<1>7. /\ \A q \in Pools : /\ pool'[q].key = pool[q].key /\ pool'[q].env = pool[q].env
                          /\ pool'[q].models = IF q = p THEN r.models ELSE pool[q].models
      /\ \A k \in Keys : filed[k] # NoPool => filed[k] \in Pools /\ pool[filed[k]].key = k
      /\ filed[DefaultKey] = NoPool /\ pool[DefaultPool].key = DefaultKey
  <2>0. UnloadKeeps(p)
    BY <1>0 DEF UnloadEnds
  <2>1. \A q \in Pools : /\ pool'[q].key = pool[q].key /\ pool'[q].env = pool[q].env
                         /\ q # p => pool'[q].models = pool[q].models
    BY <2>0 DEF UnloadKeeps
  <2>2. \A q \in Pools : pool'[q].models = IF q = p THEN r.models ELSE pool[q].models
    BY <1>1, <2>1
  <2>3. /\ \A k \in Keys : filed[k] # NoPool => filed[k] \in Pools /\ pool[filed[k]].key = k
        /\ filed[DefaultKey] = NoPool /\ pool[DefaultPool].key = DefaultKey
    BY DEF PoolInv, Filing
  <2> QED  BY <2>1, <2>2, <2>3
<1>8. Environs(filed, pool)
  BY DEF Kept
<1>9. Environs(filed', pool')
  BY <1>1, <1>7, <1>8 DEF Environs
<1>10. Leftover(o, task, filed, pool, filed', pool')
  <2>1. \A k \in Keys : filed'[k] # NoPool => filed'[k] = filed[k] /\ pool'[filed[k]].models \ {n} = pool[filed[k]].models \ {n}
    BY <1>1, <1>5, <1>7
  <2>2. ASSUME NEW q \in Ops, task[q].stage \in {"loading", "unloading"}
        PROVE  task[q].pool \in Pools
    BY <2>2 DEF PoolInv, TaskShape, MadeOf
  <2>3. \A a \in Pools : pool'[a].key = pool[a].key /\ pool'[a].env = pool[a].env
    BY <1>1, <1>7
  <2> QED  BY <2>1, <2>2, <2>3 DEF Leftover
<1>11. ASSUME NEW k \in Keys, filed[k] = p, filed[k] # NoPool
       PROVE  key = k /\ k # DefaultKey /\ p # DefaultPool
  <2>1. pool[p].key = k /\ pool[p].env = HasEnv(k) /\ k # DefaultKey /\ p # DefaultPool
    BY <1>7, <1>8, <1>11 DEF Environs
  <2>2. CASE HasEnv(k)
    <3>1. EnvHash(p) = k
      BY <2>1, <2>2 DEF EnvHash
    <3>2. k # NoHash
      BY DEF Keys, NoHash
    <3> QED  BY <1>1, <2>1, <3>1, <3>2
  <2>3. CASE ~HasEnv(k)
    <3>1. EnvHash(p) = NoHash
      BY <2>1, <2>3 DEF EnvHash
    <3>2. k \in Leaving(task[o].old)
      BY <1>3, <2>1
    <3>3. k = <<NoEnv, task[o].old.gid>>
      BY <2>3, <3>2 DEF Leaving, HasEnv, KeyOf
    <3> QED  BY <1>1, <2>1, <3>1, <3>3
  <2> QED  BY <2>2, <2>3
<1>12. /\ OnlyOwn(n, live, hash, live', hash') /\ Known(n, live', hash', plan.ops)
       /\ ~emptied /\ o.kind = "reload" => live'[n] = o.model /\ hash'[n] = task[o].hash
  BY <1>1, <1>3, <1>4, LeavesKnown
<1>13. ASSUME NEW k \in Keys, filed'[k] # NoPool, n \in pool'[filed'[k]].models
       PROVE  \/ Tends(o, x, n, k, filed'[k]) \/ Belongs(n, k, live', hash', pool', task')
              \/ ClosesKey(k, task')
  <2>1. filed'[k] = filed[k] /\ filed[k] # p /\ filed[k] # NoPool /\ n \in pool[filed[k]].models
    BY <1>1, <1>5, <1>7, <1>13
  <2>2. ~Belongs(n, k, live, hash, pool, task)
    <3>1. ~Waits(o, task[o], pool)
      BY <1>1 DEF Waits, Loading
    <3> QED  BY <1>3, <3>1 DEF Belongs
  <2>3. CASE Tends(o, task[o], n, k, filed[k])
    <3>1. o.kind = "reload" /\ KeyOf(o.model) = k /\ task[o].hash = HashOf(o.model)
      BY <1>1, <2>1, <2>3 DEF Tends
    <3>2. CASE emptied
      BY <1>1, <1>3, <1>5, <3>1, <3>2 DEF Tends
    <3>3. CASE ~emptied
      <4>1. ~Under(x)
        BY <1>5, <3>3 DEF Under
      <4>2. live'[n] = o.model /\ hash'[n] = HashOf(o.model)
        BY <1>12, <3>1, <3>3
      <4> QED  BY <1>3, <1>6, <3>1, <4>1, <4>2, BelongsNow
    <3> QED  BY <3>2, <3>3
  <2>4. CASE ClosesKey(k, task)
    BY <1>3, <1>6, <2>4, ClosesStill
  <2> QED  BY <1>3, <2>1, <2>2, <2>3, <2>4, OwnListed
<1>14. \A k \in Keys : Listed(n, k, live', hash', filed', pool', task')
  BY <1>2, <1>13 DEF Listed
<1>15. Moves(o, x, pool', live', hash', plan.ops)
  <2>1. emptied => key \in Leaving(task[o].old)
    BY <1>1, <1>3 DEF EnvHash, Leaving
  <2>2. emptied => x.closing \subseteq Leaving(x.old)
    BY <1>1, <1>5, <2>1
  <2>3. o.kind = "reload" => HashOK(o.model, x.hash)
    BY <1>1, <1>2 DEF Moves
  <2>4. x.stage \in {"closing", "done"} /\ (x.stage = "closing" => emptied)
    BY <1>5
  <2> QED  BY <1>1, <1>3, <2>2, <2>3, <2>4 DEF Moves, Loading
<1>16. ASSUME NEW k \in Keys, filed'[k] # NoPool, pool'[filed'[k]].models = {}
       PROVE  Uses(x, k, filed'[k]) \/ (filed'[k] = filed[k] /\ pool[filed[k]].models = {} /\ ~Uses(task[o], k, filed[k]))
  <2>1. CASE filed[k] = p
    <3>1. emptied
      BY <1>1, <1>5, <1>7, <1>11, <1>16, <2>1
    <3> QED  BY <1>1, <1>5, <1>11, <1>16, <2>1, <3>1 DEF Uses
  <2>2. CASE filed[k] # p
    BY <1>1, <1>7, <1>16, <2>2 DEF Uses
  <2> QED  BY <2>1, <2>2
<1>17. Ours(o, task[o], x, filed, pool, filed', pool', live', hash', task', plan.ops)
  BY <1>9, <1>12, <1>14, <1>15, <1>16 DEF Ours
<1> QED  BY <1>3, <1>6, <1>10, <1>12, <1>17, KeptKept

(* The parts of FinishClose, when it finds what it takes out.               *)
CloseEnds(o, k, x) ==
  /\ task' = [task EXCEPT ![o] = x] /\ task'[o] = x /\ task[o].stage # "failed"
  /\ x.closing = task[o].closing \ {k} /\ x.stage = (IF x.closing = {} THEN "done" ELSE task[o].stage)
  /\ filed' = [filed EXCEPT ![k] = NoPool] /\ plan' = plan
  /\ pool' \in [Pools -> PoolTypes]
  /\ \A p \in Pools : /\ pool'[p].models = pool[p].models /\ pool'[p].key = pool[p].key
                      /\ pool'[p].env = IF p = filed[k] THEN FALSE ELSE pool[p].env
  /\ Settle(o, x.closing = {}, task[o].hash)

LEMMA FinishCloseParts ==
  ASSUME PoolInv, NEW o \in Ops, NEW k \in task[o].closing, FinishClose(o, k), ~Failed'
  PROVE  k \in Keys /\ \E x : CloseEnds(o, k, x)
<1>1. task[o] \in TaskTypes /\ k \in Keys /\ pool \in [Pools -> PoolTypes]
  BY TaskOf DEF TaskTypes, PoolInv, Filing
<1>2. PICK p, gone, rest, well : /\ p = filed[k] /\ gone = (k # DefaultKey /\ p = NoPool) /\ gone \in BOOLEAN
                                 /\ rest = task[o].closing \ {k} /\ well = (~gone /\ rest = {})
  OBVIOUS
<1>3. PICK x : x = [task[o] EXCEPT !.closing = rest,
                                   !.stage = IF gone \/ @ = "failed" THEN "failed" ELSE IF rest = {} THEN "done" ELSE @]
  OBVIOUS
<1>4. /\ task' = [task EXCEPT ![o].closing = rest,
                              ![o].stage = IF gone \/ @ = "failed" THEN "failed" ELSE IF rest = {} THEN "done" ELSE @]
      /\ filed' = [filed EXCEPT ![k] = NoPool]
      /\ pool' = IF p = NoPool THEN pool ELSE [pool EXCEPT ![p].env = FALSE]
      /\ Settle(o, well, task[o].hash) /\ plan' = plan
  BY <1>2, Zenon DEF FinishClose
<1>5. task' = [task EXCEPT ![o] = x] /\ task'[o] = x
  BY <1>3, <1>4 DEF PoolInv, TaskTypes
<1>6. /\ x.closing = rest
      /\ x.stage = IF gone \/ task[o].stage = "failed" THEN "failed" ELSE IF rest = {} THEN "done" ELSE task[o].stage
  BY <1>1, <1>3 DEF TaskTypes
<1>7. x.stage # "failed"
  BY <1>5 DEF Failed
<1>8. ~gone /\ task[o].stage # "failed"
  BY <1>6, <1>7
<1>9. well = (x.closing = {})
  BY <1>2, <1>6, <1>8
<1>10. p = NoPool \/ p \in Pools
  BY <1>1, <1>2 DEF PoolInv, Filing
<1>11. /\ pool' \in [Pools -> PoolTypes]
       /\ \A q \in Pools : /\ pool'[q].models = pool[q].models /\ pool'[q].key = pool[q].key
                           /\ pool'[q].env = IF q = p THEN FALSE ELSE pool[q].env
  <2>1. CASE p = NoPool
    BY <1>1, <1>4, <2>1, Absent
  <2>2. CASE p # NoPool
    <3>1. PICK r : r = [pool[p] EXCEPT !.env = FALSE]
      OBVIOUS
    <3>2. p \in Pools /\ pool[p] \in PoolTypes
      BY <1>1, <1>10, <2>2
    <3>3. r \in PoolTypes /\ r.models = pool[p].models /\ r.key = pool[p].key /\ r.env = FALSE
      BY <3>1, <3>2 DEF PoolTypes
    <3>4. pool' = [pool EXCEPT ![p] = r]
      BY <1>4, <2>2, <3>1, <3>2
    <3> QED  BY <1>1, <3>2, <3>3, <3>4
  <2> QED  BY <2>1, <2>2
<1>12. Settle(o, x.closing = {}, task[o].hash)
  BY <1>4, <1>9
<1>13. x.stage = (IF x.closing = {} THEN "done" ELSE task[o].stage)
  BY <1>6, <1>8
<1>14. x.closing = task[o].closing \ {k}
  BY <1>2, <1>6
<1>15. CloseEnds(o, k, x)
  BY <1>2, <1>4, <1>5, <1>8, <1>11, <1>12, <1>13, <1>14, Zenon DEF CloseEnds
<1> QED  BY <1>1, <1>15

(* What is filed elsewhere is left as it was.                               *)
LEMMA CloseElsewhere ==
  ASSUME PoolInv, Kept, NEW o \in Ops, NEW k \in Keys, NEW x, CloseEnds(o, k, x)
  PROVE  /\ \A j \in Keys : filed'[j] # NoPool =>
              j # k /\ filed'[j] = filed[j] /\ filed[j] \in Pools /\ pool'[filed[j]].models = pool[filed[j]].models
         /\ Environs(filed', pool')
<1>1. \A j \in Keys : filed[j] # NoPool => filed[j] \in Pools /\ pool[filed[j]].key = j
  BY DEF PoolInv, Filing
<1>2. \A j \in Keys : filed'[j] = IF j = k THEN NoPool ELSE filed[j]
  BY DEF CloseEnds, PoolInv, Filing
<1>3. /\ Environs(filed, pool)
      /\ \A p \in Pools : /\ pool'[p].models = pool[p].models /\ pool'[p].key = pool[p].key
                          /\ pool'[p].env = IF p = filed[k] THEN FALSE ELSE pool[p].env
  BY DEF Kept, CloseEnds
<1>4. \A j \in Keys : filed'[j] # NoPool => filed[j] # filed[k]
  BY <1>1, <1>2
<1>5. Environs(filed', pool')
  <2>1. \A j \in Keys : filed'[j] # NoPool => pool'[filed'[j]].env = HasEnv(j)
    <3> SUFFICES ASSUME NEW j \in Keys, filed'[j] # NoPool PROVE pool'[filed'[j]].env = HasEnv(j)
      OBVIOUS
    <3>1. PICK p \in Pools : p = filed[j] /\ filed'[j] = p /\ filed[j] # NoPool /\ p # filed[k]
      BY <1>1, <1>2, <1>4
    <3>2. pool'[p].env = pool[p].env
      BY <1>3, <3>1
    <3>3. pool[p].env = HasEnv(j)
      BY <1>3, <3>1 DEF Environs
    <3> QED  BY <3>1, <3>2, <3>3
  <2>2. \A p \in Pools : pool'[p].env = TRUE => HasEnv(pool'[p].key)
    BY <1>3 DEF Environs
  <2> QED  BY <2>1, <2>2 DEF Environs
<1> QED  BY <1>1, <1>2, <1>3, <1>5

(* Nobody loads into a pool over an environment while another closes it      *)
(* that has left it.                                                        *)
LEMMA LeftAlone ==
  ASSUME SharersStay, PoolInv, RunsApart(task, plan), Kept, NEW o \in Ops, task[o].stage = "closing", o.kind # "close",
         NEW q \in Ops, q # o, Loads(q), Under(task[q]), KeyOf(q.model) \in task[o].closing, HasEnv(KeyOf(q.model))
  PROVE  FALSE
<1>1. /\ Moves(o, task[o], pool, live, hash, plan.ops) /\ o \in plan.ops /\ q \in plan.ops
      /\ o.model \in Settings /\ q.model \in Settings
  BY TaskOf DEF Kept, TaskShape, Under
<1>2. /\ Leaves(o) /\ Planned(o.model.name, task[o].old, plan.ops)
      /\ KeyOf(q.model) \in Leaving(task[o].old)
  BY <1>1 DEF Moves
<1>3. KeyOf(q.model) = KeyOf(task[o].old) /\ KeyOf(q.model) # DefaultKey
  BY <1>2 DEF Leaving, HasEnv, DefaultKey
<1>4. Under(task[o])
  BY DEF Under
<1>5. o.model.name # q.model.name /\ ~plan.serial
  BY <1>4, Differ
<1>6. Planned(q.model.name, q.model, plan.ops)
  BY <1>1 DEF Planned
<1> QED  BY <1>1, <1>2, <1>3, <1>5, <1>6, LeavesAlone

LEMMA FinishCloseKept ==
  ASSUME SharersStay, PoolInv, RunsApart(task, plan), Kept, NEW o \in Ops, o.kind # "close",
         NEW k \in task[o].closing, FinishClose(o, k), ~Failed'
  PROVE  Kept'
<1> DEFINE n == o.model.name
<1>1. PICK x : k \in Keys /\ CloseEnds(o, k, x)
  BY FinishCloseParts
<1>2. /\ task' = [task EXCEPT ![o] = x] /\ plan' = plan
      /\ x.closing = task[o].closing \ {k} /\ x.stage = (IF x.closing = {} THEN "done" ELSE task[o].stage)
      /\ Settle(o, x.closing = {}, task[o].hash)
      /\ \A p \in Pools : /\ pool'[p].models = pool[p].models /\ pool'[p].key = pool[p].key
                          /\ pool'[p].env = IF p = filed[k] THEN FALSE ELSE pool[p].env
  BY <1>1 DEF CloseEnds
<1>3. task[o].stage = "closing" /\ task[o].closing = {k} /\ o \in plan.ops /\ n \in Names /\ Under(task[o])
  BY TaskOf DEF TaskShape, Under
<1>4. x.closing = {} /\ x.stage = "done" /\ Settle(o, TRUE, task[o].hash)
  <2>1. x.closing = {} /\ (x.closing = {}) = TRUE
    BY <1>2, <1>3
  <2> QED  BY <1>2, <2>1
<1>5. Turns(o, x)
  BY <1>2, <1>3 DEF Turns
<1>6. /\ \A j \in Keys : filed'[j] # NoPool =>
           j # k /\ filed'[j] = filed[j] /\ filed[j] \in Pools /\ pool'[filed[j]].models = pool[filed[j]].models
      /\ Environs(filed', pool')
  BY <1>1, CloseElsewhere
<1>7. Leftover(o, task, filed, pool, filed', pool')
  <2>1. \A j \in Keys : filed'[j] # NoPool => filed'[j] = filed[j] /\ pool'[filed[j]].models \ {n} = pool[filed[j]].models \ {n}
    BY <1>6
  <2>2. ASSUME NEW q \in Ops, task[q].stage \in {"loading", "unloading"}
        PROVE  task[q].pool \in Pools
    BY <2>2 DEF PoolInv, TaskShape, MadeOf
  <2>3. ASSUME NEW q \in Ops, q # o, q.kind = "reload", task[q].stage = "loading", HasEnv(KeyOf(q.model))
        PROVE  pool'[task[q].pool].env = pool[task[q].pool].env
    <3>1. CASE task[q].pool # filed[k]
      BY <1>2, <2>2, <2>3, <3>1
    <3>2. CASE task[q].pool = filed[k]
      <4>1. pool[filed[k]].key = k
        BY <1>1, <2>2, <2>3, <3>2, Absent DEF PoolInv, Filing
      <4>2. KeyOf(q.model) = k
        BY <2>3, <3>2, <4>1 DEF Kept, Moves
      <4>3. Loads(q) /\ Under(task[q])
        BY <2>3 DEF Loads, Under
      <4> QED  BY <1>3, <2>3, <4>2, <4>3, LeftAlone
    <3> QED  BY <3>1, <3>2
  <2> QED  BY <1>2, <2>1, <2>2, <2>3 DEF Leftover
<1>8. /\ OnlyOwn(n, live, hash, live', hash') /\ Known(n, live', hash', plan.ops)
      /\ o.kind = "reload" => live'[n] = o.model /\ hash'[n] = task[o].hash
  BY <1>3, <1>4, LeavesKnown
<1>9. ASSUME NEW j \in Keys, filed'[j] # NoPool, n \in pool'[filed'[j]].models
      PROVE  Belongs(n, j, live', hash', pool', task') \/ ClosesKey(j, task')
  <2>1. filed[j] # NoPool /\ n \in pool[filed[j]].models
    BY <1>6, <1>9
  <2>2. ~Belongs(n, j, live, hash, pool, task)
    <3>1. ~Waits(o, task[o], pool)
      BY <1>3 DEF Waits, Loading
    <3> QED  BY <1>3, <3>1 DEF Belongs
  <2>3. CASE Tends(o, task[o], n, j, filed[j])
    <3>1. o.kind = "reload" /\ KeyOf(o.model) = j /\ task[o].hash = HashOf(o.model)
      BY <1>3, <2>3 DEF Tends
    <3>2. live'[n] = o.model /\ hash'[n] = HashOf(o.model) /\ ~Under(x)
      BY <1>4, <1>8, <3>1 DEF Under
    <3> QED  BY <1>3, <1>5, <3>1, <3>2, BelongsNow
  <2>4. CASE ClosesKey(j, task)
    BY <1>5, <2>4, ClosesStill
  <2> QED  BY <1>3, <2>1, <2>2, <2>3, <2>4, OwnListed
<1>10. \A j \in Keys : Listed(n, j, live', hash', filed', pool', task')
  BY <1>9 DEF Listed
<1>11. Moves(o, x, pool', live', hash', plan.ops)
  BY <1>4 DEF Moves, Loading
<1>12. \A j \in Keys : filed'[j] # NoPool /\ pool'[filed'[j]].models = {} =>
         filed'[j] = filed[j] /\ pool[filed[j]].models = {} /\ ~Uses(task[o], j, filed[j])
  BY <1>3, <1>6 DEF Uses
<1>13. Ours(o, task[o], x, filed, pool, filed', pool', live', hash', task', plan.ops)
  BY <1>6, <1>8, <1>10, <1>11, <1>12 DEF Ours
<1> QED  BY <1>3, <1>5, <1>7, <1>8, <1>13, KeptKept

(* The server as it closes: every pool is about to be taken out, ...         *)
LEMMA BeginCloseKept ==
  ASSUME PoolInv, Kept, NEW o \in Ops, BeginClose(o)
  PROVE  Kept'
<1>1. PICK keys : keys = {k \in Keys : filed[k] # NoPool} \cup {DefaultKey}
  OBVIOUS
<1>2. /\ MayBegin(o) /\ task' = [task EXCEPT ![o] = [Idle EXCEPT !.stage = "closing", !.closing = keys]]
      /\ pool' = [p \in Pools |-> IF \E k \in keys : At(k) = p THEN Stopped(pool[p]) ELSE pool[p]]
      /\ UNCHANGED <<plan, filed, dir, live, hash>> /\ o.kind = "close"
  BY <1>1 DEF BeginClose
<1>3. PICK x : x = [Idle EXCEPT !.stage = "closing", !.closing = keys]
  OBVIOUS
<1>4. /\ x.stage = "closing" /\ x.closing = keys
      /\ \A q \in Ops : task'[q] = IF q = o THEN x ELSE task[q]
  BY <1>2, <1>3 DEF Idle, PoolInv
<1>5. ASSUME NEW p \in Pools
      PROVE  pool'[p].key = pool[p].key /\ pool'[p].env = pool[p].env /\ pool'[p].models = pool[p].models
  <2>1. pool'[p] = Stopped(pool[p]) \/ pool'[p] = pool[p]
    BY <1>2
  <2>2. pool[p] \in PoolTypes
    BY DEF PoolInv, Filing
  <2> QED  BY <2>1, <2>2, StoppedPool
<1>6. \A k \in Keys : filed[k] # NoPool => filed[k] \in Pools
  BY DEF PoolInv, Filing
<1>7. \A k \in Keys : filed'[k] # NoPool => ClosesKey(k, task') /\ Uses(task'[o], k, filed'[k])
  BY <1>1, <1>2, <1>4 DEF ClosesKey, Uses
<1>8. \A n \in Names, k \in Keys : Listed(n, k, live', hash', filed', pool', task')
  BY <1>7 DEF Listed
<1>9. \A k \in Keys : Filled(k, filed', pool', task')
  BY <1>7 DEF Filled
<1>10. \A n \in Names : Known(n, live', hash', plan'.ops)
  BY <1>2 DEF Kept, Known
<1>11. Environs(filed', pool')
  BY <1>2, <1>5, <1>6 DEF Kept, Environs
<1>12. ASSUME NEW q \in Ops
       PROVE  Moves(q, task'[q], pool', live', hash', plan'.ops)
  <2>1. CASE q = o
    BY <1>2, <1>4, <2>1 DEF Moves, Loading
  <2>2. CASE q # o
    <3>1. task'[q] = task[q] /\ Moves(q, task[q], pool, live, hash, plan.ops)
      BY <1>4, <2>2 DEF Kept
    <3>2. task[q].stage \in {"loading", "unloading"} => task[q].pool \in Pools
      BY DEF PoolInv, TaskShape, MadeOf
    <3> QED  BY <1>2, <1>5, <3>1, <3>2 DEF Moves
  <2> QED  BY <2>1, <2>2
<1> QED  BY <1>8, <1>9, <1>10, <1>11, <1>12 DEF Kept

(* ... and is taken out, one after the other.                               *)
LEMMA ServerCloseKept ==
  ASSUME PoolInv, Kept, NEW o \in Ops, o.kind = "close", NEW k \in task[o].closing, FinishClose(o, k), ~Failed'
  PROVE  Kept'
<1>1. PICK x : k \in Keys /\ CloseEnds(o, k, x)
  BY FinishCloseParts
<1>2. /\ task' = [task EXCEPT ![o] = x] /\ plan' = plan /\ task[o].stage # "failed"
      /\ x.closing = task[o].closing \ {k} /\ x.stage = (IF x.closing = {} THEN "done" ELSE task[o].stage)
      /\ Settle(o, x.closing = {}, task[o].hash)
      /\ \A p \in Pools : pool'[p].models = pool[p].models /\ pool'[p].key = pool[p].key
  BY <1>1 DEF CloseEnds
<1>3. /\ \A j \in Keys : filed'[j] # NoPool =>
           j # k /\ filed'[j] = filed[j] /\ filed[j] \in Pools /\ pool'[filed[j]].models = pool[filed[j]].models
      /\ Environs(filed', pool')
  BY <1>1, CloseElsewhere
<1>4. task[o].stage = "closing"
  BY <1>2 DEF Kept, Moves
<1>5. x.closing # {} => x.stage = "closing"
  BY <1>2, <1>4
<1>6. \A q \in Ops : task'[q] = IF q = o THEN x ELSE task[q]
  BY <1>2 DEF PoolInv
<1>7. live' = live /\ hash' = hash
  BY <1>2 DEF Settle
<1>8. ASSUME NEW n \in Names, NEW j \in Keys, filed'[j] # NoPool, n \in pool'[filed'[j]].models
      PROVE  \/ Belongs(n, j, live', hash', pool', task')
             \/ \E q \in Ops : Tends(q, task'[q], n, j, filed'[j])
             \/ ClosesKey(j, task')
  <2>1. j # k /\ filed'[j] = filed[j] /\ filed[j] # NoPool /\ n \in pool[filed[j]].models
    BY <1>3, <1>8
  <2>2. Listed(n, j, live, hash, filed, pool, task)
    BY DEF Kept
  <2>3. CASE Belongs(n, j, live, hash, pool, task)
    <3>1. Closes(task)
      BY <1>4 DEF Closes
    <3>2. \A q \in Ops : q.kind # "close" /\ q.model.name = n => ~Under(task[q])
      BY <2>3, <3>1 DEF Belongs
    <3>3. \A q \in Ops : q.kind # "close" => task'[q] = task[q]
      BY <1>6
    <3> QED  BY <1>7, <2>3, <3>2, <3>3 DEF Belongs
  <2>4. CASE \E q \in Ops : Tends(q, task[q], n, j, filed[j])
    <3>1. PICK q \in Ops : Tends(q, task[q], n, j, filed[j])
      BY <2>4
    <3>2. task'[q] = task[q]
      BY <1>6, <3>1 DEF Tends
    <3> QED  BY <2>1, <3>1, <3>2
  <2>5. CASE ClosesKey(j, task)
    <3>1. PICK c \in Ops : c.kind = "close" /\ task[c].stage = "closing" /\ j \in task[c].closing
      BY <2>5 DEF ClosesKey
    <3>2. CASE c = o
      BY <1>2, <1>5, <1>6, <2>1, <3>1, <3>2 DEF ClosesKey
    <3>3. CASE c # o
      BY <1>6, <3>1, <3>3 DEF ClosesKey
    <3> QED  BY <3>2, <3>3
  <2> QED  BY <2>1, <2>2, <2>3, <2>4, <2>5 DEF Listed
<1>9. ASSUME NEW j \in Keys, filed'[j] # NoPool, pool'[filed'[j]].models = {}
      PROVE  \E q \in Ops : Uses(task'[q], j, filed'[j])
  <2>1. j # k /\ filed'[j] = filed[j] /\ filed[j] # NoPool /\ pool[filed[j]].models = {}
    BY <1>3, <1>9
  <2>2. PICK q \in Ops : Uses(task[q], j, filed[j])
    BY <2>1 DEF Kept, Filled
  <2>3. CASE q = o
    <3>1. j \in x.closing /\ x.stage = "closing"
      BY <1>2, <1>4, <1>5, <2>1, <2>2, <2>3 DEF Uses
    <3> QED  BY <1>6, <2>3, <3>1 DEF Uses
  <2>4. CASE q # o
    BY <1>6, <2>1, <2>2, <2>4
  <2> QED  BY <2>3, <2>4
<1>10. \A n \in Names : Known(n, live', hash', plan'.ops)
  BY <1>2, <1>7 DEF Kept, Known
<1>11. ASSUME NEW q \in Ops
       PROVE  Moves(q, task'[q], pool', live', hash', plan'.ops)
  <2>1. CASE q = o
    <3>1. x.stage \in {"closing", "done"}
      BY <1>2, <1>4
    <3> QED  BY <1>5, <1>6, <2>1, <3>1 DEF Moves, Loading
  <2>2. CASE q # o
    <3>1. task'[q] = task[q] /\ Moves(q, task[q], pool, live, hash, plan.ops)
      BY <1>6, <2>2 DEF Kept
    <3>2. task[q].stage \in {"loading", "unloading"} => task[q].pool \in Pools
      BY DEF PoolInv, TaskShape, MadeOf
    <3> QED  BY <1>2, <1>7, <3>1, <3>2 DEF Moves
  <2> QED  BY <2>1, <2>2
<1> QED  BY <1>3, <1>8, <1>9, <1>10, <1>11 DEF Kept, Listed, Filled

(* What has failed, or was regrouped, stays so.                             *)
LEMMA ExcusedStays ==
  ASSUME PoolInv, Next, Excused
  PROVE  Excused'
<1>1. PICK q \in Ops : task[q].stage = "failed" \/ Regrouped(q)
  BY DEF Excused, Failed
<1>2. task[q].stage \in {"failed", "done"}
  BY <1>1 DEF Regrouped
<1>3. ASSUME task'[q] = task[q] \/ (task[q].stage = "failed" /\ task'[q].stage = "failed")
      PROVE  Excused'
  <2>1. CASE task[q].stage = "failed"
    BY <1>3, <2>1 DEF Excused, Failed
  <2>2. CASE task[q].stage # "failed"
    BY <1>1, <1>3, <2>2 DEF Excused, Regrouped
  <2> QED  BY <2>1, <2>2
<1>4. ASSUME NEW o \in Ops,
             \/ BeginLoad(o) \/ FinishHash(o) \/ FinishExtract(o) \/ FailExtract(o) \/ FinishLoad(o) \/ FailLoad(o)
             \/ BeginUnload(o) \/ FinishUnload(o) \/ BeginClose(o)
      PROVE  task'[q] = task[q]
  <2>1. Changes(o) /\ (MayBegin(o) \/ Under(task[o]))
    BY <1>4, StepChanges
  <2>2. q # o
    BY <1>2, <2>1 DEF MayBegin, Under
  <2> QED  BY <2>1, <2>2 DEF Changes, PoolInv
<1>5. ASSUME NEW o \in Ops, NEW k \in task[o].closing, FinishClose(o, k)
      PROVE  Excused'
  <2>1. PICK gone, rest : gone = (k # DefaultKey /\ filed[k] = NoPool) /\ rest = task[o].closing \ {k}
    OBVIOUS
  <2>2. PICK x : x = [task[o] EXCEPT !.closing = rest,
                                     !.stage = IF gone \/ @ = "failed" THEN "failed" ELSE IF rest = {} THEN "done" ELSE @]
    OBVIOUS
  <2>3. task' = [task EXCEPT ![o].closing = rest,
                             ![o].stage = IF gone \/ @ = "failed" THEN "failed" ELSE IF rest = {} THEN "done" ELSE @]
    BY <1>5, <2>1, Zenon DEF FinishClose
  <2>4. task' = [task EXCEPT ![o] = x] /\ task[o] \in TaskTypes
    BY <2>2, <2>3 DEF PoolInv, TaskTypes
  <2>5. task[o].stage = "failed" => x.stage = "failed"
    BY <2>2, <2>4 DEF TaskTypes
  <2>6. \A a \in Ops : task'[a] = IF a = o THEN x ELSE task[a]
    BY <2>4 DEF PoolInv
  <2>7. CASE q # o
    BY <1>3, <2>6, <2>7
  <2>8. CASE q = o /\ task[o].stage = "failed"
    BY <1>3, <2>5, <2>6, <2>8
  <2>9. CASE q = o /\ task[o].stage # "failed"
    <3>1. o.kind = "reload" /\ task[o].stage = "done"
      BY <1>1, <2>9 DEF Regrouped
    <3>2. TaskShape(o, task[o], MadeOf(pool), plan.ops) /\ task[o].closing # {}
      BY <1>5, TaskOf
    <3> QED  BY <3>1, <3>2 DEF TaskShape
  <2> QED  BY <2>7, <2>8, <2>9
<1> QED  BY <1>3, <1>4, <1>5 DEF Next

KeptInv == RunsApart(task, plan) /\ (Excused \/ Kept)

LEMMA KeptStep ==
  ASSUME SharersStay
  PROVE  PoolInv /\ KeptInv /\ [Next]_vars => KeptInv'
<1> SUFFICES ASSUME PoolInv, KeptInv, [Next]_vars PROVE KeptInv'
  OBVIOUS
<1>1. CASE UNCHANGED vars
  BY <1>1 DEF KeptInv, Kept, Excused, Failed, Regrouped, vars
<1>2. CASE Next
  <2>1. RunsApart(task, plan) /\ RunsApart(task', plan')
    BY <1>2, ApartStep DEF KeptInv
  <2>2. ASSUME ~Excused' PROVE Kept'
    <3>1. Kept
      BY <1>2, <2>2, ExcusedStays DEF KeptInv
    <3>2. ~Failed' /\ \A o \in Ops : ~Regrouped(o)'
      BY <2>2 DEF Excused
    <3>3. ASSUME NEW o \in Ops, BeginLoad(o) \/ FinishHash(o) \/ FinishExtract(o) PROVE Kept'
      BY <2>1, <3>1, <3>3, BeginLoadKept, FinishHashKept, FinishExtractKept
    <3>4. ASSUME NEW o \in Ops, FailExtract(o) \/ FailLoad(o) PROVE Kept'
      <4>1. task' = [task EXCEPT ![o].stage = "failed"] /\ task[o] \in TaskTypes
        BY <3>4, TaskOf DEF FailExtract, FailLoad
      <4>2. task'[o].stage = "failed"
        BY <4>1 DEF PoolInv, TaskTypes
      <4> QED  BY <3>2, <4>2 DEF Failed
    <3>5. ASSUME NEW o \in Ops, FinishLoad(o) PROVE Kept'
      BY <2>1, <3>1, <3>2, <3>5, FinishLoadKept
    <3>6. ASSUME NEW o \in Ops, BeginUnload(o) \/ FinishUnload(o) PROVE Kept'
      BY <2>1, <3>1, <3>2, <3>6, BeginUnloadKept, FinishUnloadKept
    <3>7. ASSUME NEW o \in Ops, BeginClose(o) PROVE Kept'
      BY <3>1, <3>7, BeginCloseKept
    <3>8. ASSUME NEW o \in Ops, NEW k \in task[o].closing, FinishClose(o, k) PROVE Kept'
      BY <2>1, <3>1, <3>2, <3>8, FinishCloseKept, ServerCloseKept
    <3> QED  BY <1>2, <3>3, <3>4, <3>5, <3>6, <3>7, <3>8 DEF Next
  <2> QED  BY <2>1, <2>2 DEF KeptInv
<1> QED  BY <1>1, <1>2

(* With no operation under way, a pool that is filed has a model of its      *)
(* environment and group: the last to leave took it with it.  Overlapping   *)
(* operations leave no pool that they share, as in ModelsAreFound, and no   *)
(* load has failed or changed a model's group alone; a close of the server  *)
(* may overlap anything.                                                    *)
THEOREM PoolsAreUsed == SharersStay => (Spec => []NoEmptyPools)
<1> SUFFICES ASSUME SharersStay PROVE Spec => []NoEmptyPools
  OBVIOUS
<1>1. PoolInv /\ KeptInv => NoEmptyPools
  <2> SUFFICES ASSUME PoolInv, KeptInv, Quiet, ~Failed, \A o \in Ops : ~Regrouped(o), NEW k \in Keys, filed[k] # NoPool
               PROVE  \E n \in Names : live[n] # NoSettings /\ KeyOf(live[n]) = k
    BY DEF NoEmptyPools
  <2>1. Kept
    BY DEF KeptInv, Excused
  <2>2. \A o \in Ops : ~Under(task[o])
    BY DEF Quiet, Running, Under
  <2>3. pool[filed[k]].models # {}
    <3>1. \A o \in Ops : ~Uses(task[o], k, filed[k])
      BY <2>2 DEF Uses, Under
    <3> QED  BY <2>1, <3>1 DEF Kept, Filled
  <2>4. PICK n : n \in pool[filed[k]].models
    BY <2>3
  <2>5. n \in Names
    BY <2>4 DEF PoolInv, Filing, PoolTypes
  <2>6. Belongs(n, k, live, hash, pool, task)
    <3>1. ~ClosesKey(k, task) /\ \A o \in Ops : ~Tends(o, task[o], n, k, filed[k])
      BY <2>2 DEF ClosesKey, Tends, Under
    <3> QED  BY <2>1, <2>4, <2>5, <3>1 DEF Kept, Listed
  <2> QED  BY <2>5, <2>6 DEF Belongs
<1>2. Init => KeptInv
  BY KeptInit, FoundInit DEF KeptInv, FoundInv
<1> QED  BY PoolInit, PoolStep, KeptStep, <1>1, <1>2, PTL DEF Spec
=============================================================================
