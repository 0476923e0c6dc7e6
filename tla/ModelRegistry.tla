---------------------------- MODULE ModelRegistry ----------------------------
(***************************************************************************)
(* mlserver/registry.py: the SingleModelRegistry of one model name, and the *)
(* entry MultiModelRegistry keeps for that name.                            *)
(*                                                                         *)
(* Loads and unloads are coroutines of one event loop that suspend in their *)
(* hooks and in the model's own load() and unload(); nothing locks the      *)
(* registry meanwhile.  A load makes a model object of its own, and the     *)
(* first hook may put another in its place (ParallelModel).                 *)
(***************************************************************************)
EXTENDS Integers, FiniteSets, Functions

CONSTANTS
  Ops,            (* [id, kind, version]: loads, unloads of a version and  *)
                  (* unloads of every version ("purge")                    *)
  MaxVersion,     (* bound: versions are 1..MaxVersion, as int() reads them *)
  Wraps,          (* whether the first hook replaces the model             *)
  Failures,       (* steps of a load that may raise                        *)
  Unready,        (* loads whose model's load() may return False           *)
  Stubborn,       (* loads whose model's unload() may raise or return False *)
  Together        (* operations that do not wait for each other            *)

Unversioned == 0
Versions == 1..MaxVersion

ASSUME VersionsAssumption == MaxVersion \in Nat
(* Operations are told apart by their ids; NoModel has none of theirs.      *)
ASSUME OpsAssumption ==
  /\ IsFiniteSet(Ops)
  /\ \A o \in Ops : /\ o.kind \in {"load", "unload", "purge"}
                    /\ o.version \in Versions \cup {Unversioned}
                    /\ o.id # "none"
  /\ \A o, p \in Ops : o.id = p.id => o = p
ASSUME WrapsAssumption == Wraps \in BOOLEAN
ASSUME TogetherAssumption == Together \subseteq Ops
ASSUME FailuresAssumption == Failures \subseteq {"init", "hook", "late_hook", "load"}

Loads == {o \in Ops : o.kind = "load"}

ASSUME UnreadyAssumption == Unready \subseteq Loads
ASSUME StubbornAssumption == Stubborn \subseteq Loads

(* Model objects. *)
Raw(o) == [id |-> o.id, version |-> o.version, wrapped |-> FALSE]
Wrap(m) == [m EXCEPT !.wrapped = Wraps]
NoModel == [id |-> "none", version |-> 0, wrapped |-> FALSE]
Of(S) == {Raw(o) : o \in S} \cup {Wrap(Raw(o)) : o \in S}
Objects == Of(Loads)

Registries == 1..Cardinality(Loads)
NoRegistry == 0

VARIABLES
  single,         (* each SingleModelRegistry made: _versions and _default *)
  made,           (* how many have been made                               *)
  entry,          (* MultiModelRegistry._models[name]                      *)
  ready,          (* the objects whose `ready` is True                     *)
  task            (* where each operation is                               *)

vars == <<single, made, entry, ready, task>>

Stages == {"idle", "hook", "late_hook", "load", "retire", "unload", "done", "failed", "unretired"}

TypeOK ==
  /\ single \in [Registries -> [versions : [Versions -> Objects \cup {NoModel}],
                                default : Objects \cup {NoModel}]]
  /\ made \in 0..Cardinality(Loads)
  /\ entry \in Registries \cup {NoRegistry}
  /\ ready \subseteq Objects
  /\ task \in [Ops -> [stage : Stages, reload : BOOLEAN, registry : Registries \cup {NoRegistry},
                       model : Objects \cup {NoModel}, old : Objects \cup {NoModel},
                       hooking : SUBSET Objects, stopping : SUBSET Objects]]
  /\ entry =< made
  /\ \A g \in Registries : \A m \in Range(single[g].versions) :
       m # NoModel => single[g].versions[m.version] = m
  /\ \A o \in Ops : task[o].stage = "retire" => task[o].old # NoModel

Idle == [stage |-> "idle", reload |-> FALSE, registry |-> NoRegistry,
         model |-> NoModel, old |-> NoModel, hooking |-> {}, stopping |-> {}]
NoVersions == [versions |-> [v \in Versions |-> NoModel], default |-> NoModel]

Init ==
  /\ single = [g \in Registries |-> NoVersions]
  /\ made = 0
  /\ entry = NoRegistry
  /\ ready = {}
  /\ task = [o \in Ops |-> Idle]

-----------------------------------------------------------------------------
(* SingleModelRegistry's own state, and how its methods change it.          *)

Held(s) == Range(s.versions) \ {NoModel}

(* max() over the versions: _find_default. *)
Latest(s) ==
  IF Held(s) = {} THEN NoModel
  ELSE CHOOSE m \in Held(s) : \A n \in Held(s) : n.version =< m.version

(* The `default` property, which keeps what it finds. *)
DefaultOf(s) == IF s.default = NoModel THEN Latest(s) ELSE s.default
Cached(s) == [s EXCEPT !.default = DefaultOf(s)]

(* Mutant: a version that is missing falls back to the default. *)
FindFallsBack(s, v) ==
  IF v = Unversioned \/ s.versions[v] = NoModel THEN DefaultOf(s) ELSE s.versions[v]

Find(s, v) == IF v = Unversioned THEN DefaultOf(s) ELSE s.versions[v]
Found(s, v) == IF v = Unversioned THEN Cached(s) ELSE s

Models(s) == (Held(s) \cup {m \in {DefaultOf(s)} : m.version = Unversioned}) \ {NoModel}

(* Mutant: whichever model registered last is the default. *)
RefreshedLast(default, m) ==
  IF default.version = Unversioned /\ default # NoModel /\ m.version # Unversioned
  THEN default ELSE m

Refreshed(default, m) ==
  IF default = NoModel \/ m.version = Unversioned THEN m
  ELSE IF default.version # Unversioned /\ m.version >= default.version THEN m ELSE default

Register(s, m) ==
  [versions |-> IF m.version = Unversioned THEN s.versions ELSE [s.versions EXCEPT ![m.version] = m],
   default |-> Refreshed(s.default, m)]

(* Mutant: the default is not cleared. *)
ClearNothing(s, m) == Cached(s)

(* `if model == self.default: self._clear_default()` *)
ClearIfDefault(s, m) == IF DefaultOf(s) = m THEN [s EXCEPT !.default = NoModel] ELSE Cached(s)

Empty(s) == Held(s) = {} /\ s.default = NoModel

-----------------------------------------------------------------------------
(* Loading.                                                                 *)

Running(o) ==
  \/ task[o].stage \notin {"idle", "done", "failed", "unretired"}
  \/ task[o].hooking \cup task[o].stopping # {}
MayBegin(o) ==
  task[o].stage = "idle" /\ \A p \in Ops : Running(p) => {o, p} \subseteq Together

(* MultiModelRegistry.load: the registry of the name, a new one if it has none. *)
RegistryToUse == IF entry = NoRegistry THEN made + 1 ELSE entry

(* MultiModelRegistry.load and SingleModelRegistry.load, up to the first    *)
(* hook.  The initialiser may raise, which leaves an entry made for it.     *)
BeginLoad(o) ==
  LET g == RegistryToUse
      old == Find(single[g], o.version)
      found == Found(single[g], o.version)
      begun == [Idle EXCEPT !.stage = "hook", !.registry = g, !.model = Raw(o),
                            !.old = old, !.reload = (old # NoModel)]
  IN
  /\ o.kind = "load" /\ MayBegin(o)
  /\ entry' = g
  /\ made' = IF entry = NoRegistry THEN made + 1 ELSE made
  /\ \/ /\ task' = [task EXCEPT ![o] = begun]
        /\ single' = [single EXCEPT ![g] = IF begun.reload THEN found ELSE Register(found, Raw(o))]
     \/ /\ "init" \in Failures
        /\ task' = [task EXCEPT ![o].stage = "failed"]
        /\ single' = [single EXCEPT ![g] = found]
  /\ UNCHANGED ready

(* The first hook returns the model it is given, or another around it. *)
FinishHook(o) ==
  /\ task[o].stage = "hook"
  /\ task' = [task EXCEPT ![o].stage = "late_hook", ![o].model = Wrap(@)]
  /\ UNCHANGED <<single, made, entry, ready>>

(* Mutant: a reload registers its model before loading it, as a load does. *)
FinishLateHookRegisters(o) ==
  /\ task[o].stage = "late_hook"
  /\ task' = [task EXCEPT ![o].stage = "load"]
  /\ single' = [single EXCEPT ![task[o].registry] = Register(@, task[o].model)]
  /\ UNCHANGED <<made, entry, ready>>

(* The other hooks; a first load registers the model they end with. *)
FinishLateHook(o) ==
  LET g == task[o].registry IN
  /\ task[o].stage = "late_hook"
  /\ task' = [task EXCEPT ![o].stage = "load"]
  /\ single' = IF task[o].reload THEN single ELSE [single EXCEPT ![g] = Register(@, task[o].model)]
  /\ UNCHANGED <<made, entry, ready>>

(* Mutant: a first load goes on to unload an old model too. *)
FinishLoadRetires(o) ==
  /\ task[o].stage = "load"
  /\ ready' = ready \cup {task[o].model}
  /\ task' = [task EXCEPT ![o].stage = "retire"]
  /\ single' = [single EXCEPT ![task[o].registry] =
                  ClearIfDefault(Register(@, task[o].model), task[o].old)]
  /\ UNCHANGED <<made, entry>>

(* model.load() returns whether the model is ready.  A reload puts the new  *)
(* model in and then unloads the old one.                                   *)
FinishLoad(o) ==
  LET g == task[o].registry
      t == task[o]
  IN
  /\ t.stage = "load"
  /\ \/ ready' = ready \cup {t.model}
     \/ o \in Unready /\ ready' = ready \ {t.model}
  /\ task' = [task EXCEPT ![o].stage = IF t.reload THEN "retire" ELSE "done"]
  /\ single' = IF t.reload
               THEN [single EXCEPT ![g] = ClearIfDefault(Register(@, t.model), t.old)]
               ELSE single
  /\ UNCHANGED <<made, entry>>

(* Mutant: the old model of a reload is dropped, not unloaded. *)
FinishRetireDrops(o) ==
  /\ task[o].stage = "retire"
  /\ task' = [task EXCEPT ![o].stage = "done"]
  /\ UNCHANGED <<single, made, entry, ready>>

(* model.unload() returns whether the model has stopped, or raises.         *)
Ends(m) == IF m \in Of(Stubborn) THEN {"stopped", "running", "raised"} ELSE {"stopped"}
Left(m, end) ==
  IF end = "stopped" THEN ready \ {m} ELSE IF end = "running" THEN ready \cup {m} ELSE ready

(* The old model's unload() ends.  If it raises so does the load, whose      *)
(* model stays in.                                                          *)
FinishRetire(o) ==
  /\ task[o].stage = "retire"
  /\ \E end \in Ends(task[o].old) :
       /\ ready' = Left(task[o].old, end)
       /\ task' = [task EXCEPT ![o].stage = IF end = "raised" THEN "unretired" ELSE "done"]
  /\ UNCHANGED <<single, made, entry>>

(* A step raises: a first load takes its model out again, a reload leaves   *)
(* things as they are.                                                      *)
FailLoad(o) ==
  /\ task[o].stage \in Failures
  /\ task' = IF task[o].reload
             THEN [task EXCEPT ![o].stage = "failed"]
             ELSE [task EXCEPT ![o].stage = "unload", ![o].hooking = {task[o].model}]
  /\ UNCHANGED <<single, made, entry, ready>>

-----------------------------------------------------------------------------
(* Unloading.                                                               *)

(* unload_version gets one model, unload all of them. *)
BeginUnload(o) ==
  LET s == single[entry]
      targets == IF o.kind = "purge" THEN Models(s) ELSE {Find(s, o.version)} \ {NoModel}
  IN
  /\ o.kind \in {"unload", "purge"} /\ MayBegin(o)
  /\ entry # NoRegistry
  /\ o.kind = "unload" => targets # {}
  /\ task' = [task EXCEPT ![o] = [Idle EXCEPT !.stage = "unload", !.registry = entry,
                                              !.hooking = targets]]
  /\ single' = [single EXCEPT ![entry] = IF o.kind = "purge" THEN Cached(@) ELSE Found(@, o.version)]
  /\ UNCHANGED <<made, entry, ready>>

(* _unload_model after the hooks of one model: out of the registry, whatever *)
(* is filed under its version now, then model.unload().  Nothing filed there *)
(* is a KeyError.                                                            *)
FinishUnloadHooks(o, m) ==
  LET g == task[o].registry
      gone == m.version # Unversioned /\ single[g].versions[m.version] = NoModel
      deleted == IF m.version = Unversioned THEN single[g]
                 ELSE [single[g] EXCEPT !.versions[m.version] = NoModel]
  IN
  /\ m \in task[o].hooking
  /\ IF gone
     THEN /\ task' = [task EXCEPT ![o].stage = "failed", ![o].hooking = @ \ {m}]
          /\ UNCHANGED single
     ELSE /\ task' = [task EXCEPT ![o].hooking = @ \ {m}, ![o].stopping = @ \cup {m}]
          /\ single' = [single EXCEPT ![g] = ClearIfDefault(deleted, m)]
  /\ UNCHANGED <<made, entry, ready>>

(* model.unload() ends.  If it raises so does the operation, while the       *)
(* other models' unloads go on.                                             *)
FinishModelUnload(o, m) ==
  /\ m \in task[o].stopping
  /\ \E end \in Ends(m) :
       /\ ready' = Left(m, end)
       /\ task' = [task EXCEPT ![o].stopping = @ \ {m},
                               ![o].stage = IF end = "raised" THEN "failed" ELSE @]
  /\ UNCHANGED <<single, made, entry>>

(* Once its models are unloaded, the operation drops the entry of the name: *)
(* unload_version only if the registry is empty, a failed load never.       *)
EndUnload(o) ==
  LET g == task[o].registry
      drops == o.kind = "purge" \/ (o.kind = "unload" /\ Empty(single[g]))
  IN
  /\ task[o].stage = "unload"
  /\ task[o].hooking = {} /\ task[o].stopping = {}
  /\ single' = IF o.kind = "purge" THEN [single EXCEPT ![g] = NoVersions] ELSE single
  /\ entry' = IF drops THEN NoRegistry ELSE entry
  /\ task' = [task EXCEPT ![o].stage =
                IF o.kind = "load" \/ (drops /\ entry = NoRegistry) THEN "failed" ELSE "done"]
  /\ UNCHANGED <<made, ready>>

-----------------------------------------------------------------------------
(* get_model() of a client, or a readiness check: reading the default       *)
(* stores it.                                                               *)
ReadDefault ==
  /\ entry # NoRegistry
  /\ single' = [single EXCEPT ![entry] = Cached(@)]
  /\ UNCHANGED <<made, entry, ready, task>>

Next ==
  \/ \E o \in Ops : BeginLoad(o)
  \/ \E o \in Ops : FinishHook(o)
  \/ \E o \in Ops : FinishLateHook(o)
  \/ \E o \in Ops : FinishLoad(o)
  \/ \E o \in Ops : FinishRetire(o)
  \/ \E o \in Ops : FailLoad(o)
  \/ \E o \in Ops : BeginUnload(o)
  \/ \E o \in Ops : \E m \in task[o].hooking : FinishUnloadHooks(o, m)
  \/ \E o \in Ops : \E m \in task[o].stopping : FinishModelUnload(o, m)
  \/ \E o \in Ops : EndUnload(o)
  \/ ReadDefault

Spec == Init /\ [][Next]_vars

-----------------------------------------------------------------------------
(* Properties.                                                              *)

Current == IF entry = NoRegistry THEN NoVersions ELSE single[entry]
Quiet == \A o \in Ops : ~Running(o)

(* The models that are ready, or whose load() may have said they are not.   *)
Fit == ready \cup Of(Unready)

(* Once nothing is going on every model that the registry offers can be     *)
(* used, but those whose own load() returned False (registry.py:177, :195). *)
QuietReady == Quiet => Models(Current) \subseteq Fit

(* A model that is gone from the registry is not left running, but for one  *)
(* whose own unload() raised or returned False (registry.py:201, :232).     *)
QuietNoLeak == Quiet => ready \ Of(Stubborn) \subseteq Models(Current)

(* The default is the latest version (tests/test_registry.py:128), or the   *)
(* model without a version.                                                 *)
DefaultIsLatest ==
  DefaultOf(Current).version # Unversioned => DefaultOf(Current) = Latest(Current)

(* However loads overtake each other, the default is the latest version as  *)
(* long as none of them has failed before it registered its model for good  *)
(* and nothing is unloaded (tests/test_registry.py:128).                    *)
LatestWhileLoading ==
  (\A o \in Ops : task[o].stage \notin {"unload", "failed"} /\ (task[o].stage = "done" => o \in Loads))
    => DefaultIsLatest

(* The old model stays ready while the new version is getting loaded        *)
(* (tests/test_registry.py:284): while a reload runs, its version has a     *)
(* model that is ready, or that said itself that it is not.                 *)
RollingReload ==
  \A o \in Ops :
    Running(o) /\ task[o].reload => Find(single[task[o].registry], o.version) \in Fit

(* The default model is the one filed under its version. *)
DefaultServed ==
  LET m == DefaultOf(Current) IN
  m.version # Unversioned => Current.versions[m.version] = m

(* What clients see of the operations that run: see RegistryService.        *)
Served == {o \in Loads : Wrap(Raw(o)) \in Models(Current) \cap ready}
Loaded == {o \in Loads : task[o].stage \in {"retire", "done", "unretired"}}
Unloading == {o \in Ops \ Loads : Running(o)}
Service == INSTANCE RegistryService WITH
  Unloads <- Ops \ Loads, served <- Served, loaded <- Loaded, unloading <- Unloading

(* A load takes many steps, but for clients it replaces the model of its     *)
(* version in one of them ("at least one is available", registry.py:193) or, *)
(* if it fails before it has its model ready, in none (registry.py:185); an  *)
(* unload ends when what it covers is gone (registry.py:204).                *)
LoadsAtOnce == Service!Spec
=============================================================================
