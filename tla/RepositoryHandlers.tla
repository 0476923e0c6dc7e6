-------------------------- MODULE RepositoryHandlers --------------------------
(***************************************************************************)
(* mlserver/handlers/model_repository.py over ModelRegistry: a client asks  *)
(* for a model by name, and the handler loads every version the folder has  *)
(* of it, one after the other, and then unloads the versions it did not     *)
(* load.                                                                    *)
(*                                                                         *)
(* A handler awaits each operation of the registry, and begins its next one *)
(* in the same turn of the loop: while one is due, nothing else moves.      *)
(***************************************************************************)
EXTENDS ModelRegistry

CONSTANTS
  Requests,       (* [id, kinds]: loads or unloads of the model by name    *)
  Folders         (* sets of versions a client may find in the folder      *)

ASSUME RequestsAssumption == \A r \in Requests : r.kinds \subseteq {"load", "unload"}
ASSUME FoldersAssumption == Folders \subseteq SUBSET Versions
(* Each operation of the registry is of one handler: Ops have a field `by`. *)
ASSUME OwnersAssumption ==
  \A r \in Requests, k \in {"load", "unload"}, v \in Versions :
    "load" \in r.kinds => \E o \in Ops : o.by = r.id /\ o.kind = k /\ o.version = v

VARIABLE request  (* where each request is                                 *)

handlerVars == <<vars, request>>

NoOp == [id |-> "none", kind |-> "none", version |-> 0, by |-> "none"]
Asked == [stage |-> "idle", loading |-> {}, loaded |-> {}, stale |-> {}, op |-> NoOp, alone |-> FALSE]

InitHandlers == Init /\ request = [r \in Requests |-> Asked]

-----------------------------------------------------------------------------
Active(r) == request[r].stage \in {"loading", "removing", "unloading"}
Ended(r) == request[r].op # NoOp /\ task[request[r].op].stage = "done"
Raised(r) == request[r].op # NoOp /\ task[request[r].op].stage \in {"failed", "unretired"}
Due(r) == Active(r) /\ (request[r].op = NoOp \/ Ended(r) \/ Raised(r))
NoneDue == \A r \in Requests : ~Due(r)

(* The operation of the registry that request r makes. *)
Own(r, kind, v) == CHOOSE o \in Ops : o.by = r.id /\ o.kind = kind /\ o.version = v

Fail(r) == request' = [request EXCEPT ![r].stage = "failed"]

(* `alone` is history: no other request, and nothing one left behind, was   *)
(* under way since it began.                                                *)
Begun(r, asked) ==
  [q \in Requests |-> IF q = r THEN [asked EXCEPT !.alone = Quiet]
                      ELSE [request[q] EXCEPT !.alone = @ /\ ~Active(q)]]

(* ModelRepositoryHandlers.load up to its first await: what the folder has. *)
FindSettings(r, found) ==
  /\ "load" \in r.kinds /\ request[r].stage = "idle" /\ NoneDue
  /\ request' = Begun(r, [Asked EXCEPT !.stage = IF found = {} THEN "failed" ELSE "loading",
                                       !.loading = found])
  /\ UNCHANGED vars

(* registry.load() of the next version that was found. *)
LoadNext(r, v) ==
  LET o == Own(r, "load", v) IN
  /\ request[r].stage = "loading" /\ Due(r) /\ ~Raised(r)
  /\ v \in request[r].loading \ request[r].loaded
  /\ request' = [request EXCEPT ![r].loaded = @ \cup {v}, ![r].op = o]
  /\ BeginLoad(o)

(* Mutant: what the last load brought is all that is not stale. *)
ListStaleButLast(r) ==
  /\ request[r].stage = "loading" /\ Ended(r) /\ request[r].loaded = request[r].loading
  /\ IF entry = NoRegistry THEN Fail(r) /\ UNCHANGED single
     ELSE /\ request' = [request EXCEPT ![r].stage = "removing",
                           ![r].stale = {m.version : m \in Models(single[entry])} \ {request[r].op.version},
                           ![r].loaded = {request[r].op.version}]
          /\ single' = [single EXCEPT ![entry] = Cached(@)]
  /\ UNCHANGED <<made, entry, ready, task>>

(* Mutant: nothing is stale. *)
ListNothing(r) ==
  /\ request[r].stage = "loading" /\ Ended(r) /\ request[r].loaded = request[r].loading
  /\ request' = [request EXCEPT ![r].stage = "removing"]
  /\ UNCHANGED vars

(* Every version is loaded: the others the registry has by now are stale.   *)
ListStale(r) ==
  /\ request[r].stage = "loading" /\ Ended(r) /\ request[r].loaded = request[r].loading
  /\ IF entry = NoRegistry THEN Fail(r) /\ UNCHANGED single
     ELSE /\ request' = [request EXCEPT ![r].stage = "removing",
                           ![r].stale = {m.version : m \in Models(single[entry])} \ request[r].loaded]
          /\ single' = [single EXCEPT ![entry] = Cached(@)]
  /\ UNCHANGED <<made, entry, ready, task>>

(* registry.unload_version() of the next stale version: by now it may be    *)
(* gone, or another model.                                                  *)
RemoveNext(r, v) ==
  LET o == Own(r, "unload", v) IN
  /\ request[r].stage = "removing" /\ Ended(r)
  /\ v \in request[r].stale
  /\ IF entry # NoRegistry /\ Find(single[entry], v) # NoModel
     THEN /\ request' = [request EXCEPT ![r].stale = @ \ {v}, ![r].op = o]
          /\ BeginUnload(o)
     ELSE Fail(r) /\ UNCHANGED vars

(* ModelRepositoryHandlers.unload *)
Unload(r) ==
  /\ "unload" \in r.kinds /\ request[r].stage = "idle" /\ NoneDue
  /\ \E o \in Ops :
       /\ o.by = r.id /\ o.kind = "purge"
       /\ IF entry = NoRegistry
          THEN Fail(r) /\ UNCHANGED vars
          ELSE /\ request' = Begun(r, [Asked EXCEPT !.stage = "unloading", !.op = o])
               /\ BeginUnload(o)

Finish(r) ==
  /\ Ended(r)
  /\ \/ request[r].stage = "removing" /\ request[r].stale = {}
     \/ request[r].stage = "unloading"
  /\ request' = [request EXCEPT ![r].stage = "done"]
  /\ UNCHANGED vars

(* What an operation raises, the handler raises. *)
Raise(r) == Active(r) /\ Raised(r) /\ Fail(r) /\ UNCHANGED vars

(* An operation of the registry goes on. *)
GoOn(o) ==
  /\ NoneDue
  /\ \/ FinishHook(o)
     \/ FinishLateHook(o)
     \/ FinishLoad(o)
     \/ FinishRetire(o)
     \/ FailLoad(o)
     \/ \E m \in task[o].hooking : FinishUnloadHooks(o, m)
     \/ \E m \in task[o].stopping : FinishModelUnload(o, m)
     \/ EndUnload(o)
  /\ UNCHANGED request

HandlersNext ==
  \/ \E r \in Requests, found \in Folders : FindSettings(r, found)
  \/ \E r \in Requests, v \in Versions : LoadNext(r, v)
  \/ \E r \in Requests : ListStale(r)
  \/ \E r \in Requests, v \in Versions : RemoveNext(r, v)
  \/ \E r \in Requests : Unload(r)
  \/ \E r \in Requests : Finish(r)
  \/ \E r \in Requests : Raise(r)
  \/ \E o \in Ops : GoOn(o)

HandlersSpec == InitHandlers /\ [][HandlersNext]_handlerVars

-----------------------------------------------------------------------------
(* Properties.                                                              *)

VersionsIn(models) ==
  {v \in Versions : entry # NoRegistry /\ single[entry].versions[v] \in models}

(* A load that nothing overlapped leaves the versions that were found, all  *)
(* of them ready but those that say they are not, and no others             *)
(* (tests/handlers/test_model_repository.py:80).                            *)
FolderServed ==
  [][\A r \in Requests :
       request[r].stage = "removing" /\ request[r].alone /\ request'[r].stage = "done"
         => /\ VersionsIn(Fit) = request[r].loading
            /\ {m.version : m \in Models(Current)} = request[r].loading]_handlerVars

(* While a folder is loaded again, a version that is still there and was    *)
(* ready stays ready, whichever load of it fails ("ensure that at least one *)
(* is available", registry.py:193), unless its new model says it is not.    *)
KeepsServing ==
  [][\A r \in Requests :
       Active(r) /\ request'[r].alone
         => VersionsIn(ready) \cap request[r].loading \subseteq VersionsIn(Fit)']_handlerVars

(* Loads that overlap do not undo each other: once all is quiet, loads that *)
(* found the same versions and did not fail have left these, all ready but  *)
(* those that say they are not.                                             *)
SameFolderServed ==
  Quiet => \A r \in Requests :
    /\ request[r].stage = "done" /\ request[r].loading # {}
    /\ \A q \in Requests : request[q].stage # "idle" =>
         request[q].stage = "done" /\ request[q].loading = request[r].loading
    => VersionsIn(Fit) = request[r].loading
=============================================================================
