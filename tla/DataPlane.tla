------------------------------ MODULE DataPlane ------------------------------
(***************************************************************************)
(* mlserver/handlers/dataplane.py and mlserver/cache/local/local.py over    *)
(* RepositoryHandlers: inference calls of the model whose versions are      *)
(* loaded, reloaded and unloaded meanwhile.                                 *)
(*                                                                         *)
(* An answer is the model object that computed it.  Looking a model up, the *)
(* cache and the readiness check do not suspend; predict() does.            *)
(***************************************************************************)
EXTENDS RepositoryHandlers, Sequences

CONSTANTS
  Calls,          (* [id, version, payload]: version 0 asks for the default *)
  CacheSize,      (* settings.cache_size                                   *)
  CacheEnabled    (* settings.cache_enabled, and the model's               *)

ASSUME CacheSizeAssumption == CacheSize \in Nat
ASSUME CallsAssumption == \A c \in Calls : c.version \in Versions \cup {Unversioned}

VARIABLES
  call,           (* where each call is, its model and its answer          *)
  cache           (* LocalCache.cache: [key, answer], oldest first         *)

dataVars == <<handlerVars, call, cache>>

InitData ==
  /\ InitHandlers
  /\ call = [c \in Calls |-> [stage |-> "idle", model |-> NoModel, answer |-> NoModel]]
  /\ cache = <<>>

-----------------------------------------------------------------------------
(* LocalCache.                                                              *)

Hits(key) == {e \in Range(cache) : e.key = key}

Stored(key, answer) ==
  IF Hits(key) = {} THEN Append(cache, [key |-> key, answer |-> answer])
  ELSE [i \in 1..Len(cache) |-> IF cache[i].key = key THEN [cache[i] EXCEPT !.answer = answer]
                                ELSE cache[i]]

(* Mutant: the newest entry is the one that goes. *)
InsertedDropsLast(key, answer) ==
  LET s == Stored(key, answer) IN
  IF Len(s) > CacheSize THEN SubSeq(s, 1, CacheSize) ELSE s

(* An entry that is there keeps its place; a new one may push out the first. *)
Inserted(key, answer) ==
  LET s == Stored(key, answer) IN IF Len(s) > CacheSize THEN Tail(s) ELSE s

-----------------------------------------------------------------------------
(* DataPlane.infer up to predict(): the call ends here if there is no model, *)
(* if it is not ready or if the cache has its payload.                       *)
BeginInfer(c) ==
  LET s == single[entry]
      m == IF entry = NoRegistry THEN NoModel ELSE Find(s, c.version)
      hits == IF CacheEnabled THEN Hits(c.payload) ELSE {}
  IN
  /\ NoneDue
  /\ call[c].stage = "idle"
  /\ \/ /\ m = NoModel
        /\ call' = [call EXCEPT ![c].stage = "not_found"]
     \/ /\ m # NoModel /\ m \notin ready
        /\ call' = [call EXCEPT ![c].stage = "not_ready"]
     \/ /\ m \in ready /\ hits # {}
        /\ \E e \in hits : call' = [call EXCEPT ![c].stage = "answered", ![c].answer = e.answer]
     \/ /\ m \in ready /\ hits = {}
        /\ call' = [call EXCEPT ![c].stage = "predicting", ![c].model = m]
  /\ single' = IF entry = NoRegistry THEN single ELSE [single EXCEPT ![entry] = Found(@, c.version)]
  /\ UNCHANGED <<made, entry, ready, task, request, cache>>

(* predict() returns: the answer goes into the cache. *)
EndInfer(c) ==
  /\ NoneDue
  /\ call[c].stage = "predicting"
  /\ call' = [call EXCEPT ![c].stage = "answered", ![c].answer = call[c].model]
  /\ cache' = IF CacheEnabled THEN Inserted(c.payload, call[c].model) ELSE cache
  /\ UNCHANGED handlerVars

(* predict() raises. *)
FailInfer(c) ==
  /\ NoneDue
  /\ call[c].stage = "predicting"
  /\ call' = [call EXCEPT ![c].stage = "raised"]
  /\ UNCHANGED <<handlerVars, cache>>

DataNext ==
  \/ HandlersNext /\ UNCHANGED <<call, cache>>
  \/ \E c \in Calls : BeginInfer(c)
  \/ \E c \in Calls : EndInfer(c)
  \/ \E c \in Calls : FailInfer(c)

DataSpec == InitData /\ [][DataNext]_dataVars

-----------------------------------------------------------------------------
(* Properties.                                                              *)

(* "Using existing cache value" (tests/handlers/test_dataplane.py:330): an  *)
(* answer, from the cache or not, is the named version's.                   *)
AnswersOwnVersion ==
  \A c \in Calls : call[c].stage = "answered" /\ c.version # Unversioned =>
    call[c].answer.version = c.version

(* The cache never outgrows its size or holds a payload twice, and the      *)
(* answer of the latest call to end is in it (unless it has no room at all). *)
LatestIsCached ==
  [][/\ Len(cache') =< CacheSize
     /\ \A i, j \in 1..Len(cache') : cache'[i].key = cache'[j].key => i = j
     /\ \A c \in Calls : call[c].stage = "predicting" /\ call'[c].stage = "answered" /\ CacheSize > 0
          => \E e \in Range(cache') : e.key = c.payload /\ e.answer = call'[c].answer]_dataVars
=============================================================================
