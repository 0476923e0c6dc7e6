--------------------------- MODULE DataPlaneProofs ---------------------------
(* Proofs about the handlers of the repository and the data plane, for any  *)
(* requests and calls: what they do to the registry are operations of it,   *)
(* what the cache holds, and whose the answers are.                         *)
EXTENDS DataPlane, ModelRegistryProofs, SequenceTheorems

-----------------------------------------------------------------------------
(* The handlers of the repository.                                          *)

RequestStages == {"idle", "loading", "removing", "unloading", "done", "failed"}

(* Where a request is, and what it may ask of the registry. *)
RequestTypes == [stage : RequestStages, loading : SUBSET Versions, loaded : SUBSET Versions,
                 stale : SUBSET Slots, op : Ops \cup {NoOp}, alone : BOOLEAN]
RequestInv ==
  /\ request \in [Requests -> RequestTypes]
  /\ \A r \in Requests : request[r].stage \in {"loading", "removing"} => "load" \in r.kinds

(* A request that is asked, goes on or ends keeps its place and its parts.  *)
LEMMA RequestMoves ==
  ASSUME RequestInv, NEW r \in Requests, NEW x \in RequestTypes,
         x.stage \in {"loading", "removing"} => "load" \in r.kinds,
         request' = [request EXCEPT ![r] = x]
  PROVE  RequestInv'
<1>1. request' \in [Requests -> RequestTypes]
  BY DEF RequestInv
<1>2. \A q \in Requests : request'[q].stage \in {"loading", "removing"} => "load" \in q.kinds
  BY DEF RequestInv
<1> QED  BY <1>1, <1>2 DEF RequestInv

(* A handler that starts on a request keeps the types of all requests.      *)
LEMMA RequestBegins ==
  ASSUME RequestInv, NEW r \in Requests, NEW x \in RequestTypes,
         x.stage \in {"loading", "removing"} => "load" \in r.kinds,
         request' = Begun(r, x)
  PROVE  RequestInv'
<1>1. \A y \in RequestTypes, b \in BOOLEAN :
        [y EXCEPT !.alone = b] \in RequestTypes /\ [y EXCEPT !.alone = b].stage = y.stage
  BY DEF RequestTypes
<1>2. \A q \in Requests : /\ Quiet \in BOOLEAN
                          /\ (request[q].alone /\ ~Active(q)) \in BOOLEAN
  BY DEF Quiet, Active
<1>3. \A q \in Requests :
        \E b \in BOOLEAN : request'[q] = [(IF q = r THEN x ELSE request[q]) EXCEPT !.alone = b]
  BY <1>2 DEF Begun
<1>4. request' = [q \in Requests |-> request'[q]]
  BY DEF Begun
<1>5. request' \in [Requests -> RequestTypes]
  BY <1>1, <1>3, <1>4 DEF RequestInv
<1>6. \A q \in Requests : request'[q].stage = IF q = r THEN x.stage ELSE request[q].stage
  BY <1>1, <1>3 DEF RequestInv
<1> QED  BY <1>5, <1>6 DEF RequestInv

(* A load request has an operation of its own for every folder.             *)
LEMMA OwnIsOperation ==
  ASSUME NEW r \in Requests, "load" \in r.kinds, NEW k \in {"load", "unload"}, NEW v \in Versions
  PROVE  Own(r, k, v) \in Ops
<1>1. \E o \in Ops : o.by = r.id /\ o.kind = k /\ o.version = v
  BY OwnersAssumption
<1> QED  BY <1>1 DEF Own

(* Every step of a handler is one operation of the registry, or none        *)
(* (handlers/model_repository.py:82).                                       *)
LEMMA HandlersStep ==
  RegistryInv /\ RequestInv /\ [HandlersNext]_handlerVars => RequestInv' /\ [Next]_vars
<1> SUFFICES ASSUME RegistryInv, RequestInv, [HandlersNext]_handlerVars
             PROVE  RequestInv' /\ [Next]_vars
  OBVIOUS
<1>r. request \in [Requests -> RequestTypes]
  BY DEF RequestInv
<1>a. Asked \in RequestTypes
  BY DEF Asked, RequestTypes, RequestStages
<1>f. ASSUME NEW r \in Requests, Fail(r)
      PROVE  RequestInv'
  <2> DEFINE x == [request[r] EXCEPT !.stage = "failed"]
  <2>1. x \in RequestTypes /\ x.stage = "failed" /\ request' = [request EXCEPT ![r] = x]
    BY <1>r, <1>f DEF RequestTypes, RequestStages, Fail
  <2> HIDE DEF x
  <2> QED  BY <2>1, RequestMoves
<1>1. ASSUME NEW r \in Requests, NEW found \in Folders, FindSettings(r, found)
      PROVE  RequestInv' /\ [Next]_vars
  <2> DEFINE x == [Asked EXCEPT !.stage = IF found = {} THEN "failed" ELSE "loading", !.loading = found]
  <2>1. found \in SUBSET Versions
    BY FoldersAssumption
  <2>2. x \in RequestTypes
    BY <2>1 DEF Asked, RequestTypes, RequestStages
  <2>3. request' = Begun(r, x) /\ "load" \in r.kinds /\ UNCHANGED vars
    BY <1>1 DEF FindSettings
  <2> HIDE DEF x
  <2> QED  BY <2>2, <2>3, RequestBegins
<1>2. ASSUME NEW r \in Requests, NEW v \in Versions, LoadNext(r, v)
      PROVE  RequestInv' /\ [Next]_vars
  <2>1. request[r].stage = "loading" /\ "load" \in r.kinds
    BY <1>2 DEF LoadNext, RequestInv
  <2>2. PICK o \in Ops : o = Own(r, "load", v)
    BY <2>1, OwnIsOperation
  <2>3. /\ request' = [request EXCEPT ![r].loaded = @ \cup {v}, ![r].op = o]
        /\ BeginLoad(o)
    BY <1>2, <2>2 DEF LoadNext
  <2> DEFINE x == [request[r] EXCEPT !.loaded = @ \cup {v}, !.op = o]
  <2>4. x \in RequestTypes /\ x.stage = "loading" /\ request' = [request EXCEPT ![r] = x]
    BY <1>r, <2>1, <2>3 DEF RequestTypes
  <2> HIDE DEF x
  <2>5. RequestInv'
    BY <2>1, <2>4, RequestMoves
  <2> QED  BY <2>3, <2>5 DEF Next
<1>3. ASSUME NEW r \in Requests, ListStale(r)
      PROVE  RequestInv' /\ [Next]_vars
  <2>1. CASE entry = NoRegistry
    BY <1>3, <1>f, <2>1 DEF ListStale, vars
  <2>2. CASE entry # NoRegistry
    <3> DEFINE st == {m.version : m \in Models(single[entry])} \ request[r].loaded
               x  == [request[r] EXCEPT !.stage = "removing", !.stale = st]
    <3>1. /\ request[r].stage = "loading" /\ "load" \in r.kinds
          /\ request' = [request EXCEPT ![r].stage = "removing", ![r].stale = st]
          /\ single' = [single EXCEPT ![entry] = Cached(@)]
          /\ UNCHANGED <<made, entry, ready, task>>
      BY <1>3, <2>2 DEF ListStale, RequestInv
    <3>2. entry \in Registries /\ Filed(single[entry])
      BY <2>2 DEF RegistryInv, TypeOK
    <3>3. st \in SUBSET Slots
      BY <3>2, ModelsInSlots
    <3> HIDE DEF st
    <3>4. x \in RequestTypes /\ x.stage = "removing" /\ request' = [request EXCEPT ![r] = x]
      BY <1>r, <3>1, <3>3 DEF RequestTypes, RequestStages
    <3> HIDE DEF x
    <3>5. RequestInv'
      BY <3>1, <3>4, RequestMoves
    <3>6. ReadDefault
      BY <2>2, <3>1 DEF ReadDefault
    <3> QED  BY <3>5, <3>6 DEF Next
  <2> QED  BY <2>1, <2>2
<1>4. ASSUME NEW r \in Requests, NEW v \in Versions, RemoveNext(r, v)
      PROVE  RequestInv' /\ [Next]_vars
  <2>1. request[r].stage = "removing" /\ "load" \in r.kinds
    BY <1>4 DEF RemoveNext, RequestInv
  <2>2. PICK o \in Ops : o = Own(r, "unload", v)
    BY <2>1, OwnIsOperation
  <2>3. CASE entry # NoRegistry /\ Find(single[entry], v) # NoModel
    <3>1. /\ request' = [request EXCEPT ![r].stale = @ \ {v}, ![r].op = o]
          /\ BeginUnload(o)
      BY <1>4, <2>2, <2>3 DEF RemoveNext
    <3> DEFINE x == [request[r] EXCEPT !.stale = @ \ {v}, !.op = o]
    <3>2. x \in RequestTypes /\ x.stage = "removing" /\ request' = [request EXCEPT ![r] = x]
      BY <1>r, <2>1, <3>1 DEF RequestTypes
    <3> HIDE DEF x
    <3>3. RequestInv'
      BY <2>1, <3>2, RequestMoves
    <3> QED  BY <3>1, <3>3 DEF Next
  <2>4. CASE ~(entry # NoRegistry /\ Find(single[entry], v) # NoModel)
    <3>1. Fail(r) /\ UNCHANGED vars
      BY <1>4, <2>4 DEF RemoveNext
    <3> QED  BY <1>f, <3>1
  <2> QED  BY <2>3, <2>4
<1>5. ASSUME NEW r \in Requests, Unload(r)
      PROVE  RequestInv' /\ [Next]_vars
  <2>1. CASE entry = NoRegistry
    BY <1>5, <1>f, <2>1 DEF Unload
  <2>2. CASE entry # NoRegistry
    <3>1. PICK o \in Ops : /\ request' = Begun(r, [Asked EXCEPT !.stage = "unloading", !.op = o])
                           /\ BeginUnload(o)
      BY <1>5, <2>2 DEF Unload
    <3> DEFINE x == [Asked EXCEPT !.stage = "unloading", !.op = o]
    <3>2. x \in RequestTypes /\ x.stage = "unloading" /\ request' = Begun(r, x)
      BY <1>a, <3>1 DEF RequestTypes, RequestStages
    <3> HIDE DEF x
    <3>3. RequestInv'
      BY <3>2, RequestBegins
    <3> QED  BY <3>1, <3>3 DEF Next
  <2> QED  BY <2>1, <2>2
<1>6. ASSUME NEW r \in Requests, Finish(r)
      PROVE  RequestInv' /\ [Next]_vars
  <2> DEFINE x == [request[r] EXCEPT !.stage = "done"]
  <2>1. x \in RequestTypes /\ x.stage = "done" /\ request' = [request EXCEPT ![r] = x]
    BY <1>r, <1>6 DEF Finish, RequestTypes, RequestStages
  <2> HIDE DEF x
  <2>2. RequestInv'
    BY <2>1, RequestMoves
  <2> QED  BY <1>6, <2>2 DEF Finish
<1>7. ASSUME NEW r \in Requests, Raise(r)
      PROVE  RequestInv' /\ [Next]_vars
  BY <1>7, <1>f DEF Raise
<1>8. ASSUME NEW o \in Ops, GoOn(o)
      PROVE  RequestInv' /\ [Next]_vars
  <2>1. Next
    BY <1>8 DEF GoOn, Next
  <2>2. request' = request
    BY <1>8 DEF GoOn
  <2> QED  BY <2>1, <2>2 DEF RequestInv
<1>9. CASE UNCHANGED handlerVars
  BY <1>9 DEF handlerVars, RequestInv
<1> QED
  BY <1>1, <1>2, <1>3, <1>4, <1>5, <1>6, <1>7, <1>8, <1>9 DEF HandlersNext

(* No request has been made.                                                *)
LEMMA RequestsInit == InitHandlers => RequestInv
<1>1. Asked \in RequestTypes /\ Asked.stage = "idle"
  BY DEF Asked, RequestTypes, RequestStages
<1> QED  BY <1>1 DEF InitHandlers, RequestInv

-----------------------------------------------------------------------------
(* Calls, and the registry they look models up in.                          *)

Payloads == {c.payload : c \in Calls}
Answers == Objects \cup {NoModel}
Entries == [key : Payloads, answer : Answers]
CallStages == {"idle", "not_found", "not_ready", "predicting", "answered", "raised"}

CallInv == call \in [Calls -> [stage : CallStages, model : Answers, answer : Answers]]

(* LocalCache.insert keeps the cache within its size, under different keys. *)
CacheInv ==
  /\ cache \in Seq(Entries)
  /\ Len(cache) =< CacheSize
  /\ \A i, j \in 1..Len(cache) : cache[i].key = cache[j].key => i = j

DataInv == RegistryInv /\ RequestInv /\ CallInv /\ CacheInv

(* What is inserted: a payload has one entry, and no other one changes;     *)
(* only a new payload pushes the oldest entry out (cache/local/local.py).   *)
LEMMA InsertedIsThere ==
  ASSUME CacheInv, NEW key \in Payloads, NEW answer \in Answers
  PROVE  /\ Inserted(key, answer) \in Seq(Entries)
         /\ Len(Inserted(key, answer)) =< CacheSize
         /\ \A i, j \in 1..Len(Inserted(key, answer)) :
              Inserted(key, answer)[i].key = Inserted(key, answer)[j].key => i = j
         /\ \A i \in 1..Len(Inserted(key, answer)) :
              \/ Inserted(key, answer)[i] \in Range(cache)
              \/ Inserted(key, answer)[i] = [key |-> key, answer |-> answer]
         /\ CacheSize > 0 =>
              \E i \in 1..Len(Inserted(key, answer)) :
                Inserted(key, answer)[i] = [key |-> key, answer |-> answer]
<1> DEFINE new == [key |-> key, answer |-> answer]
           s == Stored(key, answer)
           n == Len(cache)
<1>1. /\ cache \in Seq(Entries) /\ n \in Nat /\ n =< CacheSize /\ CacheSize \in Nat
      /\ DOMAIN cache = 1..n
      /\ \A i \in 1..n : cache[i] \in Entries
      /\ \A i, j \in 1..n : cache[i].key = cache[j].key => i = j
  BY CacheSizeAssumption DEF CacheInv
<1>2. new \in Entries /\ new.key = key /\ new.answer = answer
  BY DEF Entries
<1>3. Range(cache) = {cache[i] : i \in 1..n}
  BY <1>1 DEF Range
<1> HIDE DEF new
<1>4. CASE Hits(key) = {}
  <2>1. \A i \in 1..n : cache[i].key # key
    BY <1>3, <1>4 DEF Hits
  <2>2. s = Append(cache, new)
    BY <1>4 DEF Stored, new
  <2>3. /\ s \in Seq(Entries) /\ Len(s) = n + 1
        /\ \A i \in 1..n : s[i] = cache[i]
        /\ s[n + 1] = new
    BY <1>1, <1>2, <2>2
  <2> HIDE DEF s
  <2>4. \A i, j \in 1..(n + 1) : s[i].key = s[j].key => i = j
    <3>1. \A i \in 1..(n + 1) : i \in 1..n \/ i = n + 1
      BY <1>1
    <3> QED  BY <1>1, <1>2, <2>1, <2>3, <3>1
  <2>5. \A i \in 1..(n + 1) : s[i] \in Range(cache) \/ s[i] = new
    <3>1. \A i \in 1..(n + 1) : i \in 1..n \/ i = n + 1
      BY <1>1
    <3> QED  BY <1>3, <2>3, <3>1
  <2>6. CASE n + 1 > CacheSize
    <3>1. Inserted(key, answer) = Tail(s)
      BY <2>3, <2>6 DEF Inserted, s
    <3> DEFINE t == Tail(s)
    <3>a. n = CacheSize /\ s # <<>>
      <4>1. n = CacheSize
        <5>1. n \in Int /\ CacheSize \in Int /\ n =< CacheSize
          BY <1>1
        <5> HIDE DEF n
        <5> QED  BY <2>6, <5>1
      <4>2. Len(s) # 0
        BY <1>1, <2>3
      <4>3. s # <<>>
        BY <2>3, <4>2, EmptySeq
      <4> QED  BY <4>1, <4>3
    <3>2. t \in Seq(Entries) /\ Len(t) = n /\ n = CacheSize
      <4>1. t \in Seq(Entries) /\ Len(t) = Len(s) - 1
        BY <2>3, <3>a, HeadTailProperties
      <4> QED  BY <1>1, <2>3, <3>a, <4>1
    <3>3. \A i \in 1..n : t[i] = s[i + 1] /\ i + 1 \in 1..(n + 1)
      BY <1>1, <2>3
    <3> HIDE DEF t
    <3>4. \A i, j \in 1..n : t[i].key = t[j].key => i = j
      <4>1. ASSUME NEW i \in 1..n, NEW j \in 1..n, t[i].key = t[j].key
            PROVE  i = j
        <5>1. i + 1 = j + 1
          BY <2>4, <3>3, <4>1
        <5> QED  BY <1>1, <5>1
      <4> QED  BY <4>1
    <3>5. \A i \in 1..n : t[i] \in Range(cache) \/ t[i] = new
      BY <2>5, <3>3
    <3>6. CacheSize > 0 => n \in 1..n /\ t[n] = new
      BY <1>1, <2>3, <3>2, <3>3
    <3> QED  BY <1>1, <3>1, <3>2, <3>4, <3>5, <3>6 DEF t, new
  <2>7. CASE ~(n + 1 > CacheSize)
    <3>1. Inserted(key, answer) = s
      BY <2>3, <2>7 DEF Inserted, s
    <3>2. n + 1 =< CacheSize /\ n + 1 \in 1..(n + 1)
      BY <1>1, <2>7
    <3> QED  BY <2>3, <2>4, <2>5, <3>1, <3>2 DEF new
  <2> QED  BY <2>6, <2>7
<1>5. CASE Hits(key) # {}
  <2>1. PICK k \in 1..n : cache[k].key = key
    BY <1>3, <1>5 DEF Hits
  <2>2. s = [i \in 1..n |-> IF cache[i].key = key THEN [cache[i] EXCEPT !.answer = answer] ELSE cache[i]]
    BY <1>5 DEF Stored
  <2>3. \A i \in 1..n : cache[i].key = key => [cache[i] EXCEPT !.answer = answer] = new
    BY <1>1 DEF Entries, new
  <2>4. \A i \in 1..n : s[i] = IF cache[i].key = key THEN new ELSE cache[i]
    BY <2>2, <2>3
  <2>5. s \in Seq(Entries) /\ Len(s) = n
    BY <1>1, <1>2, <2>2, <2>4
  <2> HIDE DEF s
  <2>6. Inserted(key, answer) = s
    BY <1>1, <2>5 DEF Inserted, s
  <2>7. \A i, j \in 1..n : s[i].key = s[j].key => i = j
    BY <1>1, <1>2, <2>4
  <2>8. \A i \in 1..n : s[i] \in Range(cache) \/ s[i] = new
    BY <1>3, <2>4
  <2>9. s[k] = new
    BY <2>1, <2>4
  <2> QED  BY <1>1, <2>1, <2>5, <2>6, <2>7, <2>8, <2>9 DEF new
<1> QED  BY <1>4, <1>5

(* What the cache returns for a payload is an answer stored for it.         *)
LEMMA CachedAnswers ==
  ASSUME CacheInv
  PROVE  /\ \A e \in Range(cache) : e \in Entries
         /\ \A key \in Payloads : \A e \in Hits(key) : e \in Range(cache) /\ e.key = key
<1>1. cache \in Seq(Entries) /\ DOMAIN cache = 1..Len(cache)
  BY DEF CacheInv
<1>2. \A i \in 1..Len(cache) : cache[i] \in Entries
  BY <1>1
<1> QED  BY <1>1, <1>2 DEF Range, Hits

(* A call is looked up, and answered from the cache, in one step.           *)
LEMMA CallBegins ==
  ASSUME DataInv, NEW c \in Calls, BeginInfer(c)
  PROVE  \E x \in [stage : CallStages \ {"idle"}, model : Answers, answer : Answers] :
           /\ call[c].stage = "idle"
           /\ call' = [call EXCEPT ![c] = x]
           /\ x.stage = "predicting" =>
                x.model \in Objects /\ x.model = Find(single[entry], c.version) /\ entry # NoRegistry
           /\ x.stage = "answered" =>
                CacheEnabled /\ \E e \in Range(cache) : e.key = c.payload /\ x.answer = e.answer
<1> DEFINE m == IF entry = NoRegistry THEN NoModel ELSE Find(single[entry], c.version)
           hits == IF CacheEnabled THEN Hits(c.payload) ELSE {}
           T == [stage : CallStages \ {"idle"}, model : Answers, answer : Answers]
<1>1. call \in [Calls -> [stage : CallStages, model : Answers, answer : Answers]]
  BY DEF DataInv, CallInv
<1>2. ready \subseteq Objects /\ NoModel \notin Objects
  BY ObjectParts DEF DataInv, RegistryInv, TypeOK
<1>3. \A e \in hits : CacheEnabled /\ e \in Entries /\ e \in Range(cache) /\ e.key = c.payload
  BY CachedAnswers DEF DataInv, Payloads
<1>4. /\ call[c].stage = "idle"
      /\ \/ call' = [call EXCEPT ![c].stage = "not_found"]
         \/ call' = [call EXCEPT ![c].stage = "not_ready"]
         \/ \E e \in hits : call' = [call EXCEPT ![c].stage = "answered", ![c].answer = e.answer]
         \/ m \in ready /\ call' = [call EXCEPT ![c].stage = "predicting", ![c].model = m]
  BY DEF BeginInfer
<1>5. m \in ready => m \in Objects /\ m = Find(single[entry], c.version) /\ entry # NoRegistry
  BY <1>2
<1> HIDE DEF m, hits
<1>6. CASE call' = [call EXCEPT ![c].stage = "not_found"]
  <2> DEFINE x == [call[c] EXCEPT !.stage = "not_found"]
  <2>1. x \in T /\ x.stage = "not_found" /\ call' = [call EXCEPT ![c] = x]
    BY <1>1, <1>6 DEF CallStages
  <2> HIDE DEF x
  <2> QED  BY <1>4, <2>1
<1>7. CASE call' = [call EXCEPT ![c].stage = "not_ready"]
  <2> DEFINE x == [call[c] EXCEPT !.stage = "not_ready"]
  <2>1. x \in T /\ x.stage = "not_ready" /\ call' = [call EXCEPT ![c] = x]
    BY <1>1, <1>7 DEF CallStages
  <2> HIDE DEF x
  <2> QED  BY <1>4, <2>1
<1>8. ASSUME NEW e \in hits, call' = [call EXCEPT ![c].stage = "answered", ![c].answer = e.answer]
      PROVE  \E x \in T :
           /\ call[c].stage = "idle"
           /\ call' = [call EXCEPT ![c] = x]
           /\ x.stage # "predicting"
           /\ CacheEnabled /\ \E f \in Range(cache) : f.key = c.payload /\ x.answer = f.answer
  <2> DEFINE x == [call[c] EXCEPT !.stage = "answered", !.answer = e.answer]
  <2>1. e.answer \in Answers
    BY <1>3 DEF Entries
  <2>2. x \in T /\ x.stage = "answered" /\ x.answer = e.answer /\ call' = [call EXCEPT ![c] = x]
    BY <1>1, <1>8, <2>1 DEF CallStages
  <2> HIDE DEF x
  <2> QED  BY <1>3, <1>4, <2>2
<1>9. CASE m \in ready /\ call' = [call EXCEPT ![c].stage = "predicting", ![c].model = m]
  <2> DEFINE x == [call[c] EXCEPT !.stage = "predicting", !.model = m]
  <2>1. x \in T /\ x.stage = "predicting" /\ x.model = m /\ call' = [call EXCEPT ![c] = x]
    BY <1>1, <1>5, <1>9 DEF CallStages, Answers
  <2> HIDE DEF x
  <2> QED  BY <1>4, <1>5, <1>9, <2>1
<1> QED  BY <1>4, <1>6, <1>7, <1>8, <1>9

(* A call that predicted is answered, and its answer goes into the cache.   *)
LEMMA CallEnds ==
  ASSUME DataInv, NEW c \in Calls, EndInfer(c)
  PROVE  /\ call[c].stage = "predicting"
         /\ \A d \in Calls : call'[d] = IF d = c THEN [call[c] EXCEPT !.stage = "answered", !.answer = call[c].model]
                                        ELSE call[d]
         /\ call'[c].answer = call[c].model
         /\ CallInv' /\ CacheInv'
         /\ \A e \in Range(cache') : e \in Range(cache) \/ e = [key |-> c.payload, answer |-> call[c].model]
         /\ CacheEnabled /\ CacheSize > 0 =>
              \E e \in Range(cache') : e.key = c.payload /\ e.answer = call[c].model
<1> DEFINE T == [stage : CallStages, model : Answers, answer : Answers]
           x == [call[c] EXCEPT !.stage = "answered", !.answer = call[c].model]
<1>1. call \in [Calls -> T] /\ CacheInv
  BY DEF DataInv, CallInv
<1>2. /\ call[c].stage = "predicting"
      /\ call' = [call EXCEPT ![c].stage = "answered", ![c].answer = call[c].model]
      /\ cache' = IF CacheEnabled THEN Inserted(c.payload, call[c].model) ELSE cache
  BY DEF EndInfer
<1>3. x \in T /\ x.answer = call[c].model /\ call' = [call EXCEPT ![c] = x]
  BY <1>1, <1>2 DEF CallStages
<1>4. CallInv' /\ call'[c] = x /\ \A d \in Calls : d # c => call'[d] = call[d]
  BY <1>1, <1>3 DEF CallInv
<1>5. c.payload \in Payloads /\ call[c].model \in Answers
  BY <1>1 DEF Payloads
<1>6. PICK a \in Answers : a = call[c].model
  BY <1>5
<1>7. CASE CacheEnabled
  <2>1. PICK s : s = Inserted(c.payload, a)
    OBVIOUS
  <2>2. /\ s \in Seq(Entries) /\ Len(s) =< CacheSize
        /\ \A i, j \in 1..Len(s) : s[i].key = s[j].key => i = j
        /\ \A i \in 1..Len(s) : s[i] \in Range(cache) \/ s[i] = [key |-> c.payload, answer |-> a]
        /\ CacheSize > 0 => \E i \in 1..Len(s) : s[i] = [key |-> c.payload, answer |-> a]
    BY <1>1, <1>5, <2>1, InsertedIsThere
  <2>3. cache' = s
    BY <1>2, <1>6, <1>7, <2>1
  <2>4. Range(s) = {s[i] : i \in 1..Len(s)}
    BY <2>2 DEF Range
  <2>5. CacheInv'
    BY <2>2, <2>3 DEF CacheInv
  <2>6. Range(cache') = Range(s)
    BY <2>3
  <2>7. \A e \in Range(cache') : e \in Range(cache) \/ e = [key |-> c.payload, answer |-> call[c].model]
    BY <1>6, <2>2, <2>4, <2>6
  <2>8. CacheSize > 0 => \E e \in Range(cache') : e.key = c.payload /\ e.answer = call[c].model
    BY <1>6, <2>2, <2>4, <2>6
  <2> QED  BY <1>2, <1>3, <1>4, <2>5, <2>7, <2>8
<1>8. CASE ~CacheEnabled
  <2>1. cache' = cache
    BY <1>2, <1>8
  <2>2. CacheInv' /\ Range(cache') = Range(cache)
    BY <1>1, <2>1 DEF CacheInv
  <2> QED  BY <1>2, <1>3, <1>4, <1>8, <2>2
<1> QED  BY <1>7, <1>8

(* Looking a model up stores the default, or changes nothing. *)
LEMMA LookupStep ==
  ASSUME DataInv, NEW c \in Calls, BeginInfer(c)
  PROVE  (ReadDefault \/ UNCHANGED vars) /\ UNCHANGED <<request, cache>>
<1>1. /\ single' = IF entry = NoRegistry THEN single ELSE [single EXCEPT ![entry] = Found(@, c.version)]
      /\ UNCHANGED <<made, entry, ready, task, request, cache>>
  BY DEF BeginInfer
<1>2. CASE entry # NoRegistry /\ c.version = Unversioned
  <2>1. single' = [single EXCEPT ![entry] = Cached(@)]
    BY <1>1, <1>2 DEF Found
  <2> QED  BY <1>1, <1>2, <2>1 DEF ReadDefault
<1>3. CASE ~(entry # NoRegistry /\ c.version = Unversioned)
  <2>1. single' = single
    BY <1>1, <1>3 DEF Found, DataInv, RegistryInv, TypeOK
  <2> QED  BY <1>1, <2>1 DEF vars
<1> QED  BY <1>2, <1>3

(* Every step keeps the types, and is for the registry one of its own       *)
(* steps.                                                                   *)
LEMMA DataStep == DataInv /\ [DataNext]_dataVars => DataInv' /\ [Next]_vars
<1> SUFFICES ASSUME DataInv, [DataNext]_dataVars
             PROVE  DataInv' /\ [Next]_vars
  OBVIOUS
<1>0. RegistryInv /\ RequestInv /\ CallInv /\ CacheInv
  BY DEF DataInv
<1>1. CASE HandlersNext /\ UNCHANGED <<call, cache>>
  <2>1. RequestInv' /\ [Next]_vars
    BY <1>0, <1>1, HandlersStep
  <2>2. RegistryInv'
    BY <1>0, <2>1, RegistryStep
  <2>3. CallInv' /\ CacheInv'
    BY <1>0, <1>1 DEF CallInv, CacheInv
  <2> QED  BY <2>1, <2>2, <2>3 DEF DataInv
<1>2. ASSUME NEW c \in Calls, BeginInfer(c)
      PROVE  DataInv' /\ [Next]_vars
  <2>1. [Next]_vars /\ UNCHANGED <<request, cache>>
    BY <1>2, LookupStep DEF Next
  <2>2. RegistryInv'
    BY <1>0, <2>1, RegistryStep
  <2>3. PICK x \in [stage : CallStages \ {"idle"}, model : Answers, answer : Answers] :
          call' = [call EXCEPT ![c] = x]
    BY <1>2, CallBegins
  <2>4. CallInv'
    BY <1>0, <2>3 DEF CallInv
  <2>5. RequestInv' /\ CacheInv'
    BY <1>0, <2>1 DEF RequestInv, CacheInv
  <2> QED  BY <2>1, <2>2, <2>4, <2>5 DEF DataInv
<1>3. ASSUME NEW c \in Calls, EndInfer(c)
      PROVE  DataInv' /\ [Next]_vars
  <2>1. CallInv' /\ CacheInv'
    BY <1>3, CallEnds
  <2>2. UNCHANGED vars /\ request' = request
    BY <1>3 DEF EndInfer, handlerVars
  <2>3. RegistryInv' /\ RequestInv'
    BY <1>0, <2>2, RegistryStep DEF RequestInv
  <2> QED  BY <2>1, <2>2, <2>3 DEF DataInv
<1>4. ASSUME NEW c \in Calls, FailInfer(c)
      PROVE  DataInv' /\ [Next]_vars
  <2>1. UNCHANGED vars /\ request' = request /\ cache' = cache
        /\ call' = [call EXCEPT ![c].stage = "raised"]
    BY <1>4 DEF FailInfer, handlerVars
  <2>2. RegistryInv' /\ RequestInv' /\ CacheInv'
    BY <1>0, <2>1, RegistryStep DEF RequestInv, CacheInv
  <2>3. CallInv'
    BY <1>0, <2>1 DEF CallInv, CallStages
  <2> QED  BY <2>1, <2>2, <2>3 DEF DataInv
<1>5. CASE UNCHANGED dataVars
  <2>1. UNCHANGED vars /\ request' = request /\ cache' = cache /\ call' = call
    BY <1>5 DEF dataVars, handlerVars
  <2>2. RegistryInv' /\ RequestInv' /\ CacheInv' /\ CallInv'
    BY <1>0, <2>1, RegistryStep DEF RequestInv, CacheInv, CallInv
  <2> QED  BY <2>1, <2>2 DEF DataInv
<1> QED
  BY <1>1, <1>2, <1>3, <1>4, <1>5 DEF DataNext

(* The server starts with an empty registry, and no call.                   *)
LEMMA DataInit == InitData => DataInv /\ Init
<1> SUFFICES ASSUME InitData  PROVE DataInv /\ Init
  OBVIOUS
<1>1. Init /\ RegistryInv /\ RequestInv
  BY RegistryInit, RequestsInit DEF InitData, InitHandlers
<1>2. CallInv
  BY DEF InitData, CallInv, CallStages, Answers
<1>3. CacheInv
  BY CacheSizeAssumption DEF InitData, CacheInv
<1> QED  BY <1>1, <1>2, <1>3 DEF DataInv

(* The types hold always.                                                   *)
LEMMA DataAlways == DataSpec => []DataInv
<1> QED  BY DataInit, DataStep, PTL DEF DataSpec

-----------------------------------------------------------------------------
(* Whatever the handlers are asked and whatever the data plane looks up,    *)
(* the registry of a name takes no step that is not one of its operations:  *)
(* all that is proved of the registry holds of it in the server             *)
(* (handlers/model_repository.py:82, handlers/dataplane.py:91).             *)
THEOREM ServingUsesRegistry == DataSpec => Spec
<1>1. DataSpec => [][DataInv /\ DataNext]_dataVars
  BY DataAlways, PTL DEF DataSpec
<1>2. [DataInv /\ DataNext]_dataVars => [Next]_vars
  <2>1. UNCHANGED dataVars => UNCHANGED vars
    BY DEF dataVars, handlerVars
  <2> QED  BY <2>1, DataStep
<1> QED  BY <1>1, <1>2, DataInit, PTL DEF DataSpec, Spec

(* Overlapping loads of folders leave the latest version the default while  *)
(* a client reads it.                                                       *)
THEOREM ServingLatest == DataSpec => []LatestWhileLoading
<1> QED  BY ServingUsesRegistry, OverlappingLoads, PTL

(* What is cached is never more than the size of the cache, nor twice, and   *)
(* an answer that is inserted can be found (cache/local/local.py:17).       *)
THEOREM CacheHolds == CacheEnabled => (DataSpec => LatestIsCached)
<1> DEFINE A == /\ Len(cache') =< CacheSize
                /\ \A i, j \in 1..Len(cache') : cache'[i].key = cache'[j].key => i = j
                /\ \A c \in Calls : call[c].stage = "predicting" /\ call'[c].stage = "answered" /\ CacheSize > 0
                     => \E e \in Range(cache') : e.key = c.payload /\ e.answer = call'[c].answer
<1>1. ASSUME CacheEnabled, DataInv, DataNext
      PROVE  A
  <2>1. CacheInv'
    BY <1>1, DataStep DEF DataInv
  <2>2. ASSUME NEW c \in Calls, call[c].stage = "predicting", call'[c].stage = "answered", CacheSize > 0
        PROVE  \E e \in Range(cache') : e.key = c.payload /\ e.answer = call'[c].answer
    <3>1. ASSUME NEW d \in Calls, BeginInfer(d)
          PROVE  FALSE
      <4>1. call[d].stage = "idle" /\ \E x \in [stage : CallStages \ {"idle"}, model : Answers, answer : Answers] : call' = [call EXCEPT ![d] = x]
        BY <1>1, <3>1, CallBegins
      <4> QED  BY <1>1, <2>2, <4>1 DEF DataInv, CallInv
    <3>2. ASSUME NEW d \in Calls, EndInfer(d)
          PROVE  \E e \in Range(cache') : e.key = c.payload /\ e.answer = call'[c].answer
      <4>1. d = c
        BY <1>1, <2>2, <3>2, CallEnds
      <4> QED  BY <1>1, <2>2, <3>2, <4>1, CallEnds
    <3>3. ASSUME NEW d \in Calls, FailInfer(d)
          PROVE  FALSE
      BY <1>1, <2>2, <3>3 DEF FailInfer, DataInv, CallInv
    <3> QED  BY <1>1, <2>2, <3>1, <3>2, <3>3 DEF DataNext
  <2> QED  BY <2>1, <2>2 DEF CacheInv
<1>2. DataSpec => [][DataInv /\ DataNext]_dataVars
  BY DataAlways, PTL DEF DataSpec
<1> SUFFICES ASSUME CacheEnabled
             PROVE  DataSpec => LatestIsCached
  OBVIOUS
<1>3. [DataInv /\ DataNext]_dataVars => [A]_dataVars
  BY <1>1
<1> QED  BY <1>2, <1>3, PTL DEF LatestIsCached

-----------------------------------------------------------------------------
(* The key of the cache is the payload alone (handlers/dataplane.py:143):    *)
(* the answers are the named version's if each payload is sent to one.      *)
OwnPayloads == \A c, d \in Calls : c.payload = d.payload => c.version = d.version

AnswersInv ==
  /\ \A c \in Calls : call[c].stage = "predicting" /\ c.version # Unversioned =>
       call[c].model.version = c.version
  /\ CacheEnabled =>
       \A e \in Range(cache) : \A c \in Calls :
         e.key = c.payload /\ c.version # Unversioned => e.answer.version = c.version
  /\ AnswersOwnVersion

(* No step makes a call have, or the cache hold, the answer of another      *)
(* version.                                                                 *)
LEMMA AnswersStep ==
  ASSUME CacheEnabled => OwnPayloads, DataInv, AnswersInv, [DataNext]_dataVars
  PROVE  AnswersInv'
<1>c. call \in [Calls -> [stage : CallStages, model : Answers, answer : Answers]]
  BY DEF DataInv, CallInv
<1>1. ASSUME UNCHANGED <<call, cache>>
      PROVE  AnswersInv'
  BY <1>1 DEF AnswersInv, AnswersOwnVersion
<1>2. ASSUME NEW c \in Calls, BeginInfer(c)
      PROVE  AnswersInv'
  <2>1. PICK x \in [stage : CallStages \ {"idle"}, model : Answers, answer : Answers] :
           /\ call' = [call EXCEPT ![c] = x]
           /\ x.stage = "predicting" =>
                x.model \in Objects /\ x.model = Find(single[entry], c.version) /\ entry # NoRegistry
           /\ x.stage = "answered" =>
                CacheEnabled /\ \E e \in Range(cache) : e.key = c.payload /\ x.answer = e.answer
    BY <1>2, CallBegins
  <2>2. cache' = cache
    BY <1>2, LookupStep
  <2>3. \A d \in Calls : call'[d] = IF d = c THEN x ELSE call[d]
    BY <1>c, <2>1
  <2>4. x.stage = "predicting" /\ c.version # Unversioned => x.model.version = c.version
    <3>1. ASSUME entry # NoRegistry
          PROVE  Filed(single[entry])
      BY <3>1 DEF DataInv, RegistryInv, TypeOK
    <3>2. c.version # Unversioned => c.version \in Versions
      BY CallsAssumption
    <3>3. x.stage = "predicting" => x.model # NoModel
      BY <2>1, ObjectParts
    <3> QED  BY <2>1, <3>1, <3>2, <3>3 DEF Find, Filed
  <2>5. x.stage = "answered" /\ c.version # Unversioned => x.answer.version = c.version
    BY <2>1 DEF AnswersInv
  <2> QED  BY <2>2, <2>3, <2>4, <2>5 DEF AnswersInv, AnswersOwnVersion
<1>3. ASSUME NEW c \in Calls, EndInfer(c)
      PROVE  AnswersInv'
  <2>1. /\ call[c].stage = "predicting"
        /\ \A d \in Calls : call'[d] = IF d = c THEN [call[c] EXCEPT !.stage = "answered", !.answer = call[c].model]
                                       ELSE call[d]
        /\ call'[c].answer = call[c].model
        /\ \A e \in Range(cache') : e \in Range(cache) \/ e = [key |-> c.payload, answer |-> call[c].model]
    BY <1>3, CallEnds
  <2>2. call'[c].stage = "answered"
    BY <1>c, <2>1
  <2>3. c.version # Unversioned => call[c].model.version = c.version
    BY <2>1 DEF AnswersInv
  <2>4. ASSUME CacheEnabled, NEW e \in Range(cache'), NEW d \in Calls, e.key = d.payload, d.version # Unversioned
        PROVE  e.answer.version = d.version
    <3>1. CASE e \in Range(cache)
      BY <2>4, <3>1 DEF AnswersInv
    <3>2. CASE e = [key |-> c.payload, answer |-> call[c].model]
      <4>1. d.version = c.version
        BY <2>4, <3>2 DEF OwnPayloads
      <4> QED  BY <2>3, <2>4, <3>2, <4>1
    <3> QED  BY <2>1, <3>1, <3>2
  <2> QED  BY <2>1, <2>2, <2>3, <2>4 DEF AnswersInv, AnswersOwnVersion
<1>4. ASSUME NEW c \in Calls, FailInfer(c)
      PROVE  AnswersInv'
  <2>1. /\ cache' = cache
        /\ \A d \in Calls : d # c => call'[d] = call[d]
        /\ call'[c].stage = "raised"
    BY <1>c, <1>4 DEF FailInfer
  <2> QED  BY <2>1 DEF AnswersInv, AnswersOwnVersion
<1> QED
  BY <1>1, <1>2, <1>3, <1>4 DEF DataNext, dataVars

(* A call of a version is answered by a model of that version, however the   *)
(* version is reloaded or unloaded meanwhile, from the cache or not, unless *)
(* one payload is sent to several versions (handlers/dataplane.py:143).     *)
THEOREM AnswersAreOwn == (CacheEnabled => OwnPayloads) => (DataSpec => []AnswersOwnVersion)
<1> SUFFICES ASSUME CacheEnabled => OwnPayloads
             PROVE  DataSpec => []AnswersOwnVersion
  OBVIOUS
<1>1. InitData => AnswersInv
  <2>1. InitData => Range(cache) = {} /\ \A c \in Calls : call[c].stage = "idle"
    BY DEF InitData, Range
  <2> QED  BY <2>1 DEF AnswersInv, AnswersOwnVersion
<1>2. DataInv /\ AnswersInv /\ [DataNext]_dataVars => AnswersInv'
  BY AnswersStep
<1>3. AnswersInv => AnswersOwnVersion
  BY DEF AnswersInv
<1> QED  BY <1>1, <1>2, <1>3, DataAlways, PTL DEF DataSpec

-----------------------------------------------------------------------------
(* What the steps of an operation do to its task.                           *)

(* load runs a hook first, or has failed already.                           *)
LEMMA BeginLoadTask ==
  ASSUME RegistryInv, NEW o \in Ops, BeginLoad(o)
  PROVE  /\ o \in Loads /\ task[o].stage = "idle"
         /\ \E t : task' = [task EXCEPT ![o] = t] /\ t.stage \in {"hook", "failed"}
<1>1. o \in Loads /\ task[o].stage = "idle"
  BY DEF BeginLoad, MayBegin, Loads
<1>2. PICK u : u = [task[o] EXCEPT !.stage = "failed"]
  OBVIOUS
<1>3. PICK old : old = Find(single[RegistryToUse], o.version)
  OBVIOUS
<1>4. PICK w : w = [Idle EXCEPT !.stage = "hook", !.registry = RegistryToUse, !.model = Raw(o),
                                !.old = old, !.reload = (old # NoModel)]
  OBVIOUS
<1>5. task' = [task EXCEPT ![o] = w] \/ task' = [task EXCEPT ![o] = u]
  BY <1>2, <1>3, <1>4 DEF BeginLoad
<1>6. w.stage = "hook"
  BY <1>4 DEF Idle
<1>7. task[o] \in TaskTypes
  BY DEF RegistryInv, TypeOK, TaskTypes
<1>8. u.stage = "failed"
  BY <1>2, <1>7 DEF TaskTypes
<1> QED  BY <1>1, <1>5, <1>6, <1>8

(* unload has its hooks to run.                                             *)
LEMMA BeginUnloadTask ==
  ASSUME NEW o \in Ops, BeginUnload(o)
  PROVE  /\ o \notin Loads /\ task[o].stage = "idle"
         /\ \E t : task' = [task EXCEPT ![o] = t] /\ t.stage = "unload"
<1>1. o \notin Loads /\ task[o].stage = "idle"
  BY DEF BeginUnload, MayBegin, Loads
<1>2. PICK T : T = IF o.kind = "purge" THEN Models(single[entry])
                   ELSE {Find(single[entry], o.version)} \ {NoModel}
  OBVIOUS
<1>3. PICK u : u = [Idle EXCEPT !.stage = "unload", !.registry = entry, !.hooking = T]
  OBVIOUS
<1>4. task' = [task EXCEPT ![o] = u]
  BY <1>2, <1>3 DEF BeginUnload
<1>5. u.stage = "unload"
  BY <1>3 DEF Idle
<1> QED  BY <1>1, <1>4, <1>5

(* An operation that goes on is never back at its first hook, and a load    *)
(* that began to undo its work does nothing else.                           *)
LEMMA GoOnTask ==
  ASSUME RegistryInv, NEW o \in Ops, GoOn(o)
  PROVE  /\ task[o].stage \notin {"idle", "done", "unretired"}
         /\ \E t : /\ task' = [task EXCEPT ![o] = t] /\ t.stage \in Stages \ {"idle", "hook"}
                   /\ o \in Loads /\ task[o].stage \in {"unload", "failed"} =>
                        t.stage \in {"unload", "failed"}
<1>t. task \in [Ops -> TaskTypes] /\ task[o] \in TaskTypes /\ Shape(o, task[o], made)
  BY DEF RegistryInv, TypeOK, TaskTypes, TaskShape
<1>1. PICK t0 : t0 = task[o]
  OBVIOUS
<1>2. t0 \in TaskTypes /\ (t0.hooking \cup t0.stopping # {} => t0.stage \in {"unload", "failed"})
  BY <1>t, <1>1 DEF Shape
<1>3. CASE FinishHook(o) \/ FinishLateHook(o) \/ FinishLoad(o)
  <2>1. /\ t0.stage \in {"hook", "late_hook", "load", "retire"}
        /\ task'[o].stage \in {"late_hook", "load", "retire", "done"}
        /\ \E t : task' = [task EXCEPT ![o] = t]
    BY <1>t, <1>1, <1>3 DEF FinishHook, FinishLateHook, FinishLoad, TaskTypes
  <2>2. PICK t : task' = [task EXCEPT ![o] = t]
    BY <2>1
  <2>3. t.stage \in {"late_hook", "load", "retire", "done"}
    BY <1>t, <2>1, <2>2
  <2> QED  BY <1>1, <2>1, <2>2, <2>3 DEF Stages
<1>r. CASE FinishRetire(o)
  <2>1. PICK st \in {"done", "unretired"} : Retired(o, st)
    BY <1>r, RetireEnds
  <2>2. PICK t : t = [t0 EXCEPT !.stage = st]
    OBVIOUS
  <2>3. t0.stage = "retire" /\ task' = [task EXCEPT ![o] = t]
    BY <1>1, <2>1, <2>2 DEF Retired
  <2>4. t.stage = st
    BY <1>2, <2>2 DEF TaskTypes
  <2> QED  BY <1>1, <2>3, <2>4 DEF Stages
<1>4. CASE FailLoad(o)
  <2>1. /\ t0.stage \in {"init", "hook", "late_hook", "load"}
        /\ task'[o].stage \in {"failed", "unload"}
        /\ \E t : task' = [task EXCEPT ![o] = t]
    BY <1>t, <1>1, <1>4, FailuresAssumption DEF FailLoad, TaskTypes
  <2>2. PICK t : task' = [task EXCEPT ![o] = t]
    BY <2>1
  <2>3. t.stage \in {"failed", "unload"}
    BY <1>t, <2>1, <2>2
  <2> QED  BY <1>1, <2>1, <2>2, <2>3 DEF Stages
<1>5. CASE \E m \in t0.hooking : FinishUnloadHooks(o, m)
  <2>1. PICK m \in t0.hooking : FinishUnloadHooks(o, m)
    BY <1>5
  <2>2. t0.stage \in {"unload", "failed"}
    BY <1>2
  <2>3. /\ task'[o].stage \in {"unload", "failed"}
        /\ \E t : task' = [task EXCEPT ![o] = t]
    BY <1>t, <1>1, <2>1, <2>2 DEF FinishUnloadHooks, TaskTypes
  <2>4. PICK t : task' = [task EXCEPT ![o] = t]
    BY <2>3
  <2>5. t.stage \in {"failed", "unload"}
    BY <1>t, <2>3, <2>4
  <2> QED  BY <1>1, <2>2, <2>4, <2>5 DEF Stages
<1>6. CASE \E m \in t0.stopping : FinishModelUnload(o, m)
  <2>1. PICK m \in t0.stopping : FinishModelUnload(o, m)
    BY <1>6
  <2>2. t0.stage \in {"unload", "failed"}
    BY <1>2
  <2>3. PICK st \in {t0.stage, "failed"} : Stopped(o, m, st)
    BY <1>1, <2>1, UnloadEnds
  <2>4. PICK t : t = [t0 EXCEPT !.stopping = @ \ {m}, !.stage = st]
    OBVIOUS
  <2>5. task' = [task EXCEPT ![o] = t]
    BY <1>1, <2>3, <2>4 DEF Stopped
  <2>6. t.stage = st
    BY <1>2, <2>4 DEF TaskTypes
  <2> QED  BY <1>1, <2>2, <2>3, <2>5, <2>6 DEF Stages
<1>7. CASE EndUnload(o)
  <2>1. /\ t0.stage = "unload"
        /\ task'[o].stage \in {"failed", "done"} /\ (o \in Loads => task'[o].stage = "failed")
        /\ \E t : task' = [task EXCEPT ![o] = t]
    BY <1>t, <1>1, <1>7 DEF EndUnload, TaskTypes, Loads
  <2>2. PICK t : task' = [task EXCEPT ![o] = t]
    BY <2>1
  <2>3. t.stage \in {"failed", "done"} /\ (o \in Loads => t.stage = "failed")
    BY <1>t, <2>1, <2>2
  <2> QED  BY <1>1, <2>1, <2>2, <2>3 DEF Stages
<1> QED  BY <1>1, <1>r, <1>3, <1>4, <1>5, <1>6, <1>7 DEF GoOn

-----------------------------------------------------------------------------
(* Requests that overlap, and load the same folder.                         *)

(* What a request has loaded, some load has begun. *)
ProgressInv ==
  \A r \in Requests :
    /\ request[r].stage = "unloading" => request[r].loading = {}
    /\ request[r].stage = "removing" => request[r].loaded = request[r].loading
    /\ request[r].stage = "done" /\ request[r].loading # {} => request[r].loaded = request[r].loading
    /\ \A v \in request[r].loaded : \E o \in Loads : o.version = v /\ task[o].stage # "idle"

(* Every request that was asked found the versions F and none has failed... *)
SameFolder(F) ==
  \A r \in Requests : request[r].stage # "idle" =>
    request[r].stage \in {"loading", "removing", "done"} /\ request[r].loading = F

(* ... but one is about to, ...                                             *)
Doomed ==
  \E r \in Requests : /\ Active(r) /\ request[r].op \in Loads
                      /\ task[request[r].op].stage \in {"unload", "failed"}

(* ... or there have only been loads of F, each of a request under way if it *)
(* is not done, and nothing is stale.                                       *)
OnlyFolder(F) ==
  /\ OnlyVersions
  /\ \A o \in Loads : task[o].stage # "idle" => o.version \in F
  /\ \A o \in Ops : task[o].stage \notin {"idle", "done"} =>
       \E r \in Requests : Active(r) /\ request[r].op = o
  /\ \A r \in Requests : request[r].stale = {}

FolderInv == \A F \in SUBSET Versions : F # {} /\ SameFolder(F) => Doomed \/ OnlyFolder(F)

ServingNext == HandlersNext \/ ((ReadDefault \/ UNCHANGED vars) /\ UNCHANGED request)

(* Every step of the data plane is one of the handlers, or changes no       *)
(* request.                                                                 *)
LEMMA ServingStep == DataInv /\ [DataNext]_dataVars => ServingNext
<1> SUFFICES ASSUME DataInv, [DataNext]_dataVars  PROVE ServingNext
  OBVIOUS
<1>1. ASSUME NEW c \in Calls, BeginInfer(c)
      PROVE  ServingNext
  BY <1>1, LookupStep DEF ServingNext
<1>2. ASSUME NEW c \in Calls, EndInfer(c) \/ FailInfer(c)
      PROVE  ServingNext
  BY <1>2 DEF ServingNext, EndInfer, FailInfer, handlerVars
<1>3. CASE UNCHANGED dataVars
  BY <1>3 DEF ServingNext, dataVars, handlerVars
<1> QED
  BY <1>1, <1>2, <1>3 DEF DataNext, ServingNext

(* An operation that has begun is never idle again. *)
LEMMA NeverIdle ==
  ASSUME RegistryInv, RequestInv, ServingNext, NEW o \in Ops, task[o].stage # "idle"
  PROVE  task'[o].stage # "idle"
<1>t. task \in [Ops -> TaskTypes]
  BY DEF RegistryInv, TypeOK, TaskTypes
<1>1. ASSUME task' = task
      PROVE  task'[o].stage # "idle"
  BY <1>1
<1>2. ASSUME NEW p \in Ops, NEW t, task' = [task EXCEPT ![p] = t], t.stage # "idle"
      PROVE  task'[o].stage # "idle"
  BY <1>t, <1>2
<1>3. ASSUME NEW r \in Requests, NEW v \in Versions, LoadNext(r, v)
      PROVE  task'[o].stage # "idle"
  <2>1. "load" \in r.kinds
    BY <1>3 DEF LoadNext, RequestInv
  <2>2. PICK p \in Ops : p = Own(r, "load", v)
    BY <2>1, OwnIsOperation
  <2>3. BeginLoad(p)
    BY <1>3, <2>2 DEF LoadNext
  <2> QED  BY <1>2, <2>3, BeginLoadTask
<1>4. ASSUME NEW r \in Requests, NEW v \in Versions, RemoveNext(r, v)
      PROVE  task'[o].stage # "idle"
  <2>1. "load" \in r.kinds
    BY <1>4 DEF RemoveNext, RequestInv
  <2>2. PICK p \in Ops : p = Own(r, "unload", v)
    BY <2>1, OwnIsOperation
  <2>3. BeginUnload(p) \/ UNCHANGED vars
    BY <1>4, <2>2 DEF RemoveNext
  <2> QED  BY <1>1, <1>2, <2>3, BeginUnloadTask DEF vars
<1>5. ASSUME NEW r \in Requests, Unload(r)
      PROVE  task'[o].stage # "idle"
  <2>1. PICK p \in Ops : BeginUnload(p) \/ UNCHANGED vars
    BY <1>5 DEF Unload
  <2> QED  BY <1>1, <1>2, <2>1, BeginUnloadTask DEF vars
<1>6. ASSUME NEW p \in Ops, GoOn(p)
      PROVE  task'[o].stage # "idle"
  <2>1. PICK t : task' = [task EXCEPT ![p] = t] /\ t.stage \in Stages \ {"idle", "hook"}
    BY <1>6, GoOnTask
  <2> QED  BY <1>2, <2>1
<1>7. ASSUME NEW r \in Requests, NEW found \in Folders, FindSettings(r, found)
      PROVE  task' = task
  BY <1>7 DEF FindSettings, vars
<1>8. ASSUME NEW r \in Requests, ListStale(r) \/ Finish(r) \/ Raise(r)
      PROVE  task' = task
  BY <1>8 DEF ListStale, Finish, Raise, vars
<1>9. CASE ReadDefault \/ UNCHANGED vars
  BY <1>1, <1>9 DEF ReadDefault, vars
<1> QED
  BY <1>1, <1>3, <1>4, <1>5, <1>6, <1>7, <1>8, <1>9 DEF ServingNext, HandlersNext

(* What a step makes of request r; the others, but for their history, are as *)
(* they were.                                                               *)
Alike(x, y) ==
  /\ x.stage = y.stage /\ x.loading = y.loading /\ x.loaded = y.loaded
  /\ x.stale = y.stale /\ x.op = y.op
Moves(r, x) ==
  /\ x \in RequestTypes /\ request'[r] = x
  /\ \A q \in Requests : q # r => Alike(request'[q], request[q])

(* It is asked, ... *)
Starts(x) ==
  /\ x.stage = "failed" \/ (x.stage = "loading" /\ x.loading # {})
  /\ x.loaded = {} /\ x.stale = {} /\ x.op = NoOp
  /\ UNCHANGED vars
(* ... loads the next version, ... *)
LoadsOne(y, x) ==
  /\ y.stage = "loading" /\ x.stage = "loading" /\ x.loading = y.loading /\ x.stale = y.stale
  /\ x.op \in Loads /\ x.op.version \in x.loading /\ x.loaded = y.loaded \cup {x.op.version}
  /\ y.op = NoOp \/ task[y.op].stage = "done"
  /\ BeginLoad(x.op)
(* ... lists what is stale, ... *)
Lists(y, x) ==
  /\ y.stage = "loading" /\ y.loaded = y.loading /\ y.op # NoOp /\ task[y.op].stage = "done"
  /\ x.stage = "removing" /\ x.loading = y.loading /\ x.loaded = y.loaded /\ x.op = y.op
  /\ x.stale = {m.version : m \in Models(Current)} \ y.loaded
  /\ ReadDefault
(* ... unloads the next stale version, or every version, ... *)
RemovesOne(y, x) ==
  /\ y.stage = "removing" /\ x.stage = "removing" /\ x.loading = y.loading /\ x.loaded = y.loaded
  /\ task[y.op].stage = "done"
  /\ x.op \in Ops /\ x.op.kind = "unload" /\ x.op.version \in y.stale \cap Versions
  /\ BeginUnload(x.op) /\ x.stale = y.stale \ {x.op.version}
Purges(x) ==
  /\ x.stage = "unloading" /\ x.loading = {} /\ x.loaded = {} /\ x.stale = {}
  /\ x.op \in Ops /\ BeginUnload(x.op)
(* ... is done, or has failed. *)
Closes(y, x) ==
  /\ task[y.op].stage = "done" /\ x = [y EXCEPT !.stage = "done"]
  /\ (y.stage = "removing" /\ y.stale = {}) \/ y.stage = "unloading"
  /\ UNCHANGED vars
Fails(y, x) == x = [y EXCEPT !.stage = "failed"] /\ UNCHANGED vars

RequestStep(r, x) ==
  \/ request[r].stage = "idle" /\ (Starts(x) \/ Purges(x))
  \/ LoadsOne(request[r], x)
  \/ Lists(request[r], x)
  \/ RemovesOne(request[r], x)
  \/ Closes(request[r], x)
  \/ Fails(request[r], x)

(* What a request begins with. *)
LEMMA BegunParts ==
  ASSUME RequestInv, NEW r \in Requests, NEW x \in RequestTypes, request' = Begun(r, x)
  PROVE  \A q \in Requests : Alike(request'[q], IF q = r THEN x ELSE request[q])
<1> SUFFICES ASSUME NEW q \in Requests
             PROVE  Alike(request'[q], IF q = r THEN x ELSE request[q])
  OBVIOUS
<1>1. PICK y \in RequestTypes : y = IF q = r THEN x ELSE request[q]
  BY DEF RequestInv
<1>2. PICK b : b = IF q = r THEN Quiet ELSE request[q].alone /\ ~Active(q)
  OBVIOUS
<1>3. request'[q] = [y EXCEPT !.alone = b]
  BY <1>1, <1>2 DEF Begun
<1>4. Alike([y EXCEPT !.alone = b], y)
  BY <1>1 DEF RequestTypes, Alike
<1> QED  BY <1>1, <1>3, <1>4

(* Every step of a handler is one of these, or one of the registry. *)
LEMMA RequestSteps ==
  ASSUME RegistryInv, RequestInv, ServingNext
  PROVE  \/ UNCHANGED request /\ (ReadDefault \/ UNCHANGED vars \/ \E o \in Ops : NoneDue /\ GoOn(o))
         \/ \E r \in Requests : \E x : Moves(r, x) /\ RequestStep(r, x)
<1>r. request \in [Requests -> RequestTypes] /\ RequestInv'
  <2>1. HandlersNext => RequestInv'
    BY HandlersStep
  <2>2. UNCHANGED request => RequestInv'
    BY DEF RequestInv
  <2> QED  BY <2>1, <2>2 DEF RequestInv, ServingNext
<1>m. ASSUME NEW r \in Requests, NEW x, request' = [request EXCEPT ![r] = x]
      PROVE  Moves(r, x)
  BY <1>m, <1>r DEF Moves, Alike, RequestInv
<1>b. ASSUME NEW r \in Requests, NEW x \in RequestTypes, request' = Begun(r, x)
      PROVE  \E y : Moves(r, y) /\ Alike(y, x)
  <2>1. \A q \in Requests : Alike(request'[q], IF q = r THEN x ELSE request[q])
    BY <1>b, BegunParts
  <2>2. PICK y : y = request'[r]
    OBVIOUS
  <2>3. y \in RequestTypes
    BY <1>r, <2>2 DEF RequestInv
  <2> QED  BY <2>1, <2>2, <2>3 DEF Moves
<1>f. ASSUME NEW r \in Requests, Fail(r), UNCHANGED vars
      PROVE  \E x : Moves(r, x) /\ RequestStep(r, x)
  <2>1. PICK x : x = [request[r] EXCEPT !.stage = "failed"]
    OBVIOUS
  <2>2. request' = [request EXCEPT ![r] = x]
    BY <1>f, <1>r, <2>1 DEF Fail
  <2>3. Moves(r, x) /\ Fails(request[r], x)
    BY <1>f, <1>m, <2>1, <2>2 DEF Fails
  <2> QED  BY <2>3 DEF RequestStep
<1>1. ASSUME NEW r \in Requests, NEW found \in Folders, FindSettings(r, found)
      PROVE  \E x : Moves(r, x) /\ RequestStep(r, x)
  <2>1. PICK x : x = [Asked EXCEPT !.stage = IF found = {} THEN "failed" ELSE "loading", !.loading = found]
    OBVIOUS
  <2>2. /\ x \in RequestTypes /\ (x.stage = "failed" \/ (x.stage = "loading" /\ x.loading # {}))
        /\ x.loaded = {} /\ x.stale = {} /\ x.op = NoOp
    BY <2>1, FoldersAssumption DEF Asked, RequestTypes, RequestStages
  <2>3. request' = Begun(r, x) /\ request[r].stage = "idle" /\ UNCHANGED vars
    BY <1>1, <2>1 DEF FindSettings
  <2>4. PICK y : Moves(r, y) /\ Alike(y, x)
    BY <1>b, <2>2, <2>3
  <2>5. Starts(y)
    BY <2>2, <2>3, <2>4 DEF Starts, Alike
  <2> QED  BY <2>3, <2>4, <2>5 DEF RequestStep
<1>2. ASSUME NEW r \in Requests, NEW v \in Versions, LoadNext(r, v)
      PROVE  \E x : Moves(r, x) /\ RequestStep(r, x)
  <2>1. request[r].stage = "loading" /\ "load" \in r.kinds /\ Due(r) /\ ~Raised(r)
        /\ v \in request[r].loading
    BY <1>2 DEF LoadNext, RequestInv
  <2>2. PICK o \in Ops : o = Own(r, "load", v)
    BY <2>1, OwnIsOperation
  <2>3. /\ request' = [request EXCEPT ![r].loaded = @ \cup {v}, ![r].op = o]
        /\ BeginLoad(o)
    BY <1>2, <2>2 DEF LoadNext
  <2>4. o \in Loads /\ o.version = v
    <3>1. \E p \in Ops : p.by = r.id /\ p.kind = "load" /\ p.version = v
      BY <2>1, OwnersAssumption
    <3> QED  BY <2>2, <3>1 DEF Own, Loads
  <2>5. PICK x : x = [request[r] EXCEPT !.loaded = @ \cup {v}, !.op = o]
    OBVIOUS
  <2>6. request' = [request EXCEPT ![r] = x]
    BY <1>r, <2>3, <2>5
  <2>7. /\ x.stage = "loading" /\ x.loading = request[r].loading /\ x.stale = request[r].stale
        /\ x.op = o /\ x.loaded = request[r].loaded \cup {v}
    BY <1>r, <2>1, <2>5 DEF RequestTypes
  <2>8. request[r].op = NoOp \/ task[request[r].op].stage = "done"
    BY <2>1 DEF Due, Ended, Raised
  <2>9. LoadsOne(request[r], x)
    BY <2>1, <2>3, <2>4, <2>7, <2>8 DEF LoadsOne
  <2> QED  BY <1>m, <2>6, <2>9 DEF RequestStep
<1>3. ASSUME NEW r \in Requests, ListStale(r)
      PROVE  \E x : Moves(r, x) /\ RequestStep(r, x)
  <2>1. CASE entry = NoRegistry
    BY <1>3, <1>f, <2>1 DEF ListStale, vars
  <2>2. CASE entry # NoRegistry
    <3>1. PICK st : st = {m.version : m \in Models(single[entry])} \ request[r].loaded
      OBVIOUS
    <3>2. PICK x : x = [request[r] EXCEPT !.stage = "removing", !.stale = st]
      OBVIOUS
    <3>3. /\ request[r].stage = "loading" /\ Ended(r) /\ request[r].loaded = request[r].loading
          /\ request' = [request EXCEPT ![r].stage = "removing", ![r].stale = st]
          /\ ReadDefault
      BY <1>3, <2>2, <3>1 DEF ListStale, ReadDefault
    <3>4. request' = [request EXCEPT ![r] = x]
      BY <1>r, <3>2, <3>3
    <3>5. /\ x.stage = "removing" /\ x.loading = request[r].loading /\ x.loaded = request[r].loaded
          /\ x.op = request[r].op /\ x.stale = st
      BY <1>r, <3>2 DEF RequestTypes
    <3>6. Lists(request[r], x)
      BY <2>2, <3>1, <3>3, <3>5 DEF Lists, Ended, Current
    <3> QED  BY <1>m, <3>4, <3>6 DEF RequestStep
  <2> QED  BY <2>1, <2>2
<1>4. ASSUME NEW r \in Requests, NEW v \in Versions, RemoveNext(r, v)
      PROVE  \E x : Moves(r, x) /\ RequestStep(r, x)
  <2>1. request[r].stage = "removing" /\ Ended(r) /\ v \in request[r].stale /\ "load" \in r.kinds
    BY <1>4 DEF RemoveNext, RequestInv
  <2>2. PICK o \in Ops : o = Own(r, "unload", v)
    BY <2>1, OwnIsOperation
  <2>3. CASE Fail(r) /\ UNCHANGED vars
    BY <1>f, <2>3
  <2>4. CASE /\ request' = [request EXCEPT ![r].stale = @ \ {v}, ![r].op = o]
             /\ BeginUnload(o)
    <3>1. o.version = v /\ o.kind = "unload"
      <4>1. \E p \in Ops : p.by = r.id /\ p.kind = "unload" /\ p.version = v
        BY <2>1, OwnersAssumption
      <4> QED  BY <2>2, <4>1 DEF Own
    <3>2. PICK x : x = [request[r] EXCEPT !.stale = @ \ {v}, !.op = o]
      OBVIOUS
    <3>3. request' = [request EXCEPT ![r] = x]
      BY <1>r, <2>4, <3>2
    <3>4. /\ x.stage = "removing" /\ x.loading = request[r].loading /\ x.loaded = request[r].loaded
          /\ x.op = o /\ x.stale = request[r].stale \ {v}
      BY <1>r, <2>1, <3>2 DEF RequestTypes
    <3>5. RemovesOne(request[r], x)
      BY <2>1, <2>4, <3>1, <3>4 DEF RemovesOne, Ended
    <3> QED  BY <1>m, <3>3, <3>5 DEF RequestStep
  <2> QED  BY <1>4, <2>2, <2>3, <2>4 DEF RemoveNext
<1>5. ASSUME NEW r \in Requests, Unload(r)
      PROVE  \E x : Moves(r, x) /\ RequestStep(r, x)
  <2>1. PICK o \in Ops : \/ Fail(r) /\ UNCHANGED vars
                         \/ /\ request' = Begun(r, [Asked EXCEPT !.stage = "unloading", !.op = o])
                            /\ BeginUnload(o)
    BY <1>5 DEF Unload
  <2>2. CASE Fail(r) /\ UNCHANGED vars
    BY <1>f, <2>2
  <2>3. CASE /\ request' = Begun(r, [Asked EXCEPT !.stage = "unloading", !.op = o])
             /\ BeginUnload(o)
    <3>1. PICK x : x = [Asked EXCEPT !.stage = "unloading", !.op = o]
      OBVIOUS
    <3>2. /\ x \in RequestTypes /\ x.stage = "unloading" /\ x.loading = {} /\ x.loaded = {}
          /\ x.stale = {} /\ x.op = o
      BY <3>1 DEF Asked, RequestTypes, RequestStages
    <3>3. PICK y : Moves(r, y) /\ Alike(y, x)
      BY <1>b, <2>3, <3>1, <3>2
    <3>4. Purges(y)
      BY <2>3, <3>2, <3>3 DEF Purges, Alike
    <3>5. request[r].stage = "idle"
      BY <1>5 DEF Unload
    <3> QED  BY <3>3, <3>4, <3>5 DEF RequestStep
  <2> QED  BY <2>1, <2>2, <2>3
<1>6. ASSUME NEW r \in Requests, Finish(r)
      PROVE  \E x : Moves(r, x) /\ RequestStep(r, x)
  <2>1. PICK x : x = [request[r] EXCEPT !.stage = "done"]
    OBVIOUS
  <2>2. request' = [request EXCEPT ![r] = x]
    BY <1>6, <1>r, <2>1 DEF Finish
  <2>3. Closes(request[r], x)
    BY <1>6, <2>1 DEF Finish, Closes, Ended
  <2> QED  BY <1>m, <2>2, <2>3 DEF RequestStep
<1>7. ASSUME NEW r \in Requests, Raise(r)
      PROVE  \E x : Moves(r, x) /\ RequestStep(r, x)
  BY <1>7, <1>f DEF Raise
<1>8. ASSUME NEW o \in Ops, GoOn(o)
      PROVE  UNCHANGED request /\ NoneDue
  BY <1>8 DEF GoOn
<1> QED
  BY <1>1, <1>2, <1>3, <1>4, <1>5, <1>6, <1>7, <1>8 DEF ServingNext, HandlersNext

(* The progress of a request is kept by its own steps and by the others'.   *)
LEMMA ProgressStep ==
  ASSUME RegistryInv, RequestInv, ProgressInv, ServingNext
  PROVE  ProgressInv'
<1>n. \A o \in Ops : task[o].stage # "idle" => task'[o].stage # "idle"
  BY NeverIdle
<1>l. Loads \subseteq Ops
  BY DEF Loads
<1>1. ASSUME NEW q \in Requests, Alike(request'[q], request[q])
      PROVE  /\ request'[q].stage = "unloading" => request'[q].loading = {}
             /\ request'[q].stage = "removing" => request'[q].loaded = request'[q].loading
             /\ request'[q].stage = "done" /\ request'[q].loading # {} =>
                  request'[q].loaded = request'[q].loading
             /\ \A v \in request'[q].loaded : \E o \in Loads : o.version = v /\ task'[o].stage # "idle"
  BY <1>1, <1>n, <1>l DEF ProgressInv, Alike
<1>2. ASSUME UNCHANGED request
      PROVE  ProgressInv'
  <2>1. \A q \in Requests : Alike(request'[q], request[q])
    BY <1>2 DEF Alike
  <2> QED  BY <1>1, <2>1 DEF ProgressInv
<1>3. ASSUME NEW r \in Requests, NEW x, Moves(r, x), RequestStep(r, x)
      PROVE  ProgressInv'
  <2>y. PICK y \in RequestTypes : y = request[r]
    BY DEF RequestInv
  <2>p. /\ y.stage = "unloading" => y.loading = {}
        /\ y.stage = "removing" => y.loaded = y.loading
        /\ \A v \in y.loaded : \E o \in Loads : o.version = v /\ task'[o].stage # "idle"
    BY <1>n, <1>l, <2>y DEF ProgressInv
  <2>1. /\ x.stage = "unloading" => x.loading = {}
        /\ x.stage = "removing" => x.loaded = x.loading
        /\ x.stage = "done" /\ x.loading # {} => x.loaded = x.loading
        /\ \A v \in x.loaded : \E o \in Loads : o.version = v /\ task'[o].stage # "idle"
    <3>1. CASE Starts(x)
      BY <3>1 DEF Starts
    <3>2. CASE Purges(x)
      BY <3>2 DEF Purges
    <3>3. CASE LoadsOne(y, x)
      <4>1. x.op \in Ops /\ BeginLoad(x.op)
        BY <1>l, <3>3 DEF LoadsOne
      <4>2. PICK t : task' = [task EXCEPT ![x.op] = t] /\ t.stage \in {"hook", "failed"}
        BY <4>1, BeginLoadTask
      <4>3. task'[x.op].stage # "idle"
        BY <4>1, <4>2 DEF RegistryInv, TypeOK
      <4> QED  BY <2>p, <3>3, <4>3 DEF LoadsOne
    <3>4. CASE Lists(y, x)
      BY <2>p, <3>4 DEF Lists
    <3>5. CASE RemovesOne(y, x)
      BY <2>p, <3>5 DEF RemovesOne
    <3>6. CASE Closes(y, x)
      BY <2>p, <3>6 DEF Closes, RequestTypes
    <3>7. CASE Fails(y, x)
      BY <2>p, <3>7 DEF Fails, RequestTypes
    <3> QED  BY <1>3, <2>y, <3>1, <3>2, <3>3, <3>4, <3>5, <3>6, <3>7 DEF RequestStep
  <2> QED  BY <1>1, <1>3, <2>1 DEF ProgressInv, Moves
<1> QED  BY <1>2, <1>3, RequestSteps

(* Requests that found the same versions by now did so before, too.         *)
LEMMA SameFolderBefore ==
  ASSUME RequestInv, ProgressInv, NEW F \in SUBSET Versions, F # {}, SameFolder(F)',
         NEW r \in Requests, NEW x, Moves(r, x), RequestStep(r, x)
  PROVE  SameFolder(F) /\ x.stage \in {"loading", "removing", "done"} /\ x.loading = F
<1>y. PICK y \in RequestTypes : y = request[r]
  BY DEF RequestInv
<1>1. \A q \in Requests : q # r /\ request[q].stage # "idle" =>
        request[q].stage \in {"loading", "removing", "done"} /\ request[q].loading = F
  BY DEF SameFolder, Moves, Alike
<1>2. x.stage # "idle"
  BY <1>y DEF RequestStep, Starts, Purges, LoadsOne, Lists, RemovesOne, Closes, Fails, RequestTypes
<1>3. x.stage \in {"loading", "removing", "done"} /\ x.loading = F
  BY <1>2 DEF SameFolder, Moves
<1>4. y.stage # "idle" => y.stage \in {"loading", "removing", "done"} /\ y.loading = F
  <2>1. y.stage = "unloading" => y.loading = {}
    BY <1>y DEF ProgressInv
  <2>2. CASE LoadsOne(y, x) \/ Lists(y, x) \/ RemovesOne(y, x)
    BY <1>3, <2>2 DEF LoadsOne, Lists, RemovesOne
  <2>3. CASE Closes(y, x)
    <3>1. x.loading = y.loading /\ y.stage \in {"removing", "unloading"}
      BY <1>y, <2>3 DEF Closes, RequestTypes
    <3> QED  BY <1>3, <2>1, <3>1
  <2>4. CASE Fails(y, x)
    <3>1. x.stage = "failed"
      BY <1>y, <2>4 DEF Fails, RequestTypes
    <3> QED  BY <1>3, <3>1
  <2> QED  BY <1>y, <2>2, <2>3, <2>4 DEF RequestStep
<1> QED  BY <1>1, <1>3, <1>4, <1>y DEF SameFolder

(* What the step of a request does to the tasks: it begins its operation,   *)
(* or leaves all as they are.                                               *)
LEMMA RequestTask ==
  ASSUME RegistryInv, NEW r \in Requests, NEW x, RequestStep(r, x)
  PROVE  \/ task' = task
         \/ /\ x.op \in Ops /\ task[x.op].stage = "idle"
            /\ \E t : task' = [task EXCEPT ![x.op] = t] /\ t.stage \in {"hook", "failed", "unload"}
<1>1. CASE LoadsOne(request[r], x)
  <2>1. x.op \in Ops /\ BeginLoad(x.op)
    BY <1>1 DEF LoadsOne, Loads
  <2> QED  BY <2>1, BeginLoadTask
<1>2. CASE RemovesOne(request[r], x) \/ Purges(x)
  <2>1. x.op \in Ops /\ BeginUnload(x.op)
    BY <1>2 DEF RemovesOne, Purges
  <2> QED  BY <2>1, BeginUnloadTask
<1>3. CASE Starts(x) \/ Lists(request[r], x) \/ Closes(request[r], x) \/ Fails(request[r], x)
  BY <1>3 DEF Starts, Lists, Closes, Fails, ReadDefault, vars
<1> QED  BY <1>1, <1>2, <1>3 DEF RequestStep

(* A request whose load has failed does not go on.                          *)
LEMMA DoomedStays ==
  ASSUME RegistryInv, RequestInv, ProgressInv, ServingNext, Doomed,
         NEW F \in SUBSET Versions, F # {}, SameFolder(F)'
  PROVE  Doomed'
<1>t. task \in [Ops -> TaskTypes]
  BY DEF RegistryInv, TypeOK, TaskTypes
<1>1. PICK r \in Requests : /\ Active(r) /\ request[r].op \in Loads
                            /\ task[request[r].op].stage \in {"unload", "failed"}
  BY DEF Doomed
<1>o. PICK o \in Ops : o = request[r].op /\ o \in Loads
  BY <1>1 DEF Loads
<1>2. ASSUME request'[r].stage = request[r].stage, request'[r].op = o,
             task'[o].stage \in {"unload", "failed"}
      PROVE  Doomed'
  BY <1>1, <1>o, <1>2 DEF Doomed, Active
<1>3. CASE UNCHANGED request /\ (ReadDefault \/ UNCHANGED vars \/ \E p \in Ops : NoneDue /\ GoOn(p))
  <2>1. ASSUME task' = task
        PROVE  Doomed'
    BY <1>1, <1>2, <1>3, <1>o, <2>1
  <2>2. ASSUME NEW p \in Ops, GoOn(p)
        PROVE  Doomed'
    <3>1. PICK t : /\ task' = [task EXCEPT ![p] = t]
                   /\ p \in Loads /\ task[p].stage \in {"unload", "failed"} =>
                        t.stage \in {"unload", "failed"}
      BY <2>2, GoOnTask
    <3>2. task'[o].stage \in {"unload", "failed"}
      BY <1>1, <1>o, <1>t, <3>1
    <3> QED  BY <1>2, <1>3, <1>o, <3>2
  <2>3. ReadDefault \/ UNCHANGED vars => task' = task
    BY DEF ReadDefault, vars
  <2> QED  BY <1>3, <2>1, <2>2, <2>3
<1>4. ASSUME NEW q \in Requests, NEW x, Moves(q, x), RequestStep(q, x)
      PROVE  Doomed'
  <2>1. task'[o] = task[o]
    BY <1>1, <1>o, <1>t, <1>4, RequestTask
  <2>2. q # r
    <3>1. SUFFICES ASSUME q = r  PROVE FALSE
      OBVIOUS
    <3>2. PICK y \in RequestTypes : y = request[r]
      BY DEF RequestInv
    <3>3. /\ y.stage \in {"loading", "removing", "unloading"} /\ y.op = o
          /\ task[y.op].stage \in {"unload", "failed"}
      BY <1>1, <1>o, <3>2 DEF Active
    <3>4. y.op # NoOp
      BY <3>3, OpsAssumption DEF NoOp
    <3>5. x.stage \in {"loading", "removing", "done"}
      BY <1>4, SameFolderBefore
    <3>6. ~Fails(y, x)
      BY <3>2, <3>5 DEF Fails, RequestTypes
    <3>7. ~LoadsOne(y, x) /\ ~Lists(y, x) /\ ~RemovesOne(y, x) /\ ~Closes(y, x)
      BY <3>3, <3>4 DEF LoadsOne, Lists, RemovesOne, Closes
    <3> QED  BY <1>4, <3>1, <3>2, <3>3, <3>6, <3>7 DEF RequestStep
  <2>3. request'[r].stage = request[r].stage /\ request'[r].op = o
    BY <1>4, <1>o, <2>2 DEF Moves, Alike
  <2> QED  BY <1>1, <1>2, <1>o, <2>1, <2>3
<1> QED  BY <1>3, <1>4, RequestSteps

(* A model that the registry has is of a load that has begun.               *)
LEMMA SlotsOfLoads ==
  ASSUME RegistryInv, NEW v \in Slots, slot[v] # NoModel
  PROVE  \E o \in Loads : o.version = v /\ task[o].stage # "idle"
<1>1. slot[v] \in Objects /\ slot[v].version = v
  BY SlotFacts
<1>2. PICK o \in Loads : slot[v] \in {Raw(o), Wrap(Raw(o))}
  BY <1>1, ObjectParts
<1>3. slot[v].id = o.id /\ slot[v].version = o.version
  BY <1>2, ObjectParts
<1> QED  BY <1>1, <1>3, SlotsBegun

(* A folder that is loaded by several requests stays all there is.          *)
LEMMA FolderMoves ==
  ASSUME RegistryInv, RequestInv, ProgressInv, NEW F \in SUBSET Versions, F # {},
         SameFolder(F)', OnlyFolder(F),
         NEW r \in Requests, NEW x, Moves(r, x), RequestStep(r, x)
  PROVE  Doomed' \/ OnlyFolder(F)'
<1>t. task \in [Ops -> TaskTypes] /\ Loads \subseteq Ops
  BY DEF RegistryInv, TypeOK, TaskTypes, Loads
<1>y. PICK y \in RequestTypes : y = request[r]
  BY DEF RequestInv
<1>x. x.stage \in {"loading", "removing", "done"} /\ x.loading = F
  BY SameFolderBefore
<1>q. \A q \in Requests : q # r => request'[q].stage = request[q].stage /\ request'[q].op = request[q].op
                                  /\ request'[q].stale = request[q].stale
  BY DEF Moves, Alike
<1>1. /\ \A o \in Ops : task[o].stage \notin {"unload", "failed"} /\ (task[o].stage = "done" => o \in Loads)
      /\ \A o \in Loads : task[o].stage # "idle" => o.version # Unversioned /\ o.version \in F
  BY DEF OnlyFolder, OnlyVersions, OnlyLoads
<1>o. \A o \in Ops : task[o].stage \notin {"idle", "done"} =>
        \E q \in Requests : Active(q) /\ request[q].op = o
  BY DEF OnlyFolder
<1>s. \A q \in Requests : request[q].stale = {}
  BY DEF OnlyFolder
(* A step that leaves the tasks as they are. *)
<1>2. ASSUME task' = task, x.stale = {}, y.stage = "idle" \/ x.op = y.op,
             x.stage # "done" \/ task[y.op].stage = "done"
      PROVE  OnlyFolder(F)'
  <2>1. OnlyVersions' /\ \A o \in Loads : task'[o].stage # "idle" => o.version \in F
    BY <1>1, <1>2 DEF OnlyVersions, OnlyLoads
  <2>2. ASSUME NEW o \in Ops, task'[o].stage \notin {"idle", "done"}
        PROVE  \E q \in Requests : Active(q)' /\ request'[q].op = o
    <3>1. PICK q \in Requests : Active(q) /\ request[q].op = o
      BY <1>2, <1>o, <2>2
    <3>2. CASE q # r
      BY <1>q, <3>1, <3>2 DEF Active
    <3>3. CASE q = r
      <4>1. y.stage # "idle" /\ y.op = o
        BY <1>y, <3>1, <3>3 DEF Active
      <4>2. x.op = o /\ x.stage \in {"loading", "removing"}
        BY <1>2, <1>x, <2>2, <4>1
      <4>3. request'[r] = x
        BY DEF Moves
      <4> QED  BY <4>2, <4>3 DEF Active
    <3> QED  BY <3>2, <3>3
  <2>3. \A q \in Requests : request'[q].stale = {}
    BY <1>2, <1>q, <1>s DEF Moves
  <2> QED  BY <2>1, <2>2, <2>3 DEF OnlyFolder
<1>3. CASE y.stage = "idle" /\ Starts(x)
  BY <1>2, <1>3, <1>x DEF Starts, vars
<1>4. CASE Lists(y, x)
  <2>1. \A m \in Models(Current) : m.version \in F
    <3>1. \A v \in Slots : slot[v] # NoModel => slot[v].version \in F
      <4>1. \A v \in Slots : slot[v] # NoModel => v \in F
        BY <1>1, SlotsOfLoads
      <4> QED  BY <4>1, SlotFacts
    <3> QED  BY <3>1, SlotFacts
  <2>2. y.loaded = F
    BY <1>x, <1>4 DEF Lists
  <2>3. x.stale = {}
    BY <1>4, <2>1, <2>2 DEF Lists
  <2> QED  BY <1>2, <1>4, <2>3 DEF Lists, ReadDefault
<1>5. CASE Closes(y, x)
  <2>1. x.stale = y.stale /\ x.op = y.op
    BY <1>5, <1>y DEF Closes, RequestTypes
  <2> QED  BY <1>2, <1>5, <1>s, <1>y, <2>1 DEF Closes, vars
<1>6. CASE LoadsOne(y, x)
  <2>1. PICK p \in Loads : p = x.op
    BY <1>6 DEF LoadsOne
  <2>2. BeginLoad(p) /\ p.version \in F /\ x.stage = "loading" /\ x.stale = {}
    BY <1>6, <1>s, <1>x, <1>y, <2>1 DEF LoadsOne
  <2>3. task[p].stage = "idle" /\ \E t : task' = [task EXCEPT ![p] = t] /\ t.stage \in {"hook", "failed"}
    BY <1>t, <2>2, BeginLoadTask
  <2>4. PICK t : task' = [task EXCEPT ![p] = t] /\ t.stage \in {"hook", "failed"}
    BY <2>3
  <2>5. task'[p] = t /\ \A o \in Ops : o # p => task'[o] = task[o]
    BY <1>t, <2>4
  <2>6. request'[r] = x
    BY DEF Moves
  <2>7. CASE t.stage = "failed"
    BY <2>1, <2>2, <2>5, <2>6, <2>7 DEF Doomed, Active
  <2>8. CASE t.stage = "hook"
    <3>1. OnlyVersions'
      <4>1. F \subseteq Versions /\ Unversioned \notin Versions
        BY DEF Unversioned, Versions
      <4> QED  BY <1>1, <1>t, <2>2, <2>5, <2>8, <4>1 DEF OnlyVersions, OnlyLoads
    <3>2. \A o \in Loads : task'[o].stage # "idle" => o.version \in F
      BY <1>1, <1>t, <2>2, <2>5
    <3>3. ASSUME NEW o \in Ops, task'[o].stage \notin {"idle", "done"}
          PROVE  \E q \in Requests : Active(q)' /\ request'[q].op = o
      <4>1. CASE o = p
        BY <2>1, <2>2, <2>6, <4>1 DEF Active
      <4>2. CASE o # p
        <5>1. PICK q \in Requests : Active(q) /\ request[q].op = o /\ task[o].stage \notin {"idle", "done"}
          BY <1>o, <2>5, <3>3, <4>2
        <5>2. y.op = NoOp \/ task[y.op].stage = "done"
          BY <1>6 DEF LoadsOne
        <5>3. o # NoOp
          BY OpsAssumption DEF NoOp
        <5>4. q # r
          BY <1>y, <5>1, <5>2, <5>3
        <5> QED  BY <1>q, <5>1, <5>4 DEF Active
      <4> QED  BY <4>1, <4>2
    <3>4. \A q \in Requests : request'[q].stale = {}
      BY <1>q, <1>s, <2>2, <2>6
    <3> QED  BY <3>1, <3>2, <3>3, <3>4 DEF OnlyFolder
  <2> QED  BY <2>4, <2>7, <2>8
<1>7. CASE RemovesOne(y, x)
  BY <1>7, <1>s, <1>y DEF RemovesOne
<1>8. ~Purges(x) /\ ~Fails(y, x)
  <2>1. Purges(x) => x.stage = "unloading"
    BY DEF Purges
  <2>2. Fails(y, x) => x.stage = "failed"
    BY <1>y DEF Fails, RequestTypes
  <2> QED  BY <1>x, <2>1, <2>2
<1> QED  BY <1>3, <1>4, <1>5, <1>6, <1>7, <1>8, <1>y DEF RequestStep

(* An operation that goes on only loads versions of its folders, or fails.  *)
LEMMA FolderGoesOn ==
  ASSUME RegistryInv, RequestInv, NEW F \in SUBSET Versions, OnlyFolder(F),
         NEW p \in Ops, GoOn(p), UNCHANGED request
  PROVE  Doomed' \/ OnlyFolder(F)'
<1>t. task \in [Ops -> TaskTypes] /\ Loads \subseteq Ops /\ Shape(p, task[p], made)
  BY DEF RegistryInv, TypeOK, TaskTypes, Loads, TaskShape
<1>1. /\ \A o \in Ops : task[o].stage \notin {"unload", "failed"} /\ (task[o].stage = "done" => o \in Loads)
      /\ \A o \in Loads : task[o].stage # "idle" => o.version # Unversioned /\ o.version \in F
  BY DEF OnlyFolder, OnlyVersions, OnlyLoads
<1>o. \A o \in Ops : task[o].stage \notin {"idle", "done"} =>
        \E q \in Requests : Active(q) /\ request[q].op = o
  BY DEF OnlyFolder
<1>2. task[p].stage \notin {"idle", "done", "unload", "failed", "unretired"}
  BY <1>1, GoOnTask
<1>3. p \in Loads
  <2>1. task[p].stage \in Stages
    BY <1>t DEF TaskTypes
  <2> QED  BY <1>2, <1>t, <2>1 DEF Shape, Stages
<1>4. PICK t : task' = [task EXCEPT ![p] = t] /\ t.stage \in Stages \ {"idle", "hook"}
  BY GoOnTask
<1>5. task'[p] = t /\ \A o \in Ops : o # p => task'[o] = task[o]
  BY <1>4, <1>t
<1>6. PICK r \in Requests : Active(r) /\ request[r].op = p
  BY <1>2, <1>o
<1>7. \A q \in Requests : Active(q)' <=> Active(q)
  BY DEF Active
<1>8. CASE t.stage \in {"unload", "failed"}
  BY <1>3, <1>5, <1>6, <1>7, <1>8 DEF Doomed
<1>9. CASE t.stage \notin {"unload", "failed"}
  <2>1. OnlyVersions' /\ \A o \in Loads : task'[o].stage # "idle" => o.version \in F
    BY <1>1, <1>2, <1>3, <1>5, <1>9, <1>t DEF OnlyVersions, OnlyLoads
  <2>2. ASSUME NEW o \in Ops, task'[o].stage \notin {"idle", "done"}
        PROVE  \E q \in Requests : Active(q)' /\ request'[q].op = o
    BY <1>2, <1>5, <1>o, <1>7, <2>2
  <2>3. \A q \in Requests : request'[q].stale = {}
    BY DEF OnlyFolder
  <2> QED  BY <2>1, <2>2, <2>3 DEF OnlyFolder
<1> QED  BY <1>8, <1>9

(* No step brings a model of another set of folders into the registry.      *)
LEMMA FolderStep ==
  ASSUME RegistryInv, RequestInv, ProgressInv, FolderInv, ServingNext
  PROVE  FolderInv'
<1> SUFFICES ASSUME NEW F \in SUBSET Versions, F # {}, SameFolder(F)'
             PROVE  Doomed' \/ OnlyFolder(F)'
  BY DEF FolderInv
<1>1. ASSUME SameFolder(F), OnlyFolder(F) => Doomed' \/ OnlyFolder(F)'
      PROVE  Doomed' \/ OnlyFolder(F)'
  <2>1. Doomed => Doomed'
    BY DoomedStays
  <2> QED  BY <1>1, <2>1 DEF FolderInv
<1>2. ASSUME UNCHANGED request
      PROVE  SameFolder(F)
  BY <1>2 DEF SameFolder
<1>3. ASSUME UNCHANGED request, ReadDefault \/ UNCHANGED vars
      PROVE  Doomed' \/ OnlyFolder(F)'
  <2>1. task' = task
    BY <1>3 DEF ReadDefault, vars
  <2>2. ASSUME OnlyFolder(F)
        PROVE  OnlyFolder(F)'
    BY <1>3, <2>1, <2>2 DEF OnlyFolder, OnlyVersions, OnlyLoads, Active
  <2> QED  BY <1>1, <1>2, <1>3, <2>2
<1>4. ASSUME UNCHANGED request, NEW p \in Ops, GoOn(p)
      PROVE  Doomed' \/ OnlyFolder(F)'
  <2>1. OnlyFolder(F) => Doomed' \/ OnlyFolder(F)'
    BY <1>4, FolderGoesOn
  <2> QED  BY <1>1, <1>2, <1>4, <2>1
<1>5. ASSUME NEW r \in Requests, NEW x, Moves(r, x), RequestStep(r, x)
      PROVE  Doomed' \/ OnlyFolder(F)'
  <2>1. SameFolder(F)
    BY <1>5, SameFolderBefore
  <2>2. OnlyFolder(F) => Doomed' \/ OnlyFolder(F)'
    BY <1>5, FolderMoves
  <2> QED  BY <1>1, <2>1, <2>2
<1> QED  BY <1>3, <1>4, <1>5, RequestSteps

(* What is ready, or said it is not, is a model.                            *)
Able(R) == R \cup Of(Unready)
LEMMA FitAreModels ==
  ASSUME RegistryInv
  PROVE  Fit = Able(ready) /\ Fit \subseteq Objects /\ NoModel \notin Fit
<1>1. ready \subseteq Objects
  BY DEF RegistryInv, TypeOK
<1>2. Of(Unready) \subseteq Objects
  BY UnreadyAssumption DEF Of, Objects
<1>3. NoModel \notin Objects
  BY ObjectParts
<1> QED  BY <1>1, <1>2, <1>3 DEF Fit, Able

(* Nothing is loaded, and nobody asked for it.                              *)
LEMMA ServingInit == InitData => ProgressInv /\ FolderInv
<1> SUFFICES ASSUME InitData  PROVE ProgressInv /\ FolderInv
  OBVIOUS
<1>1. \A r \in Requests : request[r] = Asked
  BY DEF InitData, InitHandlers
<1>2. \A o \in Ops : task[o].stage = "idle"
  BY DEF InitData, InitHandlers, Init, Idle
<1>3. ProgressInv
  BY <1>1 DEF ProgressInv, Asked
<1>4. \A F : OnlyFolder(F)
  BY <1>1, <1>2 DEF OnlyFolder, OnlyVersions, OnlyLoads, Loads, Asked
<1> QED  BY <1>3, <1>4 DEF FolderInv

(* Both invariants hold always.                                             *)
LEMMA ServingAlways == DataSpec => []DataInv /\ []ProgressInv /\ []FolderInv
<1>1. DataInv /\ ProgressInv /\ FolderInv /\ [DataNext]_dataVars => ProgressInv' /\ FolderInv'
  <2>1. DataInv /\ [DataNext]_dataVars => ServingNext
    BY ServingStep
  <2>2. RegistryInv /\ RequestInv /\ ProgressInv /\ ServingNext => ProgressInv'
    BY ProgressStep
  <2>3. RegistryInv /\ RequestInv /\ ProgressInv /\ FolderInv /\ ServingNext => FolderInv'
    BY FolderStep
  <2> QED  BY <2>1, <2>2, <2>3 DEF DataInv
<1>2. InitData => DataInv
  BY DataInit
<1> QED  BY <1>1, <1>2, ServingInit, DataAlways, PTL DEF DataSpec

(* Requests that find the same folder may overlap however they like: if none *)
(* fails, they leave its versions, all of them ready but those that say they *)
(* are not (registry.py:177), and no others - where the first hook replaces  *)
(* models, as it does with the inference pool       *)
(* (parallel/registry.py:241).  Where it does not, TLC finds a load that     *)
(* retires the very object the other has just put in (registry.py:152).     *)
THEOREM OverlappingFolders == Wraps => (DataSpec => []SameFolderServed)
<1> SUFFICES ASSUME Wraps  PROVE DataSpec => []SameFolderServed
  OBVIOUS
<1>1. DataSpec => [](OnlyVersions => OverlapInv)
  BY ServingUsesRegistry, OverlapAlways, PTL
<1>2. ASSUME DataInv, ProgressInv, FolderInv, OnlyVersions => OverlapInv
      PROVE  SameFolderServed
  <2>1. SUFFICES ASSUME Quiet, NEW r \in Requests, request[r].stage = "done", request[r].loading # {},
                        \A q \in Requests : request[q].stage # "idle" =>
                          request[q].stage = "done" /\ request[q].loading = request[r].loading
                 PROVE  VersionsIn(Fit) = request[r].loading
    BY DEF SameFolderServed
  <2>f. PICK F \in SUBSET Versions : F = request[r].loading
    BY <1>2 DEF DataInv, RequestInv, RequestTypes
  <2>2. SameFolder(F) /\ F # {} /\ ~Doomed
    BY <2>1, <2>f DEF SameFolder, Doomed, Active
  <2>3. OnlyFolder(F)
    BY <1>2, <2>2 DEF FolderInv
  <2>4. OverlapInv /\ RegistryInv
    BY <1>2, <2>3 DEF OnlyFolder, DataInv
  <2>5. \A v \in Slots : slot[v] # NoModel => slot[v] \in Fit /\ v \in F
    <3>1. ASSUME NEW v \in Slots, NEW o \in Loads, FirstOwn(o, task[o], slot[v])
          PROVE  FALSE
      BY <2>1, <3>1 DEF Quiet, Running, FirstOwn, Loads
    <3>2. \A v \in Slots : slot[v] # NoModel => slot[v] \in Fit
      BY <2>4, <3>1 DEF OverlapInv
    <3>3. \A v \in Slots : slot[v] # NoModel => v \in F
      BY <2>3, <2>4, SlotsOfLoads DEF OnlyFolder
    <3> QED  BY <3>2, <3>3
  <2>6. \A v \in F : slot[v] # NoModel
    <3>1. \A v \in F : \E o \in Loads : o.version = v /\ task[o].stage # "idle"
      BY <1>2, <2>1, <2>f DEF ProgressInv
    <3> QED  BY <2>4, <3>1 DEF OverlapInv
  <2>7. entry # NoRegistry
    <3>1. PICK v \in F : slot[v] # NoModel /\ v \in Slots
      BY <2>2, <2>6 DEF Slots
    <3>2. entry = NoRegistry => slot[v] = NoModel
      BY <3>1, NoVersionsFiled DEF slot, Current
    <3> QED  BY <3>1, <3>2
  <2>8. \A v \in Versions : slot[v] = single[entry].versions[v]
    <3>1. Unversioned \notin Versions
      BY DEF Unversioned, Versions
    <3> QED  BY <2>7, <3>1 DEF slot, Slot, Current, Slots
  <2>9. NoModel \notin Fit
    BY <2>4, FitAreModels
  <2>10. \A v \in Versions : slot[v] \in Fit <=> v \in F
    BY <2>5, <2>6, <2>9 DEF Slots
  <2> QED  BY <2>7, <2>8, <2>10, <2>f DEF VersionsIn
<1> QED  BY <1>1, <1>2, ServingAlways, PTL

-----------------------------------------------------------------------------
(* Requests that run alone.                                                 *)

(* A first load that has not loaded its model. *)
Undone(t) == t.stage \in {"hook", "late_hook", "load"} /\ ~t.reload

(* What a load alone makes of its slot: m is there, R are ready. *)
SoloLoad(o, t, m, R) ==
  /\ t.hooking \cup t.stopping \subseteq {Raw(o), Wrap(Raw(o))}
  /\ Undone(t) => m \notin R /\ Wrap(Raw(o)) \notin R
  /\ t.hooking # {} => m \notin R
  /\ t.stopping # {} => m = NoModel
  /\ t.stage = "load" /\ ~t.reload => m = Wrap(Raw(o))
  /\ t.stage = "retire" => m = Wrap(Raw(o)) /\ m \in Able(R)
  /\ t.stage = "done" => m \in Able(R)

(* What an unload alone makes of its. *)
SoloUnload(o, t, m) ==
  /\ t.stage \in {"unload", "done", "failed"}
  /\ t.hooking \subseteq {m}
  /\ \A n \in t.stopping : n.version = o.version

(* A load leaves the other slots and their models alone, and its own is      *)
(* served if it was.                                                        *)
SoloMove(o, t, x) ==
  /\ task' = [task EXCEPT ![o] = t] /\ slot' = [slot EXCEPT ![o.version] = x]
  /\ Busy(t) => entry' # NoRegistry /\ t.registry = entry'
  /\ \A n \in Objects : n.version # o.version => (n \in ready <=> n \in ready')
LoadMove(o, t, x) ==
  /\ SoloMove(o, t, x)
  /\ SoloLoad(o, t, x, ready')
  /\ slot[o.version] \in ready => x \in Able(ready')
(* An unload empties its slot if it has one to empty. *)
UnloadMove(o, t, x) ==
  /\ SoloMove(o, t, x)
  /\ SoloUnload(o, t, x)
  /\ x \in {slot[o.version], NoModel}
  /\ t.hooking = {} => x = NoModel \/ task[o].hooking = {}

(* What is ready, or an operation deals with, is of loads that have begun.   *)
Touched(t) == t.hooking \cup t.stopping \cup {t.old}
ReadyBegun ==
  \A o \in Loads : task[o].stage = "idle" =>
    /\ \A m \in ready : m.id # o.id
    /\ \A p \in Ops : \A m \in Touched(task[p]) : m.id # o.id

(* A version that is deleted leaves its slot empty, whichever model is in it, *)
(* and the other slots as they are (_unload_model, registry.py:216).        *)
LEMMA VersionIsDeleted ==
  ASSUME NEW s, Filed(s), NEW m \in Objects, m.version \in Versions
  PROVE  /\ Filed(ClearIfDefault(Deleted(s, m), m))
         /\ \A v \in Slots : Slot(ClearIfDefault(Deleted(s, m), m), v) =
              IF v = m.version THEN NoModel ELSE Slot(s, v)
<1>v. Unversioned \notin Versions /\ m # NoModel
  BY ObjectParts DEF Unversioned, Versions
<1>d. PICK d : d = Deleted(s, m)
  OBVIOUS
<1>1. /\ \A v \in Versions : d.versions[v] = IF v = m.version THEN NoModel ELSE s.versions[v]
      /\ d.default = s.default
      /\ Filed(d)
  BY <1>v, <1>d DEF Deleted, Filed
<1>2. \A v \in Slots : Slot(d, v) = IF v = m.version THEN NoModel ELSE Slot(s, v)
  BY <1>v, <1>1 DEF Slot, Slots
<1>3. Slot(d, Unversioned) # m
  BY <1>v, <1>1, ModelsInSlots DEF Slots
<1>4. /\ Filed(ClearIfDefault(d, m))
      /\ \A v \in Slots : Slot(ClearIfDefault(d, m), v) =
           IF v = Unversioned /\ Slot(d, v) = m THEN NoModel ELSE Slot(d, v)
  BY <1>v, <1>1, ClearKeeps
<1> QED  BY <1>2, <1>3, <1>4, <1>d

(* An operation that goes on runs.                                          *)
LEMMA GoesOnRunning ==
  ASSUME NEW o \in Ops, GoOn(o)
  PROVE  Running(o)
<1>1. CASE FailLoad(o)
  BY <1>1, FailuresAssumption DEF FailLoad, Running
<1>2. CASE \E m \in task[o].hooking : FinishUnloadHooks(o, m)
  BY <1>2 DEF Running
<1>3. CASE \E m \in task[o].stopping : FinishModelUnload(o, m)
  BY <1>3 DEF Running
<1> QED  BY <1>1, <1>2, <1>3 DEF GoOn, FinishHook, FinishLateHook, FinishLoad, FinishRetire, EndUnload, Running

(* What is ready stays of loads that have begun.                            *)
Fresh(m) == \E o \in Loads : task'[o].stage = "idle" /\ m.id = o.id
LEMMA ReadyBegunStep ==
  ASSUME RegistryInv, RegistryInv', RequestInv, ReadyBegun, ServingNext, [Next]_vars
  PROVE  ReadyBegun'
<1>t. task \in [Ops -> TaskTypes] /\ Loads \subseteq Ops /\ \A o \in Ops : Shape(o, task[o], made)
  BY DEF RegistryInv, TypeOK, TaskTypes, Loads, TaskShape
<1>1. \A o \in Loads : task'[o].stage = "idle" => task[o].stage = "idle"
  BY <1>t, NeverIdle
<1>2. /\ \A m \in ready : ~Fresh(m)
      /\ \A o \in Ops : \A m \in Touched(task[o]) : ~Fresh(m)
  BY <1>1 DEF ReadyBegun, Fresh
<1>3. \A g \in Registries : \A m \in Known(single[g]) : ~Fresh(m)
  BY <1>1 DEF RegistryInv, Unseen, Fresh
<1>4. ~Fresh(NoModel)
  BY ObjectParts, OpsAssumption DEF Fresh, Loads
<1>5. ASSUME NEW o \in Loads, task'[o].stage # "idle"
      PROVE  ~Fresh(Raw(o)) /\ ~Fresh(Wrap(Raw(o)))
  BY <1>5, ObjectParts, OpsAssumption DEF Fresh, Loads
(* A step of one operation, and one of none. *)
<1>6. ASSUME NEW o \in Ops, NEW t, task' = [task EXCEPT ![o] = t],
             \A m \in Touched(t) : ~Fresh(m), \A m \in ready' : ~Fresh(m)
      PROVE  ReadyBegun'
  <2>1. \A p \in Ops : task'[p] = IF p = o THEN t ELSE task[p]
    BY <1>t, <1>6
  <2>2. \A p \in Ops : \A m \in Touched(task'[p]) : ~Fresh(m)
    BY <1>2, <1>6, <2>1
  <2> QED  BY <1>6, <2>2 DEF ReadyBegun, Fresh
<1>7. ASSUME task' = task, ready' = ready
      PROVE  ReadyBegun'
  BY <1>7 DEF ReadyBegun
<1>8. ASSUME NEW o \in Ops, BeginLoad(o)
      PROVE  ReadyBegun'
  <2>1. RegistryToUse \in Registries /\ single[RegistryToUse] = Current /\ o.version \in Slots
    BY <1>8, RegistryUsed, OpsAssumption DEF Slots
  <2>2. PICK old : old = Find(single[RegistryToUse], o.version)
    OBVIOUS
  <2>3. ~Fresh(old)
    BY <1>3, <2>1, <2>2, KnownKeeps, SlotFacts
  <2>4. PICK w : w = [Idle EXCEPT !.stage = "hook", !.registry = RegistryToUse, !.model = Raw(o),
                                  !.old = old, !.reload = (old # NoModel)]
    OBVIOUS
  <2>5. PICK u : u = [task[o] EXCEPT !.stage = "failed"]
    OBVIOUS
  <2>6. /\ task' = [task EXCEPT ![o] = w] \/ task' = [task EXCEPT ![o] = u]
        /\ ready' = ready
    BY <1>8, <2>2, <2>4, <2>5 DEF BeginLoad
  <2>7. Touched(w) = {old}
    BY <2>4 DEF Touched, Idle
  <2>8. Touched(u) = Touched(task[o])
    BY <1>t, <2>5 DEF Touched, TaskTypes
  <2> QED  BY <1>2, <1>6, <2>3, <2>6, <2>7, <2>8
<1>9. ASSUME NEW o \in Ops, FinishHook(o) \/ FinishLateHook(o) \/ FinishLoad(o) \/ EndUnload(o)
      PROVE  ReadyBegun'
  <2>1. PICK e : \E m : e = [task[o] EXCEPT !.stage = e.stage, !.model = m] /\ task' = [task EXCEPT ![o] = e]
    <3>1. CASE FinishHook(o)
      <4>1. PICK e : e = [task[o] EXCEPT !.stage = "late_hook", !.model = Wrap(@)]
        OBVIOUS
      <4>2. task' = [task EXCEPT ![o] = e]
        BY <1>t, <3>1, <4>1 DEF FinishHook
      <4>3. e.stage = "late_hook"
        BY <1>t, <4>1 DEF TaskTypes
      <4> QED  BY <1>t, <4>1, <4>2, <4>3
    <3>2. CASE ~FinishHook(o)
      <4>1. PICK st \in Stages : task' = [task EXCEPT ![o].stage = st]
        BY <1>9, <3>2 DEF FinishLateHook, FinishLoad, EndUnload, Stages
      <4>2. PICK e : e = [task[o] EXCEPT !.stage = st]
        OBVIOUS
      <4>3. task' = [task EXCEPT ![o] = e]
        BY <1>t, <4>1, <4>2
      <4>4. e.stage = st /\ e = [task[o] EXCEPT !.stage = st, !.model = task[o].model]
        BY <1>t, <4>2 DEF TaskTypes
      <4> QED  BY <4>3, <4>4
    <3> QED  BY <3>1, <3>2
  <2>2. Touched(e) = Touched(task[o])
    <3>1. PICK m : e = [task[o] EXCEPT !.stage = e.stage, !.model = m]
      BY <2>1
    <3> QED  BY <1>t, <3>1 DEF Touched, TaskTypes
  <2>3. \A m \in ready' : ~Fresh(m)
    <3>1. CASE FinishLoad(o)
      <4>1. ready' \subseteq ready \cup {task[o].model} /\ task[o].stage = "load"
        BY <3>1 DEF FinishLoad
      <4>2. o \in Loads /\ task[o].model = Wrap(Raw(o))
        BY <1>t, <4>1 DEF Shape
      <4>3. ~Fresh(Wrap(Raw(o)))
        BY <1>1, <1>5, <4>1, <4>2
      <4> QED  BY <1>2, <4>1, <4>2, <4>3
    <3>2. CASE ~FinishLoad(o)
      BY <1>2, <1>9, <3>2 DEF FinishHook, FinishLateHook, EndUnload
    <3> QED  BY <3>1, <3>2
  <2> QED  BY <1>2, <1>6, <2>1, <2>2, <2>3
<1>10. ASSUME NEW o \in Ops, FinishRetire(o)
       PROVE  ReadyBegun'
  <2>1. PICK st : Retired(o, st)
    BY <1>10, RetireEnds
  <2>2. PICK t : t = [task[o] EXCEPT !.stage = st]
    OBVIOUS
  <2>3. task' = [task EXCEPT ![o] = t] /\ Goes(task[o].old)
    BY <2>1, <2>2 DEF Retired
  <2>4. Touched(t) = Touched(task[o]) /\ task[o].old \in Touched(task[o])
    BY <1>t, <2>2 DEF Touched, TaskTypes
  <2>5. \A m \in ready' : m \in ready \/ m = task[o].old
    BY <2>3 DEF Goes
  <2> QED  BY <1>2, <1>6, <2>3, <2>4, <2>5
<1>11. ASSUME NEW o \in Ops, FailLoad(o)
       PROVE  ReadyBegun'
  <2>1. /\ ready' = ready /\ task[o].stage \in {"hook", "late_hook", "load"}
        /\ task' = IF task[o].reload THEN [task EXCEPT ![o].stage = "failed"]
                   ELSE [task EXCEPT ![o].stage = "unload", ![o].hooking = {task[o].model}]
    <3>1. task[o].stage # "init"
      BY <1>t DEF TaskTypes, Stages
    <3> QED  BY <1>11, <3>1, FailuresAssumption DEF FailLoad
  <2>2. o \in Loads /\ task[o].model \in {Raw(o), Wrap(Raw(o))}
    BY <1>t, <2>1 DEF Shape
  <2>3. ~Fresh(task[o].model)
    BY <1>1, <1>5, <2>1, <2>2
  <2>4. PICK t : t = IF task[o].reload THEN [task[o] EXCEPT !.stage = "failed"]
                     ELSE [task[o] EXCEPT !.stage = "unload", !.hooking = {task[o].model}]
    OBVIOUS
  <2>5. task' = [task EXCEPT ![o] = t]
    BY <1>t, <2>1, <2>4
  <2>6. Touched(t) \subseteq Touched(task[o]) \cup {task[o].model}
    BY <1>t, <2>4 DEF Touched, TaskTypes
  <2>7. \A m \in Touched(t) : ~Fresh(m)
    BY <1>2, <2>3, <2>6
  <2>8. \A m \in ready' : ~Fresh(m)
    BY <1>2, <2>1
  <2> QED  BY <1>6, <2>5, <2>7, <2>8
<1>12. ASSUME NEW o \in Ops, BeginUnload(o)
       PROVE  ReadyBegun'
  <2>1. PICK T : T = IF o.kind = "purge" THEN Models(single[entry])
                     ELSE {Find(single[entry], o.version)} \ {NoModel}
    OBVIOUS
  <2>2. PICK u : u = [Idle EXCEPT !.stage = "unload", !.registry = entry, !.hooking = T]
    OBVIOUS
  <2>3. task' = [task EXCEPT ![o] = u] /\ ready' = ready /\ entry # NoRegistry
    BY <1>12, <2>1, <2>2 DEF BeginUnload
  <2>4. Touched(u) = T \cup {NoModel}
    BY <2>2 DEF Touched, Idle
  <2>5. PICK s : s = single[entry]
    OBVIOUS
  <2>6. entry \in Registries /\ Filed(s) /\ o.version \in Slots
    BY <2>3, <2>5, OpsAssumption DEF RegistryInv, TypeOK, Slots
  <2>7. Models(s) \subseteq Known(s) /\ Find(s, o.version) \in Known(s)
    <3>1. Held(s) \subseteq Known(s)
      BY <2>6 DEF Held, Known, Range, Filed
    <3> QED  BY <2>6, <3>1, KnownKeeps DEF Models
  <2>8. \A m \in T : ~Fresh(m)
    BY <1>3, <2>1, <2>5, <2>6, <2>7
  <2> QED  BY <1>2, <1>4, <1>6, <2>3, <2>4, <2>8
<1>13. ASSUME NEW o \in Ops, NEW m \in task[o].hooking, FinishUnloadHooks(o, m)
       PROVE  ReadyBegun'
  <2>1. PICK b \in BOOLEAN :
          task' = IF b THEN [task EXCEPT ![o].stage = "failed", ![o].hooking = @ \ {m}]
                  ELSE [task EXCEPT ![o].hooking = @ \ {m}, ![o].stopping = @ \cup {m}]
    BY <1>13 DEF FinishUnloadHooks
  <2>2. PICK t : t = IF b THEN [task[o] EXCEPT !.stage = "failed", !.hooking = @ \ {m}]
                     ELSE [task[o] EXCEPT !.hooking = @ \ {m}, !.stopping = @ \cup {m}]
    OBVIOUS
  <2>3. task' = [task EXCEPT ![o] = t]
    BY <1>t, <2>1, <2>2
  <2>4. Touched(t) \subseteq Touched(task[o])
    BY <1>t, <1>13, <2>2 DEF Touched, TaskTypes
  <2>5. ready' = ready
    BY <1>13 DEF FinishUnloadHooks
  <2> QED  BY <1>2, <1>6, <2>3, <2>4, <2>5
<1>14. ASSUME NEW o \in Ops, NEW m \in task[o].stopping, FinishModelUnload(o, m)
       PROVE  ReadyBegun'
  <2>1. PICK st : Stopped(o, m, st)
    BY <1>14, UnloadEnds
  <2>2. PICK t : t = [task[o] EXCEPT !.stopping = @ \ {m}, !.stage = st]
    OBVIOUS
  <2>3. task' = [task EXCEPT ![o] = t] /\ Goes(m)
    BY <2>1, <2>2 DEF Stopped
  <2>4. Touched(t) \subseteq Touched(task[o]) /\ m \in Touched(task[o])
    BY <1>t, <1>14, <2>2 DEF Touched, TaskTypes
  <2>5. \A n \in ready' : n \in ready \/ n = m
    BY <2>3 DEF Goes
  <2> QED  BY <1>2, <1>6, <2>3, <2>4, <2>5
<1>15. CASE ReadDefault \/ UNCHANGED vars
  BY <1>7, <1>15 DEF ReadDefault, vars
<1> QED
  BY <1>8, <1>9, <1>10, <1>11, <1>12, <1>13, <1>14, <1>15 DEF Next

(* A step that leaves the registry as it is, seen from a slot.               *)
LEMMA SlotsUnchanged ==
  ASSUME NEW v \in Slots, single' = single, entry' = entry
  PROVE  slot' = [slot EXCEPT ![v] = slot[v]]
<1>1. Current' = Current
  BY DEF Current
<1>2. slot' = slot /\ slot = [w \in Slots |-> slot[w]]
  BY <1>1 DEF slot
<1> QED  BY <1>2

(* A load that goes on alone: what was ready under its version stays so until *)
(* the new model is, or says that it is not (registry.py:193).              *)
LEMMA LoadGoesOn ==
  ASSUME RegistryInv, NEW o \in Loads, o.version \in Versions, GoOn(o),
         entry # NoRegistry, task[o].registry = entry,
         SoloLoad(o, task[o], slot[o.version], ready)
  PROVE  \E t : \E x : LoadMove(o, t, x)
<1>t. /\ single \in [Registries -> [versions : [Versions -> Objects \cup {NoModel}],
                                    default : Objects \cup {NoModel}]]
      /\ o \in Ops /\ task[o] \in TaskTypes /\ task \in [Ops -> TaskTypes] /\ ready \subseteq Objects
      /\ Shape(o, task[o], made)
      /\ entry \in Registries /\ Filed(single[entry])
  BY DEF RegistryInv, TypeOK, TaskTypes, TaskShape, Loads
<1>v. PICK v \in Slots : v = o.version /\ v \in Versions /\ v # Unversioned
  BY DEF Slots, Versions, Unversioned
<1>g. PICK g \in Registries : g = entry /\ g # NoRegistry
  BY <1>t
<1>c. PICK c : c = single[g]
  OBVIOUS
<1>m. PICK m : m = slot[v]
  OBVIOUS
<1>u. PICK u \in TaskTypes : u = task[o]
  BY <1>t
<1>1. /\ SoloLoad(o, u, m, ready) /\ u.registry = g /\ Shape(o, u, made)
      /\ task = [task EXCEPT ![o] = u]
  BY <1>t, <1>v, <1>m, <1>u, <1>g
<1>o. /\ Raw(o) \in Objects /\ Wrap(Raw(o)) \in Objects
      /\ Raw(o).id = o.id /\ Wrap(Raw(o)).id = o.id
      /\ Raw(o).version = v /\ Wrap(Raw(o)).version = v
      /\ NoModel \notin ready
  BY <1>t, <1>v, ObjectParts
<1>s. /\ slot = [w \in Slots |-> slot[w]] /\ Filed(c)
      /\ \A w \in Slots : slot[w] = Slot(c, w)
  <2>1. Current = c
    BY <1>g, <1>c DEF Current
  <2> QED  BY <1>t, <1>g, <1>c, <2>1 DEF slot
(* A step that changes registry g, and one that does not. *)
<1>2. ASSUME NEW s, single' = [single EXCEPT ![g] = s], entry' = entry, NEW x,
             \A w \in Slots : Slot(s, w) = IF w = v THEN x ELSE Slot(c, w)
      PROVE  slot' = [slot EXCEPT ![v] = x]
  <2>1. \A w \in Slots : Slot(s, w) = IF w = v THEN x ELSE slot[w]
    BY <1>s, <1>2
  <2>2. Change(g, s, v, x)
    BY <1>2, <1>g, <2>1 DEF Change
  <2> QED  BY <2>2, SlotChanges
<1>3. ASSUME UNCHANGED single, entry' = entry
      PROVE  slot' = [slot EXCEPT ![v] = m]
  BY <1>3, <1>m, SlotsUnchanged
<1>a. \A R : R \subseteq Able(R)
  BY DEF Able
<1>4. ASSUME NEW t, NEW x, task' = [task EXCEPT ![o] = t], slot' = [slot EXCEPT ![v] = x],
             t.registry = g, entry' = entry,
             \A n \in Objects : n.version # v => (n \in ready <=> n \in ready'),
             SoloLoad(o, t, x, ready'), m \in ready => x \in Able(ready')
      PROVE  \E t1 : \E x1 : LoadMove(o, t1, x1)
  <2>1. LoadMove(o, t, x)
    BY <1>4, <1>v, <1>m, <1>g DEF LoadMove, SoloMove
  <2> QED  BY <2>1
<1>5. CASE FinishHook(o)
  <2>1. PICK t : t = [u EXCEPT !.stage = "late_hook", !.model = Wrap(@)]
    OBVIOUS
  <2>2. /\ task' = [task EXCEPT ![o] = t] /\ UNCHANGED <<single, made, entry, ready>> /\ u.stage = "hook"
    BY <1>5, <1>t, <1>u, <2>1 DEF FinishHook
  <2>3. /\ t.stage = "late_hook" /\ t.reload = u.reload /\ t.registry = u.registry
        /\ t.hooking = u.hooking /\ t.stopping = u.stopping
    BY <2>1 DEF TaskTypes
  <2>4. SoloLoad(o, t, m, ready')
    BY <1>1, <2>2, <2>3 DEF SoloLoad, Undone
  <2> QED  BY <1>1, <1>a, <1>3, <1>4, <2>2, <2>3, <2>4
<1>6. CASE FinishLateHook(o)
  <2>1. PICK t : t = [u EXCEPT !.stage = "load"]
    OBVIOUS
  <2>2. /\ task' = [task EXCEPT ![o] = t] /\ UNCHANGED <<made, entry, ready>> /\ u.stage = "late_hook"
        /\ single' = IF u.reload THEN single ELSE [single EXCEPT ![g] = Register(@, u.model)]
    BY <1>6, <1>t, <1>u, <1>1, <2>1 DEF FinishLateHook
  <2>3. /\ t.stage = "load" /\ t.reload = u.reload /\ t.registry = u.registry
        /\ t.hooking = u.hooking /\ t.stopping = u.stopping /\ u.model = Wrap(Raw(o))
    BY <1>1, <2>1, <2>2 DEF TaskTypes, Shape
  <2>4. CASE u.reload
    <3>1. SoloLoad(o, t, m, ready')
      BY <1>1, <2>2, <2>3, <2>4 DEF SoloLoad, Undone
    <3> QED  BY <1>1, <1>a, <1>3, <1>4, <2>2, <2>3, <2>4, <3>1
  <2>5. CASE ~u.reload
    <3>1. PICK s : s = Register(c, Wrap(Raw(o)))
      OBVIOUS
    <3>2. single' = [single EXCEPT ![g] = s]
      BY <1>t, <1>c, <2>2, <2>3, <2>5, <3>1
    <3>3. \A w \in Slots : Slot(s, w) = IF w = v THEN Wrap(Raw(o)) ELSE Slot(c, w)
      BY <1>o, <1>s, <3>1, RegisterFiles
    <3>4. slot' = [slot EXCEPT ![v] = Wrap(Raw(o))]
      BY <1>2, <2>2, <3>2, <3>3
    <3>5. m \notin ready /\ Wrap(Raw(o)) \notin ready
      BY <1>1, <2>2, <2>5 DEF SoloLoad, Undone
    <3>h. u.hooking = {} /\ u.stopping = {}
      BY <1>1, <2>2 DEF Shape
    <3>6. SoloLoad(o, t, Wrap(Raw(o)), ready')
      BY <1>1, <2>2, <2>3, <3>h, <3>5 DEF SoloLoad
    <3> QED  BY <1>1, <1>4, <2>2, <2>3, <3>4, <3>5, <3>6
  <2> QED  BY <2>4, <2>5
<1>7. CASE FinishLoad(o)
  <2>1. PICK t : t = [u EXCEPT !.stage = IF u.reload THEN "retire" ELSE "done"]
    OBVIOUS
  <2>2. /\ task' = [task EXCEPT ![o] = t] /\ UNCHANGED <<made, entry>> /\ u.stage = "load"
        /\ single' = IF u.reload THEN [single EXCEPT ![g] = ClearIfDefault(Register(@, u.model), u.old)]
                     ELSE single
    BY <1>7, <1>t, <1>u, <1>1, <2>1 DEF FinishLoad
  <2>3. /\ t.stage = IF u.reload THEN "retire" ELSE "done"
        /\ t.reload = u.reload /\ t.registry = u.registry
        /\ t.hooking = u.hooking /\ t.stopping = u.stopping /\ u.model = Wrap(Raw(o))
    BY <1>1, <2>1, <2>2 DEF TaskTypes, Shape
  <2>c. Comes(Wrap(Raw(o)))
    BY <1>7, <1>u, <2>3, LoadEnds
  <2>w. Wrap(Raw(o)) \in Able(ready')
    BY <2>c DEF Comes, Fit, Able
  <2>4. \A n \in Objects : n.version # v => (n \in ready <=> n \in ready')
    BY <1>o, <2>c DEF Comes
  <2>h. u.hooking = {} /\ u.stopping = {}
    BY <1>1, <2>2 DEF Shape
  <2>5. SoloLoad(o, t, Wrap(Raw(o)), ready')
    BY <1>1, <2>2, <2>3, <2>h, <2>w DEF SoloLoad, Undone
  <2>6. CASE u.reload
    <3>1. PICK r : r = Register(c, Wrap(Raw(o)))
      OBVIOUS
    <3>2. PICK s : s = ClearIfDefault(r, u.old)
      OBVIOUS
    <3>3. single' = [single EXCEPT ![g] = s]
      BY <1>t, <1>c, <2>2, <2>3, <2>6, <3>1, <3>2
    <3>4. Filed(r) /\ \A w \in Slots : Slot(r, w) = IF w = v THEN Wrap(Raw(o)) ELSE Slot(c, w)
      BY <1>o, <1>s, <3>1, RegisterFiles
    <3>5. u.old # NoModel /\ u.old.version = v
      BY <1>1, <1>v, <2>6 DEF Shape
    <3>6. Slot(r, Unversioned) # u.old
      BY <1>v, <3>4, <3>5, ModelsInSlots DEF Slots
    <3>7. \A w \in Slots : Slot(s, w) = Slot(r, w)
      BY <3>2, <3>4, <3>5, <3>6, ClearKeeps
    <3>8. \A w \in Slots : Slot(s, w) = IF w = v THEN Wrap(Raw(o)) ELSE Slot(c, w)
      BY <3>4, <3>7
    <3>9. slot' = [slot EXCEPT ![v] = Wrap(Raw(o))]
      BY <1>2, <2>2, <3>3, <3>8
    <3> QED  BY <1>1, <1>4, <2>2, <2>3, <2>4, <2>5, <2>w, <3>9
  <2>7. CASE ~u.reload
    <3>1. m = Wrap(Raw(o)) /\ slot' = [slot EXCEPT ![v] = m]
      BY <1>1, <1>3, <2>2, <2>7 DEF SoloLoad
    <3> QED  BY <1>1, <1>4, <2>2, <2>3, <2>4, <2>5, <2>w, <3>1
  <2> QED  BY <2>6, <2>7
<1>8. CASE FinishRetire(o)
  <2>p. PICK st \in {"done", "unretired"} : Retired(o, st)
    BY <1>8, <1>t, RetireEnds
  <2>1. PICK t : t = [u EXCEPT !.stage = st]
    OBVIOUS
  <2>2. /\ task' = [task EXCEPT ![o] = t] /\ UNCHANGED <<single, made, entry>> /\ u.stage = "retire"
        /\ Goes(u.old)
    BY <1>u, <2>p, <2>1 DEF Retired
  <2>3. /\ t.stage = st /\ t.registry = u.registry
        /\ t.hooking = u.hooking /\ t.stopping = u.stopping /\ u.hooking = {} /\ u.stopping = {}
        /\ u.reload /\ u.old.id # o.id /\ u.old.version = v
    BY <1>1, <1>v, <2>1, <2>2 DEF TaskTypes, Shape
  <2>4. m = Wrap(Raw(o)) /\ m \in Able(ready')
    <3>1. m = Wrap(Raw(o)) /\ m \in Able(ready) /\ m # u.old
      BY <1>1, <1>o, <2>2, <2>3 DEF SoloLoad
    <3> QED  BY <1>o, <2>2, <3>1 DEF Goes, Able
  <2>5. SoloLoad(o, t, m, ready')
    BY <2>3, <2>4 DEF SoloLoad, Undone
  <2>6. \A n \in Objects : n.version # v => (n \in ready <=> n \in ready')
    BY <2>2, <2>3 DEF Goes
  <2> QED  BY <1>1, <1>3, <1>4, <2>2, <2>3, <2>4, <2>5, <2>6
<1>9. CASE FailLoad(o)
  <2>1. PICK t : t = IF u.reload THEN [u EXCEPT !.stage = "failed"]
                     ELSE [u EXCEPT !.stage = "unload", !.hooking = {u.model}]
    OBVIOUS
  <2>2. /\ UNCHANGED <<single, made, entry, ready>> /\ u.stage \in {"hook", "late_hook", "load"}
        /\ task' = IF u.reload THEN [task EXCEPT ![o].stage = "failed"]
                   ELSE [task EXCEPT ![o].stage = "unload", ![o].hooking = {u.model}]
    <3>1. u.stage # "init"
      BY <1>t DEF TaskTypes, Stages
    <3> QED  BY <1>9, <1>u, <3>1, FailuresAssumption DEF FailLoad
  <2>3. task' = [task EXCEPT ![o] = t]
    BY <1>t, <1>u, <2>1, <2>2
  <2>h. u.hooking = {} /\ u.stopping = {} /\ u.model \in {Raw(o), Wrap(Raw(o))}
    BY <1>1, <2>2 DEF Shape
  <2>4. CASE u.reload
    <3>1. t.stage = "failed" /\ t.registry = u.registry /\ t.hooking = {} /\ t.stopping = {}
      BY <2>1, <2>4, <2>h DEF TaskTypes
    <3>2. SoloLoad(o, t, m, ready')
      BY <3>1 DEF SoloLoad, Undone
    <3> QED  BY <1>1, <1>a, <1>3, <1>4, <2>2, <2>3, <3>1, <3>2
  <2>5. CASE ~u.reload
    <3>1. t.stage = "unload" /\ t.registry = u.registry /\ t.hooking = {u.model} /\ t.stopping = {}
      BY <2>1, <2>5, <2>h DEF TaskTypes
    <3>2. m \notin ready /\ Wrap(Raw(o)) \notin ready
      BY <1>1, <2>2, <2>5 DEF SoloLoad, Undone
    <3>3. SoloLoad(o, t, m, ready')
      BY <2>2, <2>h, <3>1, <3>2 DEF SoloLoad, Undone
    <3> QED  BY <1>1, <1>a, <1>3, <1>4, <2>2, <2>3, <3>1, <3>3
  <2> QED  BY <2>4, <2>5
<1>10. ASSUME NEW n \in u.hooking, FinishUnloadHooks(o, n)
       PROVE  \E t1 : \E x1 : LoadMove(o, t1, x1)
  <2>1. /\ n \in {Raw(o), Wrap(Raw(o))} /\ n \in Objects /\ n.version = v
        /\ m \notin ready
        /\ u.stage \in {"unload", "failed"}
        /\ u.hooking \subseteq {Raw(o), Wrap(Raw(o))} /\ u.stopping \subseteq {Raw(o), Wrap(Raw(o))}
        /\ u.stopping # {} => m = NoModel
    BY <1>1, <1>o, <1>10 DEF SoloLoad, Shape
  <2>2. UNCHANGED <<made, entry, ready>>
    BY <1>10 DEF FinishUnloadHooks
  <2>3. CASE /\ task' = [task EXCEPT ![o].stage = "failed", ![o].hooking = @ \ {n}]
             /\ UNCHANGED single
    <3>1. PICK t : t = [u EXCEPT !.stage = "failed", !.hooking = @ \ {n}]
      OBVIOUS
    <3>2. /\ t.stage = "failed" /\ t.registry = u.registry /\ t.hooking = u.hooking \ {n}
          /\ t.stopping = u.stopping /\ task' = [task EXCEPT ![o] = t]
      BY <1>t, <1>u, <2>3, <3>1 DEF TaskTypes
    <3>3. SoloLoad(o, t, m, ready')
      BY <2>1, <2>2, <3>2 DEF SoloLoad, Undone
    <3> QED  BY <1>1, <1>a, <1>3, <1>4, <2>2, <2>3, <3>2, <3>3
  <2>4. CASE /\ task' = [task EXCEPT ![o].hooking = @ \ {n}, ![o].stopping = @ \cup {n}]
             /\ single' = [single EXCEPT ![g] = ClearIfDefault(Deleted(c, n), n)]
    <3>1. PICK t : t = [u EXCEPT !.hooking = @ \ {n}, !.stopping = @ \cup {n}]
      OBVIOUS
    <3>2. /\ t.stage = u.stage /\ t.registry = u.registry /\ t.hooking = u.hooking \ {n}
          /\ t.stopping = u.stopping \cup {n} /\ task' = [task EXCEPT ![o] = t]
      BY <1>t, <1>u, <2>4, <3>1 DEF TaskTypes
    <3>3. SoloLoad(o, t, NoModel, ready')
      BY <1>o, <2>1, <2>2, <3>2 DEF SoloLoad, Undone
    <3>4. PICK s : s = ClearIfDefault(Deleted(c, n), n)
      OBVIOUS
    <3>5. \A w \in Slots : Slot(s, w) = IF w = v THEN NoModel ELSE Slot(c, w)
      BY <1>s, <1>v, <2>1, <3>4, VersionIsDeleted
    <3>6. slot' = [slot EXCEPT ![v] = NoModel]
      BY <1>2, <2>2, <2>4, <3>4, <3>5
    <3> QED  BY <1>1, <1>4, <2>1, <2>2, <3>2, <3>3, <3>6
  <2>5. n.version # Unversioned /\ task[o].registry = g
    BY <1>1, <1>u, <1>v, <2>1
  <2> QED  BY <1>10, <1>c, <2>3, <2>4, <2>5 DEF FinishUnloadHooks, Deleted
<1>11. ASSUME NEW n \in u.stopping, FinishModelUnload(o, n)
       PROVE  \E t1 : \E x1 : LoadMove(o, t1, x1)
  <2>p. PICK st \in {u.stage, "failed"} : Stopped(o, n, st)
    BY <1>11, <1>t, <1>u, UnloadEnds
  <2>1. PICK t : t = [u EXCEPT !.stopping = @ \ {n}, !.stage = st]
    OBVIOUS
  <2>2. task' = [task EXCEPT ![o] = t] /\ UNCHANGED <<single, made, entry>> /\ Goes(n)
    BY <1>u, <2>p, <2>1 DEF Stopped
  <2>3. /\ t.stage = st /\ t.registry = u.registry /\ t.hooking = u.hooking
        /\ t.stopping = u.stopping \ {n}
    BY <2>1 DEF TaskTypes
  <2>4. /\ m = NoModel /\ n.version = v
        /\ u.stage \in {"unload", "failed"}
        /\ u.hooking \subseteq {Raw(o), Wrap(Raw(o))} /\ u.stopping \subseteq {Raw(o), Wrap(Raw(o))}
    BY <1>1, <1>o, <1>11 DEF SoloLoad, Shape
  <2>n. NoModel \notin ready'
    BY <2>2, ObjectParts DEF Goes
  <2>5. SoloLoad(o, t, m, ready')
    BY <2>n, <2>p, <2>3, <2>4 DEF SoloLoad, Undone
  <2>6. \A w \in Objects : w.version # v => (w \in ready <=> w \in ready')
    BY <2>2, <2>4 DEF Goes
  <2> QED  BY <1>1, <1>o, <1>3, <1>4, <2>2, <2>3, <2>4, <2>5, <2>6
<1>12. CASE EndUnload(o)
  <2>1. PICK t : t = [u EXCEPT !.stage = "failed"]
    OBVIOUS
  <2>2. o.kind = "load"
    BY DEF Loads
  <2>3. /\ task' = [task EXCEPT ![o] = t] /\ UNCHANGED <<single, entry, ready>>
        /\ u.stage = "unload" /\ u.hooking = {} /\ u.stopping = {}
    BY <1>12, <1>t, <1>u, <2>1, <2>2 DEF EndUnload
  <2>4. t.stage = "failed" /\ t.registry = u.registry /\ t.hooking = {} /\ t.stopping = {}
    BY <2>1, <2>3 DEF TaskTypes
  <2>5. SoloLoad(o, t, m, ready')
    BY <2>4 DEF SoloLoad, Undone
  <2> QED  BY <1>1, <1>a, <1>3, <1>4, <2>3, <2>4, <2>5
<1> QED  BY <1>5, <1>6, <1>7, <1>8, <1>9, <1>10, <1>11, <1>12, <1>u DEF GoOn

(* A load that begins alone: the version that was ready stays in its slot.   *)
LEMMA LoadBegins ==
  ASSUME RegistryInv, RegistryInv', ReadyBegun, NEW o \in Loads, o.version \in Versions, BeginLoad(o)
  PROVE  \E t : \E x : LoadMove(o, t, x)
<1>t. /\ single \in [Registries -> [versions : [Versions -> Objects \cup {NoModel}],
                                    default : Objects \cup {NoModel}]]
      /\ o \in Ops /\ task \in [Ops -> TaskTypes] /\ ready \subseteq Objects
      /\ entry \in Registries \cup {NoRegistry} /\ made \in Nat /\ entry =< made
      /\ Shape(o, task[o], made)
  BY DEF RegistryInv, TypeOK, TaskTypes, TaskShape, Loads
<1>1. /\ task[o] = Idle /\ task[o].stage = "idle" /\ UNCHANGED ready /\ entry' = RegistryToUse
  BY <1>t DEF BeginLoad, MayBegin, Shape
<1>g. PICK g : g = RegistryToUse
  OBVIOUS
<1>2. g # NoRegistry /\ g \in Registries
  <2>1. g # NoRegistry
    BY <1>t, <1>g DEF RegistryToUse, NoRegistry
  <2>2. entry' \in Registries \cup {NoRegistry}
    BY DEF RegistryInv, TypeOK
  <2> QED  BY <1>1, <1>g, <2>1, <2>2
<1>3. single[g] = Current
  <2>1. CASE entry = NoRegistry
    <3>1. g > made
      BY <1>t, <1>g, <2>1 DEF RegistryToUse
    <3> QED  BY <1>2, <2>1, <3>1 DEF RegistryInv, Counted, Current
  <2>2. CASE entry # NoRegistry
    BY <1>g, <2>2 DEF RegistryToUse, Current
  <2> QED  BY <2>1, <2>2
<1>c. PICK c : c = Current
  OBVIOUS
<1>4. Filed(c) /\ single[g] = c
  BY <1>3, <1>c, SlotFacts
<1>v. PICK v \in Slots : v = o.version /\ v \in Versions /\ v # Unversioned
  BY DEF Slots, Versions, Unversioned
<1>m. PICK m : m = slot[v]
  OBVIOUS
<1>s. /\ slot = [w \in Slots |-> slot[w]]
      /\ \A w \in Slots : slot[w] = Slot(c, w)
  BY <1>c DEF slot
<1>5. Find(c, v) = m
  BY <1>s, <1>v, <1>m DEF Find, Slot
<1>o. /\ Raw(o) \in Objects /\ Raw(o).version = v
      /\ Raw(o) \notin ready /\ Wrap(Raw(o)) \notin ready /\ NoModel \notin ready
  BY <1>t, <1>v, <1>1, ObjectParts DEF ReadyBegun
<1>f. PICK f : f = Found(c, v)
  OBVIOUS
<1>6. f = c
  BY <1>f, <1>v DEF Found
<1>7. ASSUME NEW s, single' = [single EXCEPT ![g] = s], NEW x,
             \A w \in Slots : Slot(s, w) = IF w = v THEN x ELSE Slot(c, w)
      PROVE  slot' = [slot EXCEPT ![v] = x]
  <2>1. \A w \in Slots : Slot(s, w) = IF w = v THEN x ELSE slot[w]
    BY <1>s, <1>7
  <2>2. Change(g, s, v, x)
    BY <1>1, <1>2, <1>7, <1>g, <2>1 DEF Change
  <2> QED  BY <2>2, SlotChanges
<1>8. ASSUME NEW t, NEW x, task' = [task EXCEPT ![o] = t], slot' = [slot EXCEPT ![v] = x],
             Busy(t) => t.registry = g, SoloLoad(o, t, x, ready), m \in ready => x \in Able(ready)
      PROVE  \E t1 : \E x1 : LoadMove(o, t1, x1)
  <2>1. LoadMove(o, t, x)
    BY <1>1, <1>2, <1>8, <1>v, <1>m, <1>g DEF LoadMove, SoloMove
  <2> QED  BY <2>1
<1>a. ready \subseteq Able(ready)
  BY DEF Able
<1>9. CASE /\ task' = [task EXCEPT ![o].stage = "failed"]
           /\ single' = [single EXCEPT ![g] = f]
  <2>1. PICK t : t = [Idle EXCEPT !.stage = "failed"]
    OBVIOUS
  <2>2. task' = [task EXCEPT ![o] = t]
    BY <1>t, <1>1, <1>9, <2>1
  <2>3. t.stage = "failed" /\ t.hooking = {} /\ t.stopping = {}
    BY <2>1 DEF Idle
  <2>4. ~Busy(t) /\ SoloLoad(o, t, m, ready)
    BY <2>3 DEF Busy, SoloLoad, Undone
  <2>5. \A w \in Slots : Slot(f, w) = IF w = v THEN m ELSE Slot(c, w)
    BY <1>s, <1>m, <1>6
  <2>6. slot' = [slot EXCEPT ![v] = m]
    BY <1>7, <1>9, <2>5
  <2> QED  BY <1>8, <1>a, <2>2, <2>4, <2>6
<1>10. PICK t : t = [Idle EXCEPT !.stage = "hook", !.registry = g, !.model = Raw(o),
                                 !.old = m, !.reload = (m # NoModel)]
  OBVIOUS
<1>11. /\ t.stage = "hook" /\ t.registry = g /\ (t.reload <=> m # NoModel)
       /\ t.hooking = {} /\ t.stopping = {}
  BY <1>10 DEF Idle
<1>12. CASE /\ task' = [task EXCEPT ![o] = t]
            /\ m # NoModel /\ single' = [single EXCEPT ![g] = f]
  <2>1. SoloLoad(o, t, m, ready)
    BY <1>11, <1>12 DEF SoloLoad, Undone
  <2>2. \A w \in Slots : Slot(f, w) = IF w = v THEN m ELSE Slot(c, w)
    BY <1>s, <1>m, <1>6
  <2>3. slot' = [slot EXCEPT ![v] = m]
    BY <1>7, <1>12, <2>2
  <2> QED  BY <1>8, <1>a, <1>11, <1>12, <2>1, <2>3
<1>13. CASE /\ task' = [task EXCEPT ![o] = t]
            /\ m = NoModel /\ single' = [single EXCEPT ![g] = Register(f, Raw(o))]
  <2>1. PICK s : s = Register(f, Raw(o))
    OBVIOUS
  <2>2. \A w \in Slots : Slot(s, w) = IF w = v THEN Raw(o) ELSE Slot(c, w)
    BY <1>4, <1>6, <1>o, <2>1, RegisterFiles
  <2>3. SoloLoad(o, t, Raw(o), ready)
    BY <1>11, <1>o DEF SoloLoad, Undone
  <2>4. slot' = [slot EXCEPT ![v] = Raw(o)]
    BY <1>7, <1>13, <2>1, <2>2
  <2> QED  BY <1>8, <1>11, <1>13, <1>o, <2>3, <2>4
<1>14. \/ /\ task' = [task EXCEPT ![o] = t]
          /\ single' = [single EXCEPT ![g] = IF t.reload THEN f ELSE Register(f, Raw(o))]
       \/ /\ task' = [task EXCEPT ![o].stage = "failed"]
          /\ single' = [single EXCEPT ![g] = f]
  BY <1>4, <1>5, <1>10, <1>f, <1>g, <1>v DEF BeginLoad
<1> QED  BY <1>9, <1>11, <1>12, <1>13, <1>14

(* An unload of a version that begins alone.                                *)
LEMMA UnloadBegins ==
  ASSUME RegistryInv, NEW o \in Ops, o.kind = "unload", o.version \in Versions, BeginUnload(o)
  PROVE  /\ \E t : UnloadMove(o, t, slot[o.version]) /\ t.hooking # {}
         /\ UNCHANGED ready
<1>t. /\ single \in [Registries -> [versions : [Versions -> Objects \cup {NoModel}],
                                    default : Objects \cup {NoModel}]]
      /\ task \in [Ops -> TaskTypes]
  BY DEF RegistryInv, TypeOK, TaskTypes
<1>v. PICK v \in Slots : v = o.version /\ v \in Versions /\ v # Unversioned
  BY DEF Slots, Versions, Unversioned
<1>c. PICK c : c = single[entry]
  OBVIOUS
<1>1. /\ entry # NoRegistry /\ entry' = entry /\ ready' = ready
      /\ task' = [task EXCEPT ![o] = [Idle EXCEPT !.stage = "unload", !.registry = entry,
                                                  !.hooking = {Find(c, v)} \ {NoModel}]]
      /\ {Find(c, v)} \ {NoModel} # {}
      /\ single' = [single EXCEPT ![entry] = Found(c, v)]
  BY <1>v, <1>c DEF BeginUnload
<1>2. Found(c, v) = c /\ Find(c, v) = slot[v]
  BY <1>1, <1>v, <1>c DEF Found, Find, slot, Slot, Current
<1>3. single' = single
  BY <1>1, <1>2, <1>c, <1>t
<1>4. slot' = [slot EXCEPT ![v] = slot[v]]
  BY <1>1, <1>3, SlotsUnchanged
<1>5. PICK t : t = [Idle EXCEPT !.stage = "unload", !.registry = entry, !.hooking = {slot[v]} \ {NoModel}]
  OBVIOUS
<1>6. /\ task' = [task EXCEPT ![o] = t]
      /\ t.stage = "unload" /\ t.registry = entry /\ t.hooking = {slot[v]} \ {NoModel} /\ t.stopping = {}
      /\ t.hooking # {}
  BY <1>1, <1>2, <1>5 DEF Idle
<1>7. SoloUnload(o, t, slot[v])
  BY <1>6 DEF SoloUnload
<1>8. UnloadMove(o, t, slot[v])
  BY <1>1, <1>4, <1>6, <1>7, <1>v DEF UnloadMove, SoloMove
<1> QED  BY <1>1, <1>6, <1>8, <1>v

(* An unload of a version that goes on alone.                               *)
LEMMA UnloadGoesOn ==
  ASSUME RegistryInv, NEW o \in Ops, o.kind = "unload", o.version \in Versions, GoOn(o),
         entry # NoRegistry, task[o].registry = entry, SoloUnload(o, task[o], slot[o.version])
  PROVE  \E t : \E x : UnloadMove(o, t, x)
<1>t. /\ single \in [Registries -> [versions : [Versions -> Objects \cup {NoModel}],
                                    default : Objects \cup {NoModel}]]
      /\ task[o] \in TaskTypes /\ task \in [Ops -> TaskTypes] /\ ready \subseteq Objects
      /\ Shape(o, task[o], made)
      /\ entry \in Registries /\ Filed(single[entry])
  BY DEF RegistryInv, TypeOK, TaskTypes, TaskShape
<1>v. PICK v \in Slots : v = o.version /\ v \in Versions /\ v # Unversioned
  BY DEF Slots, Versions, Unversioned
<1>g. PICK g \in Registries : g = entry /\ g # NoRegistry
  BY <1>t
<1>c. PICK c : c = single[g]
  OBVIOUS
<1>m. PICK m : m = slot[v]
  OBVIOUS
<1>u. PICK u \in TaskTypes : u = task[o]
  BY <1>t
<1>1. /\ u.stage \in {"unload", "done", "failed"} /\ u.hooking \subseteq {m}
      /\ \A n \in u.stopping : n.version = v
      /\ u.registry = g
  BY <1>v, <1>m, <1>u, <1>g DEF SoloUnload
<1>s. /\ slot = [w \in Slots |-> slot[w]] /\ Filed(c)
      /\ \A w \in Slots : slot[w] = Slot(c, w)
      /\ m # NoModel => m \in Objects /\ m.version = v
  <2>1. Current = c
    BY <1>g, <1>c DEF Current
  <2> QED  BY <1>t, <1>g, <1>c, <1>m, <2>1, SlotFacts DEF slot
<1>3. ASSUME UNCHANGED single, entry' = entry
      PROVE  slot' = [slot EXCEPT ![v] = m]
  BY <1>3, <1>m, SlotsUnchanged
<1>4. ASSUME NEW t, NEW x, task' = [task EXCEPT ![o] = t], slot' = [slot EXCEPT ![v] = x],
             Busy(t) => entry' = g /\ t.registry = g,
             \A n \in Objects : n.version # v => (n \in ready <=> n \in ready'),
             SoloUnload(o, t, x), x \in {m, NoModel},
             t.hooking = {} => x = NoModel \/ u.hooking = {}
      PROVE  \E t1 : \E x1 : UnloadMove(o, t1, x1)
  <2>1. UnloadMove(o, t, x)
    BY <1>4, <1>v, <1>m, <1>g, <1>u DEF UnloadMove, SoloMove
  <2> QED  BY <2>1
<1>5. ASSUME NEW n \in u.hooking, FinishUnloadHooks(o, n)
      PROVE  \E t1 : \E x1 : UnloadMove(o, t1, x1)
  <2>1. n = m /\ u.hooking = {m} /\ m \in Objects /\ m # NoModel /\ m.version = v
    BY <1>1, <1>5, <1>s, ObjectParts DEF TaskTypes
  <2>2. UNCHANGED <<made, entry, ready>>
    BY <1>5 DEF FinishUnloadHooks
  <2>3. c.versions[v] = m
    BY <1>s, <1>m, <1>v DEF Slot
  <2>4. /\ task' = [task EXCEPT ![o].hooking = @ \ {n}, ![o].stopping = @ \cup {n}]
        /\ single' = [single EXCEPT ![g] = ClearIfDefault(Deleted(c, n), n)]
    <3>1. n.version # Unversioned /\ task[o].registry = g /\ single[g].versions[n.version] # NoModel
      BY <1>1, <1>u, <1>v, <1>c, <2>1, <2>3
    <3> QED  BY <1>5, <1>c, <3>1 DEF FinishUnloadHooks, Deleted
  <2>5. PICK t : t = [u EXCEPT !.hooking = @ \ {n}, !.stopping = @ \cup {n}]
    OBVIOUS
  <2>6. /\ t.stage = u.stage /\ t.registry = u.registry /\ t.hooking = {}
        /\ t.stopping = u.stopping \cup {n} /\ task' = [task EXCEPT ![o] = t]
    BY <1>t, <1>u, <2>1, <2>4, <2>5 DEF TaskTypes
  <2>7. PICK s : s = ClearIfDefault(Deleted(c, n), n)
    OBVIOUS
  <2>8. \A w \in Slots : Slot(s, w) = IF w = v THEN NoModel ELSE slot[w]
    BY <1>s, <1>v, <2>1, <2>7, VersionIsDeleted
  <2>9. Change(g, s, v, NoModel)
    BY <1>g, <2>2, <2>4, <2>7, <2>8 DEF Change
  <2>10. slot' = [slot EXCEPT ![v] = NoModel]
    BY <2>9, SlotChanges
  <2>11. SoloUnload(o, t, NoModel)
    BY <1>1, <1>v, <2>1, <2>6 DEF SoloUnload
  <2> QED  BY <1>1, <1>4, <1>g, <2>2, <2>6, <2>10, <2>11
<1>6. ASSUME NEW n \in u.stopping, FinishModelUnload(o, n)
      PROVE  \E t1 : \E x1 : UnloadMove(o, t1, x1)
  <2>p. PICK st \in {u.stage, "failed"} : Stopped(o, n, st)
    BY <1>6, <1>u, UnloadEnds
  <2>1. PICK t : t = [u EXCEPT !.stopping = @ \ {n}, !.stage = st]
    OBVIOUS
  <2>2. task' = [task EXCEPT ![o] = t] /\ UNCHANGED <<single, made, entry>> /\ Goes(n)
    BY <1>u, <2>p, <2>1 DEF Stopped
  <2>3. /\ t.stage = st /\ t.registry = u.registry /\ t.hooking = u.hooking
        /\ t.stopping = u.stopping \ {n}
    BY <2>1 DEF TaskTypes
  <2>4. SoloUnload(o, t, m)
    BY <1>1, <1>v, <2>p, <2>3 DEF SoloUnload
  <2>5. \A w \in Objects : w.version # v => (w \in ready <=> w \in ready')
    BY <1>1, <1>6, <2>2 DEF Goes
  <2> QED  BY <1>1, <1>3, <1>4, <1>g, <2>2, <2>3, <2>4, <2>5
<1>7. CASE EndUnload(o)
  <2>1. /\ u.stage = "unload" /\ u.hooking = {} /\ u.stopping = {}
        /\ single' = single /\ ready' = ready
        /\ entry' = entry \/ (entry' = NoRegistry /\ Empty(c))
    BY <1>7, <1>1, <1>u, <1>c DEF EndUnload
  <2>2. PICK t : /\ task' = [task EXCEPT ![o] = t] /\ t.stage \in {"failed", "done"}
                 /\ t.hooking = {} /\ t.stopping = {}
    <3>1. PICK e \in {"failed", "done"} : task' = [task EXCEPT ![o].stage = e]
      BY <1>7 DEF EndUnload
    <3>2. PICK t : t = [u EXCEPT !.stage = e]
      OBVIOUS
    <3>3. task' = [task EXCEPT ![o] = t]
      BY <1>t, <1>u, <3>1, <3>2
    <3>4. t.stage = e /\ t.hooking = {} /\ t.stopping = {}
      BY <2>1, <3>2 DEF TaskTypes
    <3> QED  BY <3>1, <3>3, <3>4
  <2>3. ~Busy(t) /\ SoloUnload(o, t, m)
    BY <2>2 DEF Busy, SoloUnload
  <2>4. slot' = [slot EXCEPT ![v] = m]
    <3>1. CASE entry' = entry
      BY <1>3, <2>1, <3>1
    <3>2. CASE entry' = NoRegistry /\ Empty(c)
      <4>1. \A w \in Slots : slot[w] = NoModel
        BY <1>s, <3>2, ModelsInSlots
      <4>2. Current' = NoVersions
        BY <3>2 DEF Current
      <4>3. slot' = [w \in Slots |-> Slot(NoVersions, w)]
        BY <4>2 DEF slot
      <4>4. slot' = [w \in Slots |-> slot[w]]
        BY <4>1, <4>3, NoVersionsFiled
      <4> QED  BY <1>m, <1>s, <4>4
    <3> QED  BY <2>1, <3>1, <3>2
  <2> QED  BY <1>4, <2>1, <2>2, <2>3, <2>4
<1>8. CASE FinishHook(o) \/ FinishLateHook(o) \/ FinishLoad(o) \/ FinishRetire(o) \/ FailLoad(o)
  <2>1. u.stage \in {"init", "hook", "late_hook", "load", "retire"}
    BY <1>8, <1>u, FailuresAssumption DEF FinishHook, FinishLateHook, FinishLoad, FinishRetire, FailLoad
  <2> QED  BY <1>1, <2>1
<1> QED  BY <1>5, <1>6, <1>7, <1>8, <1>u DEF GoOn

-----------------------------------------------------------------------------
(* What a request alone has done: the versions it has loaded are ready, or   *)
(* said that they are not, ...                                              *)
LoadsAlone(y, t, sl, R) ==
  /\ y.loaded \subseteq y.loading
  /\ y.op = NoOp => y.loaded = {}
  /\ y.op # NoOp =>
       /\ y.op \in Loads /\ y.op.version \in y.loaded
       /\ SoloLoad(y.op, t, sl[y.op.version], R)
       /\ \A w \in y.loaded \ {y.op.version} : sl[w] \in Able(R)
(* ... and the others are stale, or being unloaded. *)
RemovesAlone(y, t, sl, R) ==
  /\ y.stale \cap y.loading = {} /\ y.op \in Ops
  /\ \A w \in y.loading : sl[w] \in Able(R)
  /\ \/ y.op \in Loads /\ t.stage = "done"
     \/ /\ y.op.kind = "unload" /\ y.op.version \in Versions \ y.loading
        /\ SoloUnload(y.op, t, sl[y.op.version])
  /\ \A v \in Slots : sl[v] # NoModel =>
       v \in y.loading \cup y.stale \/ (t.hooking # {} /\ v = y.op.version)
SoloOf(y, tk, en, sl, R) ==
  /\ y.stage # "unloading" /\ y.op # NoOp /\ Busy(tk[y.op]) =>
       en # NoRegistry /\ tk[y.op].registry = en
  /\ y.stage = "loading" => LoadsAlone(y, tk[y.op], sl, R)
  /\ y.stage = "removing" => RemovesAlone(y, tk[y.op], sl, R)

(* Nothing is under way but its own operation. *)
Solo(r) ==
  /\ \A q \in Requests : q # r => ~Active(q)
  /\ \A p \in Ops : Running(p) => p = request[r].op
  /\ SoloOf(request[r], task, entry, slot, ready)

OpsBegun == \A r \in Requests : Active(r) /\ request[r].op # NoOp => task[request[r].op].stage # "idle"
AloneInv ==
  /\ ReadyBegun
  /\ OpsBegun
  /\ \A r \in Requests : Active(r) /\ request[r].alone => Solo(r)

(* Versions of F that are served stay so, unless a new model says it is not. *)
Keeps(F) == \A v \in F : slot[v] \in ready => slot'[v] \in Able(ready')

(* A request that is alone still was before, and nobody else was asked; or   *)
(* it begins when all is quiet.                                             *)
LEMMA AloneBefore ==
  ASSUME RequestInv, HandlersNext \/ UNCHANGED request, NEW q \in Requests, request'[q].alone
  PROVE  /\ Active(q) => /\ request[q].alone
                         /\ \A r \in Requests : request[r].stage = "idle" =>
                              request'[r].stage \in {"idle", "failed"}
         /\ Active(q)' /\ ~Active(q) => request[q].stage = "idle" /\ Quiet /\ NoneDue
<1>r. request \in [Requests -> RequestTypes]
  BY DEF RequestInv
<1>1. ASSUME NEW r \in Requests, NEW x \in RequestTypes, request' = Begun(r, x),
             request[r].stage = "idle", NoneDue
      PROVE  /\ ~Active(q)
             /\ Active(q)' => request[q].stage = "idle" /\ Quiet /\ NoneDue
  <2>1. request'[q].stage = IF q = r THEN x.stage ELSE request[q].stage
    BY <1>1, BegunParts DEF Alike
  <2>2. PICK z \in RequestTypes : z = IF q = r THEN x ELSE request[q]
    BY <1>r
  <2>3. PICK b : b = IF q = r THEN Quiet ELSE request[q].alone /\ ~Active(q)
    OBVIOUS
  <2>4. request'[q] = [z EXCEPT !.alone = b]
    BY <1>1, <2>2, <2>3 DEF Begun
  <2>5. b
    BY <2>4 DEF RequestTypes
  <2>6. CASE q = r
    BY <1>1, <2>3, <2>5, <2>6 DEF Active
  <2>7. CASE q # r
    BY <2>1, <2>3, <2>5, <2>7 DEF Active
  <2> QED  BY <2>6, <2>7
<1>2. ASSUME NEW r \in Requests, NEW x \in RequestTypes, request' = [request EXCEPT ![r] = x],
             x.alone = request[r].alone,
             x.stage \in {"loading", "removing"} => Active(r),
             x.stage # "unloading", request[r].stage = "idle" => x.stage = "failed"
      PROVE  /\ request[q].alone
             /\ \A p \in Requests : request[p].stage = "idle" => request'[p].stage \in {"idle", "failed"}
             /\ Active(q)' => Active(q)
  <2>1. \A p \in Requests : request'[p] = IF p = r THEN x ELSE request[p]
    BY <1>r, <1>2
  <2> QED  BY <1>2, <2>1 DEF Active
<1>f. ASSUME NEW r \in Requests, Fail(r)
      PROVE  /\ request[q].alone
             /\ \A p \in Requests : request[p].stage = "idle" => request'[p].stage \in {"idle", "failed"}
             /\ Active(q)' => Active(q)
  <2>1. PICK x : x = [request[r] EXCEPT !.stage = "failed"]
    OBVIOUS
  <2>2. /\ x \in RequestTypes /\ request' = [request EXCEPT ![r] = x]
        /\ x.stage = "failed" /\ x.alone = request[r].alone
    BY <1>f, <1>r, <2>1 DEF Fail, RequestTypes, RequestStages
  <2> QED  BY <1>2, <2>2
<1>3. ASSUME NEW r \in Requests, NEW found \in Folders, FindSettings(r, found)
      PROVE  ~Active(q) /\ (Active(q)' => request[q].stage = "idle" /\ Quiet /\ NoneDue)
  <2>1. PICK x : x = [Asked EXCEPT !.stage = IF found = {} THEN "failed" ELSE "loading", !.loading = found]
    OBVIOUS
  <2>2. x \in RequestTypes
    BY <2>1, FoldersAssumption DEF Asked, RequestTypes, RequestStages
  <2>3. request' = Begun(r, x) /\ request[r].stage = "idle" /\ NoneDue
    BY <1>3, <2>1 DEF FindSettings
  <2> QED  BY <1>1, <2>2, <2>3
<1>4. ASSUME NEW r \in Requests, Unload(r), ~Fail(r)
      PROVE  ~Active(q) /\ (Active(q)' => request[q].stage = "idle" /\ Quiet /\ NoneDue)
  <2>1. PICK o \in Ops : request' = Begun(r, [Asked EXCEPT !.stage = "unloading", !.op = o])
    BY <1>4 DEF Unload
  <2>2. PICK x : x = [Asked EXCEPT !.stage = "unloading", !.op = o]
    OBVIOUS
  <2>3. x \in RequestTypes
    BY <2>2 DEF Asked, RequestTypes, RequestStages
  <2>4. request' = Begun(r, x) /\ request[r].stage = "idle" /\ NoneDue
    BY <1>4, <2>1, <2>2 DEF Unload
  <2> QED  BY <1>1, <2>3, <2>4
<1>5. ASSUME NEW r \in Requests, NEW v \in Versions, LoadNext(r, v) \/ RemoveNext(r, v), ~Fail(r)
      PROVE  /\ request[q].alone
             /\ \A p \in Requests : request[p].stage = "idle" => request'[p].stage \in {"idle", "failed"}
             /\ Active(q)' => Active(q)
  <2>1. request[r].stage \in {"loading", "removing"} /\ "load" \in r.kinds
    BY <1>5 DEF LoadNext, RemoveNext, RequestInv
  <2>2. PICK o \in Ops : o = Own(r, IF request[r].stage = "loading" THEN "load" ELSE "unload", v)
    BY <2>1, OwnIsOperation
  <2>3. \/ /\ request[r].stage = "loading"
           /\ request' = [request EXCEPT ![r].loaded = @ \cup {v}, ![r].op = o]
        \/ /\ request[r].stage = "removing"
           /\ request' = [request EXCEPT ![r].stale = @ \ {v}, ![r].op = o]
    BY <1>5, <2>2 DEF LoadNext, RemoveNext
  <2>4. PICK x : x = IF request[r].stage = "loading" THEN [request[r] EXCEPT !.loaded = @ \cup {v}, !.op = o]
                     ELSE [request[r] EXCEPT !.stale = @ \ {v}, !.op = o]
    OBVIOUS
  <2>5. request' = [request EXCEPT ![r] = x]
    BY <1>r, <2>3, <2>4
  <2>6. x \in RequestTypes /\ x.stage = request[r].stage /\ x.alone = request[r].alone
    BY <1>r, <2>4 DEF RequestTypes
  <2> QED  BY <1>2, <2>1, <2>5, <2>6 DEF Active
<1>6. ASSUME NEW r \in Requests, ListStale(r), ~Fail(r)
      PROVE  /\ request[q].alone
             /\ \A p \in Requests : request[p].stage = "idle" => request'[p].stage \in {"idle", "failed"}
             /\ Active(q)' => Active(q)
  <2>1. PICK st : st = {m.version : m \in Models(single[entry])} \ request[r].loaded
    OBVIOUS
  <2>2. PICK x : x = [request[r] EXCEPT !.stage = "removing", !.stale = st]
    OBVIOUS
  <2>3. request[r].stage = "loading" /\ request' = [request EXCEPT ![r].stage = "removing", ![r].stale = st]
    BY <1>6, <2>1 DEF ListStale
  <2>4. request' = [request EXCEPT ![r] = x]
    BY <1>r, <2>2, <2>3
  <2>5. x.stage = "removing" /\ x.alone = request[r].alone
    BY <1>r, <2>2 DEF RequestTypes
  <2>6. \A p \in Requests : request'[p] = IF p = r THEN x ELSE request[p]
    BY <1>r, <2>4
  <2> QED  BY <2>3, <2>5, <2>6 DEF Active
<1>7. ASSUME NEW r \in Requests, Finish(r)
      PROVE  /\ request[q].alone
             /\ \A p \in Requests : request[p].stage = "idle" => request'[p].stage \in {"idle", "failed"}
             /\ Active(q)' => Active(q)
  <2>1. PICK x : x = [request[r] EXCEPT !.stage = "done"]
    OBVIOUS
  <2>2. request' = [request EXCEPT ![r] = x] /\ request[r].stage \in {"removing", "unloading"}
    BY <1>7, <1>r, <2>1 DEF Finish
  <2>3. x \in RequestTypes /\ x.stage = "done" /\ x.alone = request[r].alone
    BY <1>r, <2>1 DEF RequestTypes, RequestStages
  <2> QED  BY <1>2, <2>2, <2>3
<1>8. ASSUME UNCHANGED request
      PROVE  /\ request[q].alone
             /\ \A p \in Requests : request[p].stage = "idle" => request'[p].stage \in {"idle", "failed"}
             /\ Active(q)' => Active(q)
  BY <1>8 DEF Active
<1> QED
  BY <1>f, <1>3, <1>4, <1>5, <1>6, <1>7, <1>8 DEF HandlersNext, Raise, GoOn

(* Looking up, or nothing at all, leaves every slot as it is. *)
LEMMA SlotsRead ==
  ASSUME RegistryInv, ReadDefault \/ UNCHANGED vars
  PROVE  slot' = slot /\ UNCHANGED <<entry, ready, task>>
<1>1. UNCHANGED <<entry, ready, task>>
  BY DEF ReadDefault, vars
<1>2. CASE ReadDefault
  <2>1. PICK c : c = Current
    OBVIOUS
  <2>2. Filed(c)
    BY <2>1, SlotFacts
  <2>3. Current' = Cached(c)
    BY <1>2, <2>1 DEF ReadDefault, Current, RegistryInv, TypeOK
  <2>4. slot = [w \in Slots |-> Slot(c, w)] /\ slot' = [w \in Slots |-> Slot(Cached(c), w)]
    BY <2>1, <2>3 DEF slot
  <2>5. \A w \in Slots : Slot(Cached(c), w) = Slot(c, w)
    BY <2>2, CachedKeeps
  <2> QED  BY <1>1, <2>4, <2>5
<1>3. CASE UNCHANGED vars
  <2>1. Current' = Current
    BY <1>3 DEF vars, Current
  <2> QED  BY <1>1, <2>1 DEF slot
<1> QED  BY <1>2, <1>3

(* What an operation alone leaves alone. *)
LEMMA OthersKept ==
  ASSUME RegistryInv, RegistryInv', NEW o \in Ops, o.version \in Versions, NEW t, NEW x, SoloMove(o, t, x)
  PROVE  /\ task'[o] = t /\ slot'[o.version] = x
         /\ \A w \in Slots : w # o.version =>
              /\ slot'[w] = slot[w] /\ (slot[w] \in ready <=> slot'[w] \in ready')
              /\ slot[w] \in Able(ready) <=> slot'[w] \in Able(ready')
         /\ NoModel \notin ready /\ NoModel \notin ready'
         /\ \A p \in Ops : p # o => (Running(p)' <=> Running(p))
<1>t. task \in [Ops -> TaskTypes] /\ ready \subseteq Objects /\ ready' \subseteq Objects
  BY DEF RegistryInv, TypeOK, TaskTypes
<1>1. task'[o] = t /\ \A p \in Ops : p # o => task'[p] = task[p]
  BY <1>t DEF SoloMove
<1>2. slot'[o.version] = x /\ \A w \in Slots : w # o.version => slot'[w] = slot[w]
  BY DEF SoloMove, slot, Slots
<1>3. NoModel \notin ready /\ NoModel \notin ready'
  BY <1>t, ObjectParts
<1>4. ASSUME NEW w \in Slots, w # o.version
      PROVE  slot[w] \in ready <=> slot[w] \in ready'
  <2>1. slot[w] \in Objects \cup {NoModel} /\ (slot[w] # NoModel => slot[w].version = w)
    BY SlotFacts
  <2> QED  BY <1>3, <1>4, <2>1 DEF SoloMove
<1>5. \A p \in Ops : p # o => (Running(p)' <=> Running(p))
  BY <1>1 DEF Running
<1>6. \A w \in Slots : w # o.version => (slot[w] \in Able(ready) <=> slot[w] \in Able(ready'))
  BY <1>4 DEF Able
<1> QED  BY <1>1, <1>2, <1>3, <1>4, <1>5, <1>6

(* A load of a request alone. *)
LEMMA LoadKeepsAlone ==
  ASSUME RegistryInv, RegistryInv', NEW o \in Loads, o.version \in Versions,
         NEW t, NEW m, LoadMove(o, t, m),
         NEW y \in RequestTypes, y.stage = "loading", y.op = o,
         o.version \in y.loaded, y.loaded \subseteq y.loading,
         \A w \in y.loaded \ {o.version} : slot[w] \in Able(ready)
  PROVE  SoloOf(y, task', entry', slot', ready') /\ Keeps(y.loading)
<1>o. o \in Ops /\ o # NoOp
  BY OpsAssumption DEF Loads, NoOp
<1>1. /\ task'[o] = t /\ slot'[o.version] = m
      /\ \A w \in Slots : w # o.version =>
           /\ slot'[w] = slot[w] /\ (slot[w] \in ready <=> slot'[w] \in ready')
           /\ slot[w] \in Able(ready) <=> slot'[w] \in Able(ready')
  BY <1>o, OthersKept DEF LoadMove
<1>2. y.loading \subseteq Slots
  BY DEF RequestTypes, Slots
<1>3. \A w \in y.loaded \ {o.version} : slot'[w] \in Able(ready')
  BY <1>1, <1>2
<1>4. LoadsAlone(y, t, slot', ready')
  BY <1>o, <1>1, <1>3 DEF LoadsAlone, LoadMove
<1>5. SoloOf(y, task', entry', slot', ready')
  BY <1>o, <1>1, <1>4 DEF SoloOf, LoadMove, SoloMove
<1>6. Keeps(y.loading)
  BY <1>1, <1>2 DEF Keeps, LoadMove, Able
<1> QED  BY <1>5, <1>6

(* An unload of a version that its folder does not have. *)
LEMMA UnloadKeepsAlone ==
  ASSUME RegistryInv, RegistryInv', NEW o \in Ops, o.kind = "unload",
         NEW t, NEW m, UnloadMove(o, t, m),
         NEW y \in RequestTypes, y.stage = "removing", y.op = o,
         o.version \in Versions \ y.loading, y.stale \cap y.loading = {},
         \A w \in y.loading : slot[w] \in Able(ready),
         \A v \in Slots : slot[v] # NoModel =>
           v \in y.loading \cup y.stale \/ (v = o.version /\ (t.hooking # {} \/ task[o].hooking # {}))
  PROVE  SoloOf(y, task', entry', slot', ready') /\ Keeps(y.loading)
<1>o. o # NoOp
  BY OpsAssumption DEF NoOp
<1>1. /\ task'[o] = t /\ slot'[o.version] = m
      /\ \A w \in Slots : w # o.version =>
           /\ slot'[w] = slot[w] /\ (slot[w] \in ready <=> slot'[w] \in ready')
           /\ slot[w] \in Able(ready) <=> slot'[w] \in Able(ready')
  BY OthersKept DEF UnloadMove
<1>2. y.loading \subseteq Slots
  BY DEF RequestTypes, Slots
<1>3. \A w \in y.loading : slot'[w] \in Able(ready')
  BY <1>1, <1>2
<1>4. ASSUME NEW v \in Slots, slot'[v] # NoModel
      PROVE  v \in y.loading \cup y.stale \/ (t.hooking # {} /\ v = o.version)
  <2>1. CASE v # o.version
    BY <1>1, <1>4, <2>1
  <2>2. CASE v = o.version
    BY <1>1, <1>4, <2>2 DEF UnloadMove
  <2> QED  BY <2>1, <2>2
<1>5. RemovesAlone(y, t, slot', ready')
  BY <1>1, <1>3, <1>4 DEF RemovesAlone, UnloadMove
<1>6. SoloOf(y, task', entry', slot', ready')
  BY <1>o, <1>1, <1>5 DEF SoloOf, UnloadMove, SoloMove
<1>7. Keeps(y.loading)
  BY <1>3 DEF Keeps
<1> QED  BY <1>6, <1>7

(* The operation of a request alone goes on.                                *)
LEMMA AloneGoesOn ==
  ASSUME RegistryInv, RegistryInv', RequestInv, ProgressInv, NEW r \in Requests, Active(r), Solo(r),
         NEW p \in Ops, GoOn(p), UNCHANGED request
  PROVE  Solo(r)' /\ Keeps(request[r].loading)
<1>t. task \in [Ops -> TaskTypes] /\ Shape(p, task[p], made)
  BY DEF RegistryInv, TypeOK, TaskTypes, TaskShape
<1>y. PICK y \in RequestTypes : y = request[r] /\ y = request'[r]
  BY DEF RequestInv
<1>1. /\ y.op = p /\ p # NoOp /\ Busy(task[p])
      /\ y.stage \in {"loading", "removing", "unloading"}
      /\ SoloOf(y, task, entry, slot, ready)
  <2>1. Running(p)
    BY GoesOnRunning
  <2>2. Busy(task[p])
    BY <2>1 DEF Running, Busy
  <2> QED  BY <1>y, <2>1, <2>2, OpsAssumption DEF Solo, Active, NoOp
<1>2. \A q \in Requests : q # r => ~Active(q)'
  BY DEF Solo, Active
<1>3. \A q \in Ops : Running(q)' => q = p
  <2>1. PICK t : task' = [task EXCEPT ![p] = t]
    BY GoOnTask
  <2>2. \A q \in Ops : q # p => task'[q] = task[q]
    BY <1>t, <2>1
  <2>3. \A q \in Ops : Running(q) => q = p
    BY <1>1, <1>y DEF Solo
  <2> QED  BY <2>2, <2>3 DEF Running
<1>4. ASSUME SoloOf(y, task', entry', slot', ready'), Keeps(y.loading)
      PROVE  Solo(r)' /\ Keeps(request[r].loading)
  BY <1>1, <1>2, <1>3, <1>4, <1>y DEF Solo
<1>5. CASE y.stage = "loading"
  <2>1. /\ LoadsAlone(y, task[p], slot, ready)
        /\ entry # NoRegistry /\ task[p].registry = entry
    BY <1>1, <1>5 DEF SoloOf
  <2>2. p \in Loads /\ p.version \in Versions
    BY <1>1, <2>1 DEF LoadsAlone, RequestTypes
  <2>3. PICK t, m : LoadMove(p, t, m)
    BY <1>1, <2>1, <2>2, LoadGoesOn DEF LoadsAlone
  <2>4. SoloOf(y, task', entry', slot', ready') /\ Keeps(y.loading)
    BY <1>1, <1>5, <2>1, <2>2, <2>3, LoadKeepsAlone DEF LoadsAlone
  <2> QED  BY <1>4, <2>4
<1>6. CASE y.stage = "removing"
  <2>1. /\ RemovesAlone(y, task[p], slot, ready)
        /\ entry # NoRegistry /\ task[p].registry = entry
    BY <1>1, <1>6 DEF SoloOf
  <2>2. task[p].stage # "done" \/ task[p].hooking \cup task[p].stopping # {}
    BY <1>1 DEF Busy
  <2>3. /\ p.kind = "unload" /\ p.version \in Versions \ y.loading
        /\ SoloUnload(p, task[p], slot[p.version])
    BY <1>1, <1>t, <2>1, <2>2 DEF RemovesAlone, Shape
  <2>4. PICK t, m : UnloadMove(p, t, m)
    BY <2>1, <2>3, UnloadGoesOn
  <2>5. SoloOf(y, task', entry', slot', ready') /\ Keeps(y.loading)
    BY <1>1, <1>6, <2>1, <2>3, <2>4, UnloadKeepsAlone DEF RemovesAlone
  <2> QED  BY <1>4, <2>5
<1>7. CASE y.stage = "unloading"
  <2>1. SoloOf(y, task', entry', slot', ready')
    BY <1>7 DEF SoloOf
  <2>2. Keeps(y.loading)
    BY <1>7, <1>y DEF ProgressInv, Keeps
  <2> QED  BY <1>4, <2>1, <2>2
<1> QED  BY <1>1, <1>5, <1>6, <1>7

(* A request alone begins its next operation, or ends.                      *)
LEMMA AloneMoves ==
  ASSUME RegistryInv, RegistryInv', RequestInv, ProgressInv, ReadyBegun,
         NEW r \in Requests, Active(r), Solo(r), NEW x, Moves(r, x), RequestStep(r, x)
  PROVE  (Active(r)' => Solo(r)') /\ Keeps(request[r].loading)
<1>y. PICK y \in RequestTypes : y = request[r]
  BY DEF RequestInv
<1>t. /\ task \in [Ops -> TaskTypes] /\ Loads \subseteq Ops
      /\ \A o \in Ops : Shape(o, task[o], made)
  BY DEF RegistryInv, TypeOK, TaskTypes, TaskShape, Loads
<1>x. x \in RequestTypes /\ request'[r] = x /\ \A q \in Requests : q # r => ~Active(q)'
  BY DEF Moves, Alike, Solo, Active
<1>1. /\ y.stage \in {"loading", "removing", "unloading"}
      /\ SoloOf(y, task, entry, slot, ready) /\ \A p \in Ops : Running(p) => p = y.op
  BY <1>y DEF Active, Solo
<1>2. ASSUME SoloOf(x, task', entry', slot', ready'), \A p \in Ops : Running(p)' => p = x.op
      PROVE  Solo(r)'
  BY <1>x, <1>2 DEF Solo
(* Nothing runs once its operation is done. *)
<1>3. ASSUME y.op \in Ops, task[y.op].stage = "done"
      PROVE  task[y.op].hooking = {} /\ \A p \in Ops : ~Running(p)
  <2>1. task[y.op].hooking \cup task[y.op].stopping = {}
    BY <1>3, <1>t DEF Shape
  <2> QED  BY <1>1, <1>3, <2>1 DEF Running
<1>4. CASE LoadsOne(y, x)
  <2>1. PICK o \in Loads : o = x.op /\ o \in Ops
    BY <1>4, <1>t DEF LoadsOne
  <2>2. /\ y.stage = "loading" /\ x.stage = "loading" /\ x.loading = y.loading
        /\ o.version \in x.loading /\ x.loaded = y.loaded \cup {o.version}
        /\ y.op = NoOp \/ task[y.op].stage = "done"
        /\ BeginLoad(o) /\ o.version \in Versions
    BY <1>4, <1>x, <2>1 DEF LoadsOne, RequestTypes
  <2>3. LoadsAlone(y, task[y.op], slot, ready)
    BY <1>1, <2>2 DEF SoloOf
  <2>4. y.op # NoOp => y.op \in Ops
    BY <1>y DEF RequestTypes
  <2>5. \A p \in Ops : ~Running(p)
    <3>1. CASE y.op = NoOp
      BY <1>1, <3>1, OpsAssumption DEF NoOp
    <3>2. CASE y.op # NoOp
      BY <1>3, <2>2, <2>4, <3>2
    <3> QED  BY <3>1, <3>2
  <2>6. \A w \in y.loaded : slot[w] \in Able(ready)
    BY <2>2, <2>3 DEF LoadsAlone, SoloLoad
  <2>7. PICK t, m : LoadMove(o, t, m)
    BY <2>2, LoadBegins
  <2>8. x.loaded \subseteq x.loading
    BY <2>2, <2>3 DEF LoadsAlone
  <2>9. SoloOf(x, task', entry', slot', ready') /\ Keeps(x.loading)
    BY <1>x, <2>1, <2>2, <2>6, <2>7, <2>8, LoadKeepsAlone
  <2>10. \A p \in Ops : Running(p)' => p = o
    BY <2>1, <2>2, <2>5, <2>7, OthersKept DEF LoadMove
  <2> QED  BY <1>2, <1>y, <2>1, <2>2, <2>9, <2>10
<1>5. CASE Lists(y, x)
  <2>1. /\ y.stage = "loading" /\ y.loaded = y.loading /\ y.op # NoOp /\ task[y.op].stage = "done"
        /\ x.stage = "removing" /\ x.loading = y.loading /\ x.op = y.op
        /\ x.stale = {m.version : m \in Models(Current)} \ y.loading
        /\ slot' = slot /\ UNCHANGED <<entry, ready, task>>
    BY <1>5, SlotsRead DEF Lists
  <2>2. LoadsAlone(y, task[y.op], slot, ready) /\ y.op \in Loads
    BY <1>1, <2>1 DEF SoloOf, LoadsAlone
  <2>3. \A w \in y.loading : slot[w] \in Able(ready)
    BY <2>1, <2>2 DEF LoadsAlone, SoloLoad
  <2>4. \A v \in Slots : slot[v] # NoModel => v \in x.loading \cup x.stale
    <3>1. \A v \in Slots : slot[v] # NoModel => slot[v] \in Models(Current) /\ slot[v].version = v
      BY SlotFacts
    <3> QED  BY <2>1, <3>1
  <2>5. RemovesAlone(x, task[y.op], slot, ready)
    BY <1>t, <2>1, <2>2, <2>3, <2>4 DEF RemovesAlone
  <2>6. SoloOf(x, task, entry, slot, ready)
    BY <1>1, <2>1, <2>5 DEF SoloOf
  <2>7. \A p \in Ops : Running(p)' => p = x.op
    BY <1>1, <2>1 DEF Running
  <2>8. Keeps(y.loading)
    BY <2>1 DEF Keeps, Able
  <2>9. SoloOf(x, task', entry', slot', ready')
    BY <2>1, <2>6
  <2> QED  BY <1>2, <1>y, <2>7, <2>8, <2>9
<1>6. CASE RemovesOne(y, x)
  <2>1. PICK o \in Ops : o = x.op
    BY <1>6 DEF RemovesOne
  <2>2. /\ y.stage = "removing" /\ x.stage = "removing" /\ x.loading = y.loading
        /\ task[y.op].stage = "done" /\ o.kind = "unload" /\ o.version \in y.stale /\ o.version \in Versions
        /\ BeginUnload(o) /\ x.stale = y.stale \ {o.version}
    BY <1>6, <2>1 DEF RemovesOne
  <2>3. RemovesAlone(y, task[y.op], slot, ready) /\ y.op \in Ops
    BY <1>1, <2>2 DEF SoloOf, RemovesAlone
  <2>4. task[y.op].hooking = {} /\ \A p \in Ops : ~Running(p)
    BY <1>3, <2>2, <2>3
  <2>5. PICK t : UnloadMove(o, t, slot[o.version]) /\ t.hooking # {}
    BY <2>2, UnloadBegins
  <2>6. \A v \in Slots : slot[v] # NoModel => v \in x.loading \cup x.stale \/ v = o.version
    BY <2>2, <2>3, <2>4 DEF RemovesAlone
  <2>7. /\ o.version \in Versions \ x.loading /\ x.stale \cap x.loading = {}
        /\ \A w \in x.loading : slot[w] \in Able(ready)
    BY <2>2, <2>3 DEF RemovesAlone
  <2>8. PICK m : m = slot[o.version]
    OBVIOUS
  <2>9. UnloadMove(o, t, m)
    BY <2>5, <2>8
  <2>10. SoloOf(x, task', entry', slot', ready') /\ Keeps(x.loading)
    BY <1>x, <2>1, <2>2, <2>5, <2>6, <2>7, <2>9, UnloadKeepsAlone
  <2>11. \A p \in Ops : Running(p)' => p = o
    BY <2>2, <2>4, <2>9, OthersKept DEF UnloadMove
  <2> QED  BY <1>2, <1>y, <2>1, <2>2, <2>10, <2>11
<1>7. CASE Closes(y, x) \/ Fails(y, x)
  <2>1. x.stage \in {"done", "failed"} /\ UNCHANGED vars
    BY <1>7, <1>y DEF Closes, Fails, RequestTypes
  <2>2. ~Active(r)'
    BY <1>x, <2>1 DEF Active
  <2>3. Keeps(y.loading)
    BY <2>1, SlotsRead DEF Keeps, Able
  <2> QED  BY <1>y, <2>2, <2>3
<1>8. y.stage # "idle"
  BY <1>1
<1> QED  BY <1>4, <1>5, <1>6, <1>7, <1>8, <1>y DEF RequestStep

(* A request begins when all is quiet: nobody else is under way.             *)
LEMMA AloneStarts ==
  ASSUME RegistryInv, RequestInv, OpsBegun, NEW r \in Requests, request[r].stage = "idle", Quiet, NoneDue,
         NEW x, Moves(r, x), RequestStep(r, x), Active(r)'
  PROVE  Solo(r)'
<1>t. task \in [Ops -> TaskTypes]
  BY DEF RegistryInv, TypeOK, TaskTypes
<1>y. PICK y \in RequestTypes : y = request[r]
  BY DEF RequestInv
<1>1. ASSUME NEW q \in Requests, q # r, Active(q)
      PROVE  FALSE
  <2>1. request[q].op \in Ops \cup {NoOp}
    BY DEF RequestInv, RequestTypes
  <2>2. /\ request[q].op # NoOp
        /\ task[request[q].op].stage \notin {"done", "failed", "unretired"}
    BY <1>1 DEF NoneDue, Due, Ended, Raised
  <2>3. task[request[q].op].stage # "idle"
    BY <1>1, <2>2 DEF OpsBegun
  <2>4. Running(request[q].op)
    BY <2>2, <2>3 DEF Running
  <2> QED  BY <2>1, <2>2, <2>4 DEF Quiet
<1>x. /\ x \in RequestTypes /\ request'[r] = x /\ x.stage \in {"loading", "removing", "unloading"}
      /\ \A q \in Requests : q # r => ~Active(q)'
  BY <1>1 DEF Moves, Alike, Active
<1>2. CASE Starts(x)
  <2>1. x.stage = "loading" /\ x.op = NoOp /\ x.loaded = {} /\ UNCHANGED vars
    BY <1>2, <1>x DEF Starts
  <2>2. \A p \in Ops : ~Running(p)'
    BY <2>1 DEF Quiet, Running, vars
  <2>3. SoloOf(x, task', entry', slot', ready')
    BY <2>1 DEF SoloOf, LoadsAlone
  <2> QED  BY <1>x, <2>2, <2>3 DEF Solo
<1>3. CASE Purges(x)
  <2>1. PICK o \in Ops : o = x.op /\ BeginUnload(o) /\ x.stage = "unloading"
    BY <1>3 DEF Purges
  <2>2. PICK t : task' = [task EXCEPT ![o] = t]
    BY <2>1, BeginUnloadTask
  <2>3. \A p \in Ops : Running(p)' => p = o
    BY <1>t, <2>2 DEF Quiet, Running
  <2>4. SoloOf(x, task', entry', slot', ready')
    BY <2>1 DEF SoloOf
  <2> QED  BY <1>x, <2>1, <2>3, <2>4 DEF Solo
<1>4. ~LoadsOne(y, x) /\ ~Lists(y, x) /\ ~RemovesOne(y, x) /\ ~Closes(y, x) /\ ~Fails(y, x)
  BY <1>x, <1>y DEF LoadsOne, Lists, RemovesOne, Closes, Fails, RequestTypes
<1> QED  BY <1>2, <1>3, <1>4, <1>y DEF RequestStep

(* Another request that is asked fails at once, or ends its being alone.     *)
LEMMA AloneOthers ==
  ASSUME RegistryInv, RequestInv, NEW r \in Requests, Active(r), Solo(r),
         NEW q \in Requests, q # r, NEW x, Moves(q, x), RequestStep(q, x),
         request[q].stage = "idle" => request'[q].stage \in {"idle", "failed"}
  PROVE  Solo(r)' /\ Keeps(request[r].loading)
<1>y. PICK y \in RequestTypes : y = request[q]
  BY DEF RequestInv
<1>1. y.stage \notin {"loading", "removing", "unloading"} /\ x = request'[q]
  BY <1>y DEF Solo, Active, Moves
<1>2. ~LoadsOne(y, x) /\ ~Lists(y, x) /\ ~RemovesOne(y, x) /\ ~Closes(y, x)
  BY <1>1 DEF LoadsOne, Lists, RemovesOne, Closes
<1>3. x.stage = "failed" /\ UNCHANGED vars
  <2>1. CASE y.stage = "idle" /\ (Starts(x) \/ Purges(x))
    BY <1>1, <1>y, <2>1 DEF Starts, Purges
  <2>2. CASE Fails(y, x)
    BY <1>y, <2>2 DEF Fails, RequestTypes
  <2> QED  BY <1>2, <1>y, <2>1, <2>2 DEF RequestStep
<1>4. slot' = slot /\ UNCHANGED <<entry, ready, task>>
  BY <1>3, SlotsRead
<1>5. /\ Alike(request'[r], request[r])
      /\ \A p \in Requests : p # r => ~Active(p)'
  BY <1>1, <1>3 DEF Moves, Alike, Solo, Active
<1>6. \A p \in Ops : Running(p)' => p = request'[r].op
  BY <1>4, <1>5 DEF Solo, Running, Alike
<1>7. PICK z, w : z = request[r] /\ w = request'[r]
  OBVIOUS
<1>8. SoloOf(z, task, entry, slot, ready) /\ Alike(w, z)
  BY <1>5, <1>7 DEF Solo
<1>9. SoloOf(w, task, entry, slot, ready)
  BY <1>8 DEF SoloOf, Alike, LoadsAlone, RemovesAlone
<1>10. SoloOf(w, task', entry', slot', ready')
  BY <1>4, <1>9
<1>11. Keeps(request[r].loading)
  BY <1>4 DEF Keeps, Able
<1> QED  BY <1>5, <1>6, <1>7, <1>10, <1>11 DEF Solo

(* The operation of a request under way has begun.                          *)
LEMMA OpsBegunStep ==
  ASSUME RegistryInv, RequestInv, OpsBegun, ServingNext
  PROVE  OpsBegun'
<1>t. task \in [Ops -> TaskTypes]
  BY DEF RegistryInv, TypeOK, TaskTypes
<1>n. \A o \in Ops : task[o].stage # "idle" => task'[o].stage # "idle"
  BY NeverIdle
<1>r. \A q \in Requests : request[q].op \in Ops \cup {NoOp}
  BY DEF RequestInv, RequestTypes
<1>1. ASSUME NEW q \in Requests, Alike(request'[q], request[q]), Active(q)', request'[q].op # NoOp
      PROVE  task'[request'[q].op].stage # "idle"
  BY <1>1, <1>n, <1>r DEF OpsBegun, Active, Alike
<1>2. CASE UNCHANGED request
  <2>1. \A q \in Requests : Alike(request'[q], request[q])
    BY <1>2 DEF Alike
  <2> QED  BY <1>1, <2>1 DEF OpsBegun
<1>3. ASSUME NEW r \in Requests, NEW x, Moves(r, x), RequestStep(r, x)
      PROVE  OpsBegun'
  <2>y. PICK y \in RequestTypes : y = request[r]
    BY DEF RequestInv
  <2>1. ASSUME x.stage \in {"loading", "removing", "unloading"}, x.op # NoOp
        PROVE  task'[x.op].stage # "idle"
    <3>1. CASE LoadsOne(y, x)
      <4>1. PICK o \in Ops : o = x.op /\ BeginLoad(o)
        BY <3>1 DEF LoadsOne, Loads
      <4>2. PICK t : task' = [task EXCEPT ![o] = t] /\ t.stage \in {"hook", "failed"}
        BY <4>1, BeginLoadTask
      <4> QED  BY <1>t, <4>1, <4>2
    <3>2. CASE RemovesOne(y, x) \/ Purges(x)
      <4>1. PICK o \in Ops : o = x.op /\ BeginUnload(o)
        BY <3>2 DEF RemovesOne, Purges
      <4>2. PICK t : task' = [task EXCEPT ![o] = t] /\ t.stage = "unload"
        BY <4>1, BeginUnloadTask
      <4> QED  BY <1>t, <4>1, <4>2
    <3>3. CASE Lists(y, x)
      <4>1. y.stage = "loading" /\ x.op = y.op
        BY <3>3 DEF Lists
      <4>2. x.op \in Ops /\ task[x.op].stage # "idle"
        BY <1>r, <2>1, <2>y, <4>1 DEF OpsBegun, Active
      <4> QED  BY <1>n, <4>2
    <3>4. ~Starts(x) /\ ~Closes(y, x) /\ ~Fails(y, x)
      BY <2>1, <2>y DEF Starts, Closes, Fails, RequestTypes
    <3> QED  BY <1>3, <2>y, <3>1, <3>2, <3>3, <3>4 DEF RequestStep
  <2>2. \A q \in Requests : q # r => Alike(request'[q], request[q])
    BY <1>3 DEF Moves
  <2>3. request'[r] = x
    BY <1>3 DEF Moves
  <2> QED  BY <1>1, <2>1, <2>2, <2>3 DEF OpsBegun, Active
<1> QED  BY <1>2, <1>3, RequestSteps

(* A request that is alone after a step: what it had served of its folder    *)
(* still is, and it knows what it has done.                                 *)
LEMMA AloneStays ==
  ASSUME RegistryInv, RegistryInv', RequestInv, ProgressInv, AloneInv, ServingNext,
         NEW r \in Requests, request'[r].alone
  PROVE  /\ Active(r) => Keeps(request[r].loading)
         /\ Active(r)' => Solo(r)'
<1>1. /\ Active(r) => /\ request[r].alone
                      /\ \A q \in Requests : request[q].stage = "idle" =>
                           request'[q].stage \in {"idle", "failed"}
      /\ Active(r)' /\ ~Active(r) => request[r].stage = "idle" /\ Quiet /\ NoneDue
  <2>1. HandlersNext \/ UNCHANGED request
    BY DEF ServingNext
  <2> QED  BY <2>1, AloneBefore
<1>2. CASE Active(r)
  <2>1. Solo(r) /\ ReadyBegun
    BY <1>1, <1>2 DEF AloneInv
  <2>2. CASE UNCHANGED request /\ (ReadDefault \/ UNCHANGED vars)
    <3>1. slot' = slot /\ UNCHANGED <<entry, ready, task>>
      BY <2>2, SlotsRead
    <3>2. \A p \in Ops : Running(p)' <=> Running(p)
      BY <3>1 DEF Running
    <3>3. \A q \in Requests : Active(q)' <=> Active(q)
      BY <2>2 DEF Active
    <3>4. SoloOf(request'[r], task', entry', slot', ready')
      BY <2>1, <2>2, <3>1 DEF Solo
    <3>5. Solo(r)'
      BY <2>1, <2>2, <3>2, <3>3, <3>4 DEF Solo
    <3>6. Keeps(request[r].loading)
      BY <3>1 DEF Keeps, Able
    <3> QED  BY <3>5, <3>6
  <2>3. ASSUME UNCHANGED request, NEW p \in Ops, GoOn(p)
        PROVE  Solo(r)' /\ Keeps(request[r].loading)
    BY <1>2, <2>1, <2>3, AloneGoesOn
  <2>4. ASSUME NEW q \in Requests, NEW x, Moves(q, x), RequestStep(q, x)
        PROVE  (Active(r)' => Solo(r)') /\ Keeps(request[r].loading)
    <3>1. CASE q = r
      BY <1>2, <2>1, <2>4, <3>1, AloneMoves
    <3>2. CASE q # r
      BY <1>1, <1>2, <2>1, <2>4, <3>2, AloneOthers
    <3> QED  BY <3>1, <3>2
  <2> QED  BY <2>2, <2>3, <2>4, RequestSteps
<1>3. CASE ~Active(r) /\ Active(r)'
  <2>1. request[r].stage = "idle" /\ Quiet /\ NoneDue /\ OpsBegun
    BY <1>1, <1>3 DEF AloneInv
  <2>2. ~UNCHANGED request
    BY <1>3 DEF Active
  <2>3. PICK q \in Requests : \E x : Moves(q, x) /\ RequestStep(q, x)
    BY <2>2, RequestSteps
  <2>4. PICK x : Moves(q, x) /\ RequestStep(q, x)
    BY <2>3
  <2>5. q = r
    BY <1>3, <2>4 DEF Moves, Alike, Active
  <2> QED  BY <1>3, <2>1, <2>4, <2>5, AloneStarts
<1> QED  BY <1>2, <1>3

LEMMA AloneStep ==
  ASSUME RegistryInv, RegistryInv', RequestInv, ProgressInv, AloneInv, ServingNext, [Next]_vars
  PROVE  AloneInv'
<1>1. ReadyBegun' /\ OpsBegun'
  BY ReadyBegunStep, OpsBegunStep DEF AloneInv
<1> QED  BY <1>1, AloneStays DEF AloneInv

LEMMA AloneAlways == DataSpec => []DataInv /\ []ProgressInv /\ []AloneInv
<1>1. InitData => AloneInv
  <2>1. SUFFICES ASSUME InitData  PROVE AloneInv
    OBVIOUS
  <2>2. \A p \in Ops : Touched(task[p]) = {NoModel}
    BY <2>1 DEF InitData, InitHandlers, Init, Touched, Idle
  <2>3. ReadyBegun
    BY <2>1, <2>2, ObjectParts, OpsAssumption DEF InitData, InitHandlers, Init, ReadyBegun, Loads
  <2> QED  BY <2>1, <2>3 DEF InitData, InitHandlers, AloneInv, OpsBegun, Active, Asked
<1>2. DataInv /\ DataInv' /\ ProgressInv /\ AloneInv /\ [DataNext]_dataVars => AloneInv'
  <2>1. DataInv /\ [DataNext]_dataVars => ServingNext /\ [Next]_vars
    BY ServingStep, DataStep
  <2> QED  BY <2>1, AloneStep DEF DataInv
<1> QED  BY <1>1, <1>2, ServingAlways, PTL DEF DataSpec

(* What is served, seen from the slots. *)
LEMMA ServedSlots ==
  ASSUME RegistryInv
  PROVE  /\ \A S : NoModel \notin S => VersionsIn(S) = {v \in Versions : slot[v] \in S}
         /\ {m.version : m \in Models(Current)} = {v \in Slots : slot[v] # NoModel}
<1>v. Unversioned \notin Versions
  BY DEF Unversioned, Versions
<1>1. \A v \in Versions : slot[v] = Current.versions[v]
  BY <1>v DEF slot, Slot, Slots
<1>2. CASE entry = NoRegistry
  <2>1. \A v \in Versions : slot[v] = NoModel
    BY <1>1, <1>2 DEF Current, NoVersions
  <2> QED  BY <1>2, <2>1, SlotFacts DEF VersionsIn
<1>3. CASE entry # NoRegistry
  BY <1>1, <1>3, SlotFacts DEF VersionsIn, Current
<1> QED  BY <1>2, <1>3

LEMMA ServedNext ==
  RegistryInv => /\ VersionsIn(Fit) = {v \in Versions : slot[v] \in Fit}
                 /\ VersionsIn(ready) = {v \in Versions : slot[v] \in ready}
<1> SUFFICES ASSUME RegistryInv
             PROVE  /\ VersionsIn(Fit) = {v \in Versions : slot[v] \in Fit}
                    /\ VersionsIn(ready) = {v \in Versions : slot[v] \in ready}
  OBVIOUS
<1>1. NoModel \notin Fit /\ NoModel \notin ready
  BY FitAreModels DEF Fit
<1> QED  BY <1>1, ServedSlots

-----------------------------------------------------------------------------
(* A load of a folder that nothing overlapped leaves the versions it found   *)
(* and no others, whatever was registered before and whatever calls look up *)
(* meanwhile (handlers/model_repository.py:82).  Each of them is ready, or  *)
(* its own load() returned False (registry.py:177, :195).                   *)
THEOREM FolderIsServed == DataSpec => FolderServed
<1>1. ASSUME DataInv, ProgressInv, AloneInv, [DataNext]_dataVars,
             NEW r \in Requests, request[r].stage = "removing", request[r].alone, request'[r].stage = "done"
      PROVE  /\ VersionsIn(Fit) = request[r].loading
             /\ {m.version : m \in Models(Current)} = request[r].loading
  <2>1. RegistryInv /\ RequestInv /\ ServingNext
    BY <1>1, ServingStep DEF DataInv
  <2>y. PICK y \in RequestTypes : y = request[r]
    BY <2>1 DEF RequestInv
  <2>2. ~UNCHANGED request
    BY <1>1
  <2>3. PICK q \in Requests : \E x : Moves(q, x) /\ RequestStep(q, x)
    BY <2>1, <2>2, RequestSteps
  <2>4. PICK x : Moves(q, x) /\ RequestStep(q, x)
    BY <2>3
  <2>5. q = r /\ x.stage = "done"
    BY <1>1, <2>4 DEF Moves, Alike
  <2>6. y.stale = {} /\ task[y.op].stage = "done" /\ y.stage = "removing"
    <3>1. Closes(y, x)
      BY <1>1, <2>4, <2>5, <2>y DEF RequestStep, LoadsOne, Lists, RemovesOne, Fails, RequestTypes
    <3> QED  BY <1>1, <2>y, <3>1 DEF Closes
  <2>7. RemovesAlone(y, task[y.op], slot, ready)
    BY <1>1, <2>6, <2>y DEF AloneInv, Active, Solo, SoloOf
  <2>8. task[y.op].hooking = {}
    BY <2>1, <2>6, <2>7 DEF RemovesAlone, RegistryInv, TaskShape, Shape
  <2>9. \A v \in Slots : slot[v] # NoModel => v \in y.loading
    BY <2>6, <2>7, <2>8 DEF RemovesAlone
  <2>10. y.loading \subseteq Versions /\ Versions \subseteq Slots /\ \A v \in y.loading : slot[v] \in Fit
    BY <2>1, <2>7, FitAreModels DEF RemovesAlone, RequestTypes, Slots
  <2>11. NoModel \notin Fit
    BY <2>1, FitAreModels
  <2>12. VersionsIn(Fit) = {v \in Versions : slot[v] \in Fit}
    BY <2>1, ServedNext
  <2> QED  BY <2>1, <2>9, <2>10, <2>11, <2>12, <2>y, ServedSlots
<1>2. DataInv /\ ProgressInv /\ AloneInv /\ [DataNext]_dataVars =>
        [\A r \in Requests :
           request[r].stage = "removing" /\ request[r].alone /\ request'[r].stage = "done"
             => /\ VersionsIn(Fit) = request[r].loading
                /\ {m.version : m \in Models(Current)} = request[r].loading]_handlerVars
  BY <1>1
<1> QED  BY <1>2, AloneAlways, PTL DEF DataSpec, FolderServed

(* While a folder is loaded again and nothing else is under way, a version   *)
(* of it that was ready stays ready at every step, whichever hook or load    *)
(* fails ("ensure that at least one is available", registry.py:193) and     *)
(* however the old model's unload() ends - unless the new model's load()    *)
(* returned False, which the registry does not look at (registry.py:195).   *)
THEOREM FolderKeepsServing == DataSpec => KeepsServing
<1>1. ASSUME DataInv, DataInv', ProgressInv, AloneInv, [DataNext]_dataVars,
             NEW r \in Requests, Active(r), request'[r].alone
      PROVE  VersionsIn(ready) \cap request[r].loading \subseteq VersionsIn(Fit)'
  <2>1. RegistryInv /\ RegistryInv' /\ RequestInv /\ ServingNext
    BY <1>1, ServingStep DEF DataInv
  <2>2. Keeps(request[r].loading)
    BY <1>1, <2>1, AloneStays
  <2>3. VersionsIn(ready) = {v \in Versions : slot[v] \in ready}
    BY <2>1, ServedNext
  <2>4. (VersionsIn(Fit) = {v \in Versions : slot[v] \in Fit})'
    BY <2>1, ServedNext, PTL
  <2>5. Versions' = Versions
    BY DEF Versions
  <2>6. Fit' = Able(ready')
    BY DEF Fit, Able
  <2> QED  BY <2>2, <2>3, <2>4, <2>5, <2>6 DEF Keeps
<1>2. DataInv /\ DataInv' /\ ProgressInv /\ AloneInv /\ [DataNext]_dataVars =>
        [\A r \in Requests :
           Active(r) /\ request'[r].alone
             => VersionsIn(ready) \cap request[r].loading \subseteq VersionsIn(Fit)']_handlerVars
  BY <1>1
<1> QED  BY <1>2, AloneAlways, PTL DEF DataSpec, KeepsServing
=============================================================================
