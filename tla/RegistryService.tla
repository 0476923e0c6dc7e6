--------------------------- MODULE RegistryService ---------------------------
(***************************************************************************)
(* What the registry of one model name promises to its clients: to load a   *)
(* model is one step, in which it takes the place of its version's model,   *)
(* or no step at all if the load fails (a model that says it is not ready   *)
(* takes that place and is not served); what is served otherwise only goes  *)
(* while an unload that covers it is under way, which ends when all of that *)
(* is gone.                                                                 *)
(***************************************************************************)
CONSTANTS
  Loads,          (* loads, each of a version                              *)
  Unready,        (* those whose model may turn out not to be ready        *)
  Unloads         (* unloads of a version, and of every version ("purge")  *)

VARIABLES
  served,         (* the loads whose models are offered and ready          *)
  loaded,         (* the loads that have succeeded                         *)
  unloading       (* the unloads under way                                 *)

vars == <<served, loaded, unloading>>

Init == served = {} /\ loaded = {} /\ unloading = {}

Load(o) ==
  /\ o \notin loaded
  /\ loaded' = loaded \cup {o}
  /\ served' = {p \in served : p.version # o.version} \cup {o}
  /\ UNCHANGED unloading

LoadUnready(o) ==
  /\ o \in Unready /\ o \notin loaded
  /\ loaded' = loaded \cup {o}
  /\ served' = {p \in served : p.version # o.version}
  /\ UNCHANGED unloading

BeginUnload(u) ==
  /\ u \notin unloading
  /\ unloading' = unloading \cup {u}
  /\ UNCHANGED <<served, loaded>>

Covers(u, o) == u.kind = "purge" \/ u.version = o.version

(* An unload without a version may take the default, whatever its version.  *)
Unload(u, o) ==
  /\ u \in unloading /\ o \in served
  /\ Covers(u, o) \/ u.version = 0
  /\ served' = served \ {o}
  /\ UNCHANGED <<loaded, unloading>>

EndUnload(u) ==
  /\ u \in unloading
  /\ \A o \in served : ~Covers(u, o)
  /\ unloading' = unloading \ {u}
  /\ UNCHANGED <<served, loaded>>

Next ==
  \/ \E o \in Loads : Load(o) \/ LoadUnready(o)
  \/ \E u \in Unloads : BeginUnload(u)
  \/ \E u \in Unloads, o \in Loads : Unload(u, o)
  \/ \E u \in Unloads : EndUnload(u)

Spec == Init /\ [][Next]_vars
=============================================================================
