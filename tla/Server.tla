------------------------------- MODULE Server -------------------------------
(***************************************************************************)
(* mlserver/server.py with the REST, gRPC, Kafka and metrics servers it     *)
(* starts and stops: startup with loads that may fail, calls that are under *)
(* way when the server stops, and stops that overlap.                       *)
(*                                                                         *)
(* stop() runs as a task of its own for every signal, and inside of start() *)
(* when a model fails to load.  It goes through the pools and the servers   *)
(* one by one, and suspends at each.                                        *)
(***************************************************************************)
EXTENDS Integers, FiniteSets

CONSTANTS
  Models,         (* the models start() loads                              *)
  Calls,          (* [id, via]: inference calls and the server they come to *)
  MaxSignals      (* bound: signals received                               *)

ASSUME CallsAssumption == \A c \in Calls : c.via \in {"rest", "grpc", "kafka"}
ASSUME SignalsAssumption == MaxSignals \in Nat

Servers == {"rest", "grpc", "kafka", "metrics"}
Stops == 0..MaxSignals   (* 0 is the stop() inside of start() *)

VARIABLES
  parallel,       (* settings.parallel_workers                             *)
  server,         (* each server, seen from its task                       *)
  forced,         (* uvicorn's force_exit of the REST server               *)
  producer,       (* whether Kafka's producer is running                   *)
  pool,           (* the inference pools, all together                     *)
  model,          (* the load of each model                                *)
  startup,        (* MultiModelRegistry._startup_complete                  *)
  main,           (* where start() is                                      *)
  stop,           (* where each stop() is                                  *)
  call            (* where each call is                                    *)

vars == <<parallel, server, forced, producer, pool, model, startup, main, stop, call>>

(* What a call ends with: "unsent" is an answer Kafka's producer refuses,   *)
(* and over Kafka an error is only logged, there is no answer.              *)
Ends == {"answered", "error", "cancelled", "unsent"}

TypeOK ==
  /\ parallel \in BOOLEAN /\ forced \in BOOLEAN /\ producer \in BOOLEAN /\ startup \in BOOLEAN
  /\ server \in [Servers -> {"serving", "draining", "closed"}]
  /\ pool \in {"open", "closing", "closed"}
  /\ model \in [Models -> {"loading", "loaded", "failed", "lost"}]
  /\ main \in {"loading", "stopping", "waiting", "returned"}
  /\ stop \in [Stops -> {"none", "pool", "closing", "kafka", "producer", "grpc", "rest", "metrics",
                         "done", "raised"}]
  /\ call \in [Calls -> {"idle", "predicting", "sending", "lost"} \cup Ends]
  /\ ~parallel => pool = "open" /\ ~\E c \in Calls : call[c] = "lost"

(* start() up to its first suspension: the tasks of the servers run before  *)
(* any load ends and before any signal is handled.                          *)
Init ==
  /\ parallel \in BOOLEAN
  /\ server = [s \in Servers |-> "serving"]
  /\ forced = FALSE /\ producer = TRUE
  /\ pool = "open"
  /\ model = [m \in Models |-> "loading"]
  /\ startup = FALSE
  /\ main = "loading"
  /\ stop = [t \in Stops |-> "none"]
  /\ call = [c \in Calls |-> "idle"]

-----------------------------------------------------------------------------
(* Startup.                                                                 *)

Load(m, result) ==
  /\ model[m] = "loading"
  /\ result \in {"loaded", "failed"}
  /\ model' = [model EXCEPT ![m] = result]
  /\ UNCHANGED <<parallel, server, forced, producer, pool, startup, main, stop, call>>

(* Mutant: the start is complete whether or not the loads succeed. *)
FinishStartupAnyway ==
  /\ main = "loading"
  /\ \A m \in Models : model[m] \in {"loaded", "failed"}
  /\ startup' = TRUE
  /\ main' = "waiting"
  /\ UNCHANGED <<parallel, server, forced, producer, pool, model, stop, call>>

FinishStartup ==
  /\ main = "loading"
  /\ \A m \in Models : model[m] = "loaded"
  /\ startup' = TRUE
  /\ main' = "waiting"
  /\ UNCHANGED <<parallel, server, forced, producer, pool, model, stop, call>>

(* gather raises the first failure, and leaves the other loads running. *)
FailStartup ==
  /\ main = "loading"
  /\ \E m \in Models : model[m] = "failed"
  /\ main' = "stopping"
  /\ stop' = [stop EXCEPT ![0] = "pool"]
  /\ UNCHANGED <<parallel, server, forced, producer, pool, model, startup, call>>

AwaitServers ==
  /\ main = "stopping"
  /\ stop[0] \in {"done", "raised"}
  /\ main' = "waiting"
  /\ UNCHANGED <<parallel, server, forced, producer, pool, model, startup, stop, call>>

(* `await servers_task`: start() ends with the last of the servers. *)
Return ==
  /\ main = "waiting"
  /\ \A s \in Servers : server[s] = "closed"
  /\ main' = "returned"
  /\ UNCHANGED <<parallel, server, forced, producer, pool, model, startup, stop, call>>

-----------------------------------------------------------------------------
(* Calls.                                                                   *)

(* A call comes in.  While the pools are being closed some workers do not   *)
(* take it any more, and once they are closed none does.                    *)
BeginCall(c) ==
  /\ call[c] = "idle"
  /\ server[c.via] = "serving"
  /\ \E begun \in (IF parallel /\ pool # "open" THEN {"error"} ELSE {})
                    \cup (IF parallel /\ pool = "closed" THEN {} ELSE {"predicting"}) :
       call' = [call EXCEPT ![c] = begun]
  /\ UNCHANGED <<parallel, server, forced, producer, pool, model, startup, main, stop>>

(* The data plane returns, and the answer goes out or to Kafka's producer;  *)
(* or it raises, for the client or for the callback that logs it.           *)
EndPredict(c) ==
  /\ call[c] = "predicting"
  /\ \/ call' = [call EXCEPT ![c] = IF c.via = "kafka" THEN "sending" ELSE "answered"]
     \/ call' = [call EXCEPT ![c] = "error"]
  /\ UNCHANGED <<parallel, server, forced, producer, pool, model, startup, main, stop>>

(* Mutant: an answer waits for a producer that is gone. *)
SendRetries(c) ==
  /\ call[c] = "sending"
  /\ producer
  /\ call' = [call EXCEPT ![c] = "answered"]
  /\ UNCHANGED <<parallel, server, forced, producer, pool, model, startup, main, stop>>

(* producer.send_and_wait(), which raises once the producer is closed. *)
Send(c) ==
  /\ call[c] = "sending"
  /\ call' = [call EXCEPT ![c] = IF producer THEN "answered" ELSE "unsent"]
  /\ UNCHANGED <<parallel, server, forced, producer, pool, model, startup, main, stop>>

-----------------------------------------------------------------------------
(* Stopping.                                                                *)

(* The handler of a signal makes a task of stop(). *)
Signal(t) ==
  /\ t # 0
  /\ stop[t] = "none"
  /\ \A u \in 1..(t - 1) : stop[u] # "none"
  /\ stop' = [stop EXCEPT ![t] = "pool"]
  /\ UNCHANGED <<parallel, server, forced, producer, pool, model, startup, main, call>>

At(t, here) == stop[t] = here
Go(t, there) == stop' = [stop EXCEPT ![t] = there]

SkipPool(t) ==
  /\ At(t, "pool") /\ (~parallel \/ pool = "closed")
  /\ Go(t, "kafka")
  /\ UNCHANGED <<parallel, server, forced, producer, pool, model, startup, main, call>>

(* Mutant: the pools are closed also if there are none. *)
BeginClosePoolAlways(t) ==
  /\ At(t, "pool") /\ pool # "closed"
  /\ Go(t, "closing")
  /\ pool' = "closing"
  /\ UNCHANGED <<parallel, server, forced, producer, model, startup, main, call>>

(* InferencePoolRegistry.close up to its first suspension. *)
BeginClosePool(t) ==
  /\ At(t, "pool") /\ parallel /\ pool # "closed"
  /\ Go(t, "closing")
  /\ pool' = "closing"
  /\ UNCHANGED <<parallel, server, forced, producer, model, startup, main, call>>

(* The pools are closed: what a worker was busy with gets an exception, if  *)
(* its response is read before the loop of responses is cancelled; the rest *)
(* is lost, with nobody left to resolve its future.                         *)
FinishClosePool(t) ==
  /\ At(t, "closing") /\ pool = "closing"
  /\ Go(t, "kafka")
  /\ pool' = "closed"
  /\ \E answered \in SUBSET {c \in Calls : call[c] = "predicting"} :
       call' = [c \in Calls |-> IF c \in answered THEN "error"
                                ELSE IF call[c] = "predicting" THEN "lost" ELSE call[c]]
  /\ \E heard \in SUBSET {m \in Models : model[m] = "loading"} :
       model' = [m \in Models |-> IF m \in heard THEN "failed"
                                  ELSE IF model[m] = "loading" THEN "lost" ELSE model[m]]
  /\ UNCHANGED <<parallel, server, forced, producer, startup, main>>

(* Another stop() has closed them meanwhile: RuntimeError from the loop over *)
(* the workers, KeyError for a pool that is gone, or nothing.                *)
FindPoolClosed(t) ==
  /\ At(t, "closing") /\ pool = "closed"
  /\ \E there \in {"raised", "kafka"} : Go(t, there)
  /\ UNCHANGED <<parallel, server, forced, producer, pool, model, startup, main, call>>

(* consumer.stop(): the loop over the messages ends, its tasks do not. *)
StopConsumer(t) ==
  /\ At(t, "kafka")
  /\ Go(t, "producer")
  /\ server' = [server EXCEPT !["kafka"] = "closed"]
  /\ UNCHANGED <<parallel, forced, producer, pool, model, startup, main, call>>

StopProducer(t) ==
  /\ At(t, "producer")
  /\ Go(t, "grpc")
  /\ producer' = FALSE
  /\ UNCHANGED <<parallel, server, forced, pool, model, startup, main, call>>

InFlight(s) == {c \in Calls : c.via = s /\ call[c] \in {"predicting", "sending", "lost"}}

(* Mutant: the calls under way have as long as they like. *)
BeginStopGrpcWaits(t) ==
  /\ At(t, "grpc")
  /\ InFlight("grpc") = {}
  /\ server' = [server EXCEPT !["grpc"] = "draining"]
  /\ UNCHANGED <<parallel, forced, producer, pool, model, startup, main, stop, call>>

(* grpc's stop(grace=5): no new calls; those under way have the time to end. *)
BeginStopGrpc(t) ==
  /\ At(t, "grpc")
  /\ server["grpc"] = "serving"
  /\ server' = [server EXCEPT !["grpc"] = "draining"]
  /\ UNCHANGED <<parallel, forced, producer, pool, model, startup, main, stop, call>>

(* Then they are cancelled. *)
FinishStopGrpc(t) ==
  /\ At(t, "grpc")
  /\ server["grpc"] # "serving"
  /\ Go(t, "rest")
  /\ server' = [server EXCEPT !["grpc"] = "closed"]
  /\ call' = [c \in Calls |-> IF c \in InFlight("grpc") THEN "cancelled" ELSE call[c]]
  /\ UNCHANGED <<parallel, forced, producer, pool, model, startup, main>>

(* uvicorn's handle_exit returns at once; a second SIGINT forces the exit. *)
StopRest(t) ==
  /\ At(t, "rest")
  /\ Go(t, "metrics")
  /\ IF server["rest"] = "serving"
     THEN server' = [server EXCEPT !["rest"] = "draining"] /\ UNCHANGED forced
     ELSE \E sigint \in BOOLEAN : forced' = (forced \/ sigint) /\ UNCHANGED server
  /\ UNCHANGED <<parallel, producer, pool, model, startup, main, call>>

(* uvicorn's serve() waits for its calls. *)
DrainRest ==
  /\ server["rest"] = "draining"
  /\ InFlight("rest") = {} \/ forced
  /\ server' = [server EXCEPT !["rest"] = "closed"]
  /\ UNCHANGED <<parallel, forced, producer, pool, model, startup, main, stop, call>>

StopMetrics(t) ==
  /\ At(t, "metrics")
  /\ Go(t, "done")
  /\ server' = [server EXCEPT !["metrics"] = "closed"]
  /\ UNCHANGED <<parallel, forced, producer, pool, model, startup, main, call>>

-----------------------------------------------------------------------------
Stop(t) ==
  \/ SkipPool(t) \/ BeginClosePool(t) \/ FinishClosePool(t) \/ FindPoolClosed(t)
  \/ StopConsumer(t) \/ StopProducer(t)
  \/ BeginStopGrpc(t) \/ FinishStopGrpc(t)
  \/ StopRest(t) \/ StopMetrics(t)

Next ==
  \/ \E m \in Models, result \in {"loaded", "failed"} : Load(m, result)
  \/ FinishStartup \/ FailStartup \/ AwaitServers \/ Return
  \/ \E c \in Calls : BeginCall(c)
  \/ \E c \in Calls : EndPredict(c)
  \/ \E c \in Calls : Send(c)
  \/ \E t \in Stops : Signal(t)
  \/ \E t \in Stops : Stop(t)
  \/ DrainRest

(* Loads and predictions end, the loop runs its tasks, the grace runs out.  *)
(* Nobody has to call or to send a signal.                                  *)
Fairness ==
  /\ \A m \in Models : WF_vars(\E result \in {"loaded", "failed"} : Load(m, result))
  /\ WF_vars(FinishStartup) /\ WF_vars(FailStartup) /\ WF_vars(AwaitServers) /\ WF_vars(Return)
  /\ \A c \in Calls : WF_vars(EndPredict(c)) /\ WF_vars(Send(c))
  /\ \A t \in Stops : WF_vars(Stop(t))
  /\ WF_vars(DrainRest)

Spec == Init /\ [][Next]_vars /\ Fairness

-----------------------------------------------------------------------------
(* Properties.                                                              *)

Stopping == \E t \in Stops : stop[t] # "none"
Lost == (\E c \in Calls : c.via = "rest" /\ call[c] = "lost") \/ (\E m \in Models : model[m] = "lost")

(* "Mark startup complete only if all models loaded successfully"           *)
(* (server.py:135): readiness is never claimed by a server whose start      *)
(* failed, however the loads and a stop interleave.                         *)
StartupMeansLoaded == startup => \A m \in Models : model[m] = "loaded"

(* A server that is told to stop, or that fails to start, ends (server.py:138), *)
(* as long as closing the pools has lost nothing that it waits for.         *)
StopsUnlessLost == Stopping ~> main = "returned" \/ Lost

(* Every call that was taken ends: with an answer or an error, or, once the *)
(* server is told to stop, cancelled or with an answer that is not sent.    *)
(* Only what a worker had in hand may be lost, and over gRPC not even that: *)
(* the grace cancels it (grpc/server.py:129, kafka/server.py:91).           *)
CallsEnd ==
  \A c \in Calls : call[c] = "predicting" ~>
    \/ call[c] \in {"answered", "error"}
    \/ Stopping /\ call[c] \in {"cancelled", "unsent"}
    \/ parallel /\ c.via # "grpc" /\ call[c] = "lost"
=============================================================================
