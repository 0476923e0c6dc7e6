---------------------------- MODULE ServerProofs ----------------------------
(***************************************************************************)
(* Proofs about the server's start and stop, for any number of models,      *)
(* calls and signals.                                                       *)
(*                                                                         *)
(* Both invariants are inductive, one after the other: the types, then what *)
(* a complete startup means.                                                *)
(* Each step lemma has a step for every action.                             *)
(***************************************************************************)
EXTENDS Server, TLAPS

(* The first state is typed, and its startup not complete. *)
LEMMA Initially == Init => TypeOK /\ StartupMeansLoaded
<1>1. Init => TypeOK
  <2>. SUFFICES ASSUME Init PROVE TypeOK
    OBVIOUS
  <2>1. \A c \in Calls : call[c] = "idle"
    BY DEF Init
  <2>2. ~\E c \in Calls : call[c] = "lost"
    BY <2>1
  <2>. QED
    BY <2>2 DEF Init, TypeOK
<1>2. Init => StartupMeansLoaded
  BY DEF Init, StartupMeansLoaded
<1>. QED
  BY <1>1, <1>2

(* Every step keeps the types, and pools that do not exist stay untouched.  *)
LEMMA TypeStep == TypeOK /\ [Next]_vars => TypeOK'
<1>. SUFFICES ASSUME TypeOK, [Next]_vars PROVE TypeOK'
  OBVIOUS
<1>1. ASSUME NEW m \in Models, NEW result \in {"loaded", "failed"}, Load(m, result) PROVE TypeOK'
  BY <1>1 DEF Load, TypeOK, Servers, Ends
<1>2. CASE FinishStartup
  BY <1>2 DEF FinishStartup, TypeOK, Servers, Ends
<1>3. CASE FailStartup
  BY <1>3 DEF FailStartup, TypeOK, Servers, Ends
<1>4. CASE AwaitServers
  BY <1>4 DEF AwaitServers, TypeOK, Servers, Ends
<1>5. CASE Return
  BY <1>5 DEF Return, TypeOK, Servers, Ends
<1>6. ASSUME NEW c \in Calls, BeginCall(c) PROVE TypeOK'
  BY <1>6 DEF BeginCall, TypeOK, Servers, Ends
<1>7. ASSUME NEW c \in Calls, EndPredict(c) PROVE TypeOK'
  BY <1>7 DEF EndPredict, TypeOK, Servers, Ends
<1>8. ASSUME NEW c \in Calls, Send(c) PROVE TypeOK'
  BY <1>8 DEF Send, TypeOK, Servers, Ends
<1>9. ASSUME NEW t \in Stops, Signal(t) PROVE TypeOK'
  BY <1>9 DEF Signal, TypeOK, Servers, Ends
<1>10. ASSUME NEW t \in Stops, SkipPool(t) PROVE TypeOK'
  BY <1>10 DEF SkipPool, At, Go, TypeOK, Servers, Ends
<1>11. ASSUME NEW t \in Stops, BeginClosePool(t) PROVE TypeOK'
  BY <1>11 DEF BeginClosePool, At, Go, TypeOK, Servers, Ends
<1>12. ASSUME NEW t \in Stops, FinishClosePool(t) PROVE TypeOK'
  BY <1>12 DEF FinishClosePool, At, Go, TypeOK, Servers, Ends
<1>13. ASSUME NEW t \in Stops, FindPoolClosed(t) PROVE TypeOK'
  BY <1>13 DEF FindPoolClosed, At, Go, TypeOK, Servers, Ends
<1>14. ASSUME NEW t \in Stops, StopConsumer(t) PROVE TypeOK'
  BY <1>14 DEF StopConsumer, At, Go, TypeOK, Servers, Ends
<1>15. ASSUME NEW t \in Stops, StopProducer(t) PROVE TypeOK'
  BY <1>15 DEF StopProducer, At, Go, TypeOK, Servers, Ends
<1>16. ASSUME NEW t \in Stops, BeginStopGrpc(t) PROVE TypeOK'
  BY <1>16 DEF BeginStopGrpc, At, Go, TypeOK, Servers, Ends
<1>17. ASSUME NEW t \in Stops, FinishStopGrpc(t) PROVE TypeOK'
  BY <1>17 DEF FinishStopGrpc, At, Go, TypeOK, Servers, Ends
<1>18. ASSUME NEW t \in Stops, StopRest(t) PROVE TypeOK'
  BY <1>18 DEF StopRest, At, Go, TypeOK, Servers, Ends
<1>19. ASSUME NEW t \in Stops, StopMetrics(t) PROVE TypeOK'
  BY <1>19 DEF StopMetrics, At, Go, TypeOK, Servers, Ends
<1>20. CASE DrainRest
  BY <1>20 DEF DrainRest, TypeOK, Servers, Ends
<1>21. CASE UNCHANGED vars
  BY <1>21 DEF vars, TypeOK
<1>. QED
  BY <1>1, <1>2, <1>3, <1>4, <1>5, <1>6, <1>7, <1>8, <1>9, <1>10, <1>11, <1>12, <1>13, <1>14, <1>15,
     <1>16, <1>17, <1>18, <1>19, <1>20, <1>21 DEF Next, Stop

(* Every step keeps the loads that a complete startup stands for: a load    *)
(* that is over is never lost or repeated.                                  *)
LEMMA StartupStep ==
  TypeOK /\ StartupMeansLoaded /\ [Next]_vars => StartupMeansLoaded'
<1>. SUFFICES ASSUME TypeOK, StartupMeansLoaded, [Next]_vars PROVE StartupMeansLoaded'
  OBVIOUS
<1>1. ASSUME NEW m \in Models, NEW result \in {"loaded", "failed"}, Load(m, result) PROVE StartupMeansLoaded'
  BY <1>1 DEF Load, StartupMeansLoaded, TypeOK
<1>2. CASE FinishStartup
  BY <1>2 DEF FinishStartup, StartupMeansLoaded, TypeOK
<1>3. CASE FailStartup
  BY <1>3 DEF FailStartup, StartupMeansLoaded, TypeOK
<1>4. CASE AwaitServers
  BY <1>4 DEF AwaitServers, StartupMeansLoaded, TypeOK
<1>5. CASE Return
  BY <1>5 DEF Return, StartupMeansLoaded, TypeOK
<1>6. ASSUME NEW c \in Calls, BeginCall(c) PROVE StartupMeansLoaded'
  BY <1>6 DEF BeginCall, StartupMeansLoaded, TypeOK
<1>7. ASSUME NEW c \in Calls, EndPredict(c) PROVE StartupMeansLoaded'
  BY <1>7 DEF EndPredict, StartupMeansLoaded, TypeOK
<1>8. ASSUME NEW c \in Calls, Send(c) PROVE StartupMeansLoaded'
  BY <1>8 DEF Send, StartupMeansLoaded, TypeOK
<1>9. ASSUME NEW t \in Stops, Signal(t) PROVE StartupMeansLoaded'
  BY <1>9 DEF Signal, StartupMeansLoaded, TypeOK
<1>10. ASSUME NEW t \in Stops, SkipPool(t) PROVE StartupMeansLoaded'
  BY <1>10 DEF SkipPool, At, Go, StartupMeansLoaded, TypeOK
<1>11. ASSUME NEW t \in Stops, BeginClosePool(t) PROVE StartupMeansLoaded'
  BY <1>11 DEF BeginClosePool, At, Go, StartupMeansLoaded, TypeOK
<1>12. ASSUME NEW t \in Stops, FinishClosePool(t) PROVE StartupMeansLoaded'
  BY <1>12 DEF FinishClosePool, At, Go, StartupMeansLoaded, TypeOK
<1>13. ASSUME NEW t \in Stops, FindPoolClosed(t) PROVE StartupMeansLoaded'
  BY <1>13 DEF FindPoolClosed, At, Go, StartupMeansLoaded, TypeOK
<1>14. ASSUME NEW t \in Stops, StopConsumer(t) PROVE StartupMeansLoaded'
  BY <1>14 DEF StopConsumer, At, Go, StartupMeansLoaded, TypeOK
<1>15. ASSUME NEW t \in Stops, StopProducer(t) PROVE StartupMeansLoaded'
  BY <1>15 DEF StopProducer, At, Go, StartupMeansLoaded, TypeOK
<1>16. ASSUME NEW t \in Stops, BeginStopGrpc(t) PROVE StartupMeansLoaded'
  BY <1>16 DEF BeginStopGrpc, At, Go, StartupMeansLoaded, TypeOK
<1>17. ASSUME NEW t \in Stops, FinishStopGrpc(t) PROVE StartupMeansLoaded'
  BY <1>17 DEF FinishStopGrpc, At, Go, StartupMeansLoaded, TypeOK
<1>18. ASSUME NEW t \in Stops, StopRest(t) PROVE StartupMeansLoaded'
  BY <1>18 DEF StopRest, At, Go, StartupMeansLoaded, TypeOK
<1>19. ASSUME NEW t \in Stops, StopMetrics(t) PROVE StartupMeansLoaded'
  BY <1>19 DEF StopMetrics, At, Go, StartupMeansLoaded, TypeOK
<1>20. CASE DrainRest
  BY <1>20 DEF DrainRest, StartupMeansLoaded, TypeOK
<1>21. CASE UNCHANGED vars
  BY <1>21 DEF vars, StartupMeansLoaded
<1>. QED
  BY <1>1, <1>2, <1>3, <1>4, <1>5, <1>6, <1>7, <1>8, <1>9, <1>10, <1>11, <1>12, <1>13, <1>14, <1>15,
     <1>16, <1>17, <1>18, <1>19, <1>20, <1>21 DEF Next, Stop

(* The values of the state are as typed, whatever happens (server.py). *)
THEOREM TypeCorrect == Spec => []TypeOK
<1>1. Init => TypeOK
  BY Initially
<1>. QED
  BY <1>1, TypeStep, PTL DEF Spec

(* Readiness is only claimed with every model of the start loaded           *)
(* (server.py:135).                                                         *)
THEOREM StartupCorrect == Spec => []StartupMeansLoaded
<1>1. Init => StartupMeansLoaded
  BY Initially
<1>. QED
  BY <1>1, TypeCorrect, StartupStep, PTL DEF Spec
=============================================================================
