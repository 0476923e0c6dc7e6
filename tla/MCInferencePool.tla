--------------------------- MODULE MCInferencePool ---------------------------
(* Small instances of InferencePool for TLC.                                *)
EXTENDS InferencePool, TLC

CONSTANTS p1, p2, p3, p4, m, n

(* Two slots, the first of them in two revisions. *)
M1 == [slot |-> m, rev |-> 1]
M2 == [slot |-> m, rev |-> 2]
N1 == [slot |-> n, rev |-> 1]
Settings == {M1, M2, N1}

TwoWorkers == <<p1, p2>>
Call(i) == [id |-> i, slot |-> m]
Update(i, kind, new) == [id |-> i, kind |-> kind, model |-> new]
LoadM == Update("u1", "load", M1)

Plan(calls, updates, deaths, mayFail) ==
  [calls |-> calls, updates |-> updates, deaths |-> deaths, loadsMayFail |-> mayFail]

(* A crash while two models are loaded and called. *)
Loading == Plan({Call("c1"), Call("c2")}, {LoadM, Update("u2", "load", N1)}, 1, FALSE)
(* A crash around a reload. *)
Reloading == Plan({Call("c1")}, {LoadM, Update("u2", "reload", M2)}, 1, FALSE)
(* The same, with updates that fail. *)
Failing == Plan({Call("c1")}, {LoadM, Update("u2", "reload", M2)}, 1, TRUE)
(* A crash around an unload, with updates that fail. *)
Removing == Plan({Call("c1")}, {LoadM, Update("u2", "unload", M1)}, 1, TRUE)
(* Two crashes. *)
TwoCrashes == Plan({Call("c1")}, {LoadM}, 2, FALSE)
TwoFailing == Plan({}, {LoadM}, 2, TRUE)
(* A load that fails, is undone and tried again, without a crash: the first *)
(* may still be under way on a worker that has not answered.                *)
Retrying == Plan({}, {LoadM, Update("u2", "unload", M1), Update("u3", "load", M2)}, 0, TRUE)

(* A crash with two loads in line for the lock: the new worker takes its    *)
(* share of the second and restores it too, while the model is reloaded.    *)
Overtaken ==
  Plan({}, {Update("u1", "load", N1), Update("u2", "load", M1), Update("u3", "reload", M2)}, 1, FALSE)

AllPlans == {Loading, Reloading, Failing, Removing, TwoCrashes, TwoFailing, Retrying}
InLine == {Overtaken}
=============================================================================
