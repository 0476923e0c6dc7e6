--------------------------- MODULE MCModelRegistry ---------------------------
(* A small instance of ModelRegistry for TLC.                               *)
EXTENDS ModelRegistry

Load(i, v) == [id |-> i, kind |-> "load", version |-> v]
Unload(i, v) == [id |-> i, kind |-> "unload", version |-> v]
Purge(i) == [id |-> i, kind |-> "purge", version |-> Unversioned]

(* The settings of the models folder, loaded together by MLServer.start.    *)
Startup == {Load("a", 1), Load("b", 2), Load("c", 3)}

(* Then the oldest and the newest of them reloaded, the newest unloaded,    *)
(* and everything unloaded.                                                 *)
Growing == Startup \cup {Load("d", 1), Load("e", 3), Unload("f", 3), Purge("g")}

(* The second version's model is not ready when it is loaded; the first     *)
(* one's does not always stop.                                              *)
Sluggish == {Load("b", 2)}
Clinging == {Load("a", 1)}
=============================================================================
