----------------------------- MODULE MCDataPlane -----------------------------
(* Small instances of DataPlane for TLC: a load of a folder with up to two  *)
(* versions, another one or an unload, and calls.                           *)
EXTENDS DataPlane

Op(r, kind, v, id) == [id |-> id, kind |-> kind, version |-> v, by |-> r]

Clients == {[id |-> "x", kinds |-> {"load"}], [id |-> "y", kinds |-> {"load", "unload"}]}
Operations ==
  {Op("x", "load", 1, "x1"), Op("x", "load", 2, "x2"),
   Op("x", "unload", 1, "x3"), Op("x", "unload", 2, "x4"),
   Op("y", "load", 1, "y1"), Op("y", "load", 2, "y2"),
   Op("y", "unload", 1, "y3"), Op("y", "unload", 2, "y4"),
   Op("y", "purge", 0, "y5")}
(* A model that says it is not ready, and one that does not always stop.     *)
Sluggish == {Op("y", "load", 1, "y1")}
Clinging == {Op("x", "load", 2, "x2")}
Contents == {{}, {1}, {2}, {1, 2}}

Infer(i, v, p) == [id |-> i, version |-> v, payload |-> p]

(* Each version has payloads of its own, and so has the default. *)
Distinct == {Infer("c1", 2, "two"), Infer("c2", 0, "any")}

(* The same payload goes to both versions. *)
Same == {Infer("c1", 1, "one"), Infer("c2", 2, "one")}
=============================================================================
