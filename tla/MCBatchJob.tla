----------------------------- MODULE MCBatchJob -----------------------------
(* Small instances of BatchJob for TLC.                                     *)
EXTENDS BatchJob

CONSTANTS w1, w2

Line(k) == [kind |-> k, id |-> NoId]
WithId(k, i) == [kind |-> k, id |-> i]

Plain == Line("request")

(* Enough batches for either queue to be found full. *)
Long == [i \in 1..10 |-> Plain]

(* Repeated ids, in one batch and in two. *)
Repeated == <<WithId("request", "a"), WithId("request", "a"), WithId("request", "a"), Plain>>

(* Something wrong in every batch. *)
Mixed == <<Plain, Line("invalid"), Line("no_inputs"), Plain, Line("broken")>>

SomeFiles == {<<>>, Long, Repeated, Mixed, <<Line("invalid"), Line("invalid"), Plain>>,
              <<Plain, Line("broken")>>}
=============================================================================
