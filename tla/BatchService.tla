---------------------------- MODULE BatchService ----------------------------
(***************************************************************************)
(* What adaptive batching promises to the callers of MLModel.predict, with *)
(* no queue, no timer and no task in sight: a call is answered once, and   *)
(* the calls are answered in groups of at most MaxBatchSize that share one *)
(* outcome.                                                                *)
(***************************************************************************)
EXTENDS Integers, FiniteSets

CONSTANTS
  Requests,       (* the calls of predict                                  *)
  MaxBatchSize    (* settings.max_batch_size                               *)

VARIABLE answer   (* each call's state: not made, pending or its answer    *)

Init == answer = [r \in Requests |-> "none"]

Ask(r) ==
  /\ answer[r] = "none"
  /\ answer' = [answer EXCEPT ![r] = "pending"]

AnswerTogether(group, outcome) ==
  /\ group # {}
  /\ Cardinality(group) =< MaxBatchSize
  /\ \A r \in group : answer[r] = "pending"
  /\ answer' = [r \in Requests |-> IF r \in group THEN outcome ELSE answer[r]]

Next ==
  \/ \E r \in Requests : Ask(r)
  \/ \E group \in SUBSET Requests, outcome \in {"result", "exception"} :
        AnswerTogether(group, outcome)

Spec == Init /\ [][Next]_answer
=============================================================================
