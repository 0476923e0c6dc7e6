-------------------------------- MODULE Rows --------------------------------
(* Rows in which nothing comes twice: the calls suspended in a queue, the    *)
(* keys of a dict in the order they were added.                             *)
EXTENDS Integers, Sequences, Functions

Distinct(row) == \A i, j \in 1..Len(row) : row[i] = row[j] => i = j

(* Taking x out, if it is there: deque.remove, `del` of a key.               *)
Without(row, x) ==
  IF x \notin Range(row) THEN row
  ELSE LET i == CHOOSE k \in 1..Len(row) : row[k] = x
       IN  [k \in 1..(Len(row) - 1) |-> row[IF k < i THEN k ELSE k + 1]]
=============================================================================
