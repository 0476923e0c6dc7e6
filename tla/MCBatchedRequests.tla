------------------------- MODULE MCBatchedRequests -------------------------
(* Small batches for TLC: up to three requests with up to two heads.        *)
EXTENDS BatchedRequests, TLC

(* The k-th element that request i has in a head: a number of its own, or a *)
(* string of no, one or two bytes.  A byte has 64 values here.              *)
Element(datatype, i, k) ==
  CASE datatype = "INT8" -> 4 * i + k
    [] datatype = "INT16" -> 64 * i + k
    [] datatype = "BYTES" -> SubSeq(<<i, k>>, 1, (i + k) % 3)

Elements(datatype, i, n) == [k \in 1..n |-> Element(datatype, i, k)]

(* The model takes strings in y, unless a client says otherwise. *)
StringsInY == [x |-> "None", y |-> "str"]

(* The i-th request: its first head x has n rows of w numbers, its second   *)
(* one y has a string or a wide number in each row.                         *)
X(i, n, w, tagged, p) ==
  [name |-> "x", tagged |-> tagged, parameter |-> p,
   payload |-> Array("INT8", <<n, w>>, Elements("INT8", i, n * w))]
Y(i, n, type, tagged) ==
  [name |-> "y", tagged |-> tagged, parameter |-> "None",
   payload |-> IF type = "BYTES" THEN Strings(Elements(type, i, n))
               ELSE Array(type, <<n>>, Elements(type, i, n))]
P(i) == IF i = 1 THEN "p1" ELSE IF i = 2 THEN "p2" ELSE "p3"

Inputs(i, type, tagged, params) ==
  LET p == IF params THEN P(i) ELSE "None"
  IN  {<<>>, <<X(i, 1, 2, tagged, p)>>, <<X(i, 1, 1, tagged, p)>>}
        \cup {<<X(i, n, 2, tagged, p), Y(i, n, type, tagged)>> : n \in 0..2}
        \cup {<<Y(i, 1, type, tagged), X(i, 1, 2, tagged, p)>>,
              <<X(i, 2, 2, tagged, p), Y(i, 1, type, tagged)>>}

(* A tensor without data is one whose data is in the raw contents: an empty *)
(* one that is sent beside raw ones is raw as well.                         *)
Sendable(inputs, raw) ==
  /\ raw \subseteq Names(inputs)
  /\ raw # {} => \A h \in Range(inputs) : h.payload.data = <<>> => h.name \in raw

Of(i, type, tagged, params) ==
  {[id |-> id, inputs |-> inputs, raw |-> raw] : id \in {"a", "None"},
     <<inputs, raw>> \in {<<ins, raw>> \in Inputs(i, type, tagged, params) \X SUBSET {"x", "y"} :
                            Sendable(ins, raw)}}

Singles == UNION {{<<r>> : r \in Of(1, type, tagged, TRUE)} :
                    type \in {"BYTES", "INT16"}, tagged \in BOOLEAN}
Pairs ==
  UNION {{<<r, s>> : r \in Of(1, type, TRUE, TRUE),
                     s \in {q \in Of(2, type, how.tagged, how.params) : q.id = "a"}} :
           type \in {"BYTES", "INT16"},
           how \in [tagged : BOOLEAN, params : BOOLEAN] \ {[tagged |-> FALSE, params |-> FALSE]}}
Triples == {<<r, s, t>> :
              r \in {q \in Of(1, "BYTES", FALSE, TRUE) : q.raw = {} /\ q.id = "a"},
              s \in {q \in Of(2, "BYTES", TRUE, TRUE) : q.raw = {"x"}},
              t \in {q \in Of(3, "BYTES", TRUE, TRUE) : q.raw = Names(q.inputs)}}
SmallBatches == Singles \cup Pairs \cup Triples
=============================================================================
