--------------------------- MODULE BatchedRequests ---------------------------
(***************************************************************************)
(* mlserver/batching/requests.py and shape.py, end to end: the requests of  *)
(* one batch are encoded, come over gRPC and are merged, the model decodes  *)
(* them as one request, and the response is split, sent back and decoded.   *)
(*                                                                         *)
(* What the model computes is external: of every head, row by row, either   *)
(* the rows themselves or the first element of each.                        *)
(***************************************************************************)
EXTENDS Codecs, FiniteSets

CONSTANTS
  Batches,        (* sequences of [id, inputs, raw]: what clients send.  An *)
                  (* input is [name, payload, tagged, parameter]: a client  *)
                  (* may leave its content type out; raw names the inputs   *)
                  (* that are sent as raw contents                          *)
  Models          (* how the model answers: "rows", "firsts"                *)

(* A payload, and what a client puts under the name of a head. *)
Payloads ==
  [kind : {"array"}, datatype : DOMAIN Width, shape : Seq(Nat), data : Seq(Nat)]
    \cup [kind : {"strings"}, data : Seq(Seq(Nat))]
ClientInputs ==
  [name : DOMAIN Metadata, payload : Payloads, tagged : BOOLEAN, parameter : STRING]

ASSUME BatchesAssumption ==
  \A batch \in Batches :
    batch \in Seq([id : STRING, inputs : Seq(ClientInputs), raw : SUBSET DOMAIN Metadata])

VARIABLES
  sent,           (* the batch, as the clients have it                     *)
  model,          (* how the model answers                                 *)
  stage,          (* how far the batch is                                  *)
  messages,       (* the requests on the wire                              *)
  requests,       (* inference_requests: the batch as the server has it    *)
  merged,         (* merged_request.inputs                                 *)
  response,       (* the outputs of the model                              *)
  answers,        (* split_response, then what goes back on the wire       *)
  results         (* the answers as the clients read them                  *)

vars == <<sent, model, stage, messages, requests, merged, response, answers, results>>

Init ==
  /\ sent \in Batches /\ model \in Models
  /\ stage = "sending"
  /\ messages = <<>> /\ requests = <<>> /\ merged = <<>> /\ response = <<>>
  /\ answers = <<>> /\ results = <<>>

-----------------------------------------------------------------------------
(* Over the wire.                                                           *)

(* encode_input, of a client *)
EncodeInput(h) ==
  [Encode(h.name, h.payload) EXCEPT !.contentType = IF h.tagged THEN @ ELSE "None",
                                    !.parameter = h.parameter]
Encoded(i) == [k \in 1..Len(sent[i].inputs) |-> EncodeInput(sent[i].inputs[k])]

Send ==
  /\ stage = "sending" /\ stage' = "receiving"
  /\ messages' = [i \in 1..Len(sent) |-> ToWire(sent[i].id, Encoded(i), sent[i].raw)]
  /\ UNCHANGED <<sent, model, requests, merged, response, answers, results>>

(* ModelInfer, up to the batcher *)
Receive ==
  /\ stage = "receiving" /\ stage' = "merging"
  /\ requests' = [i \in 1..Len(messages) |->
                    [id |-> messages[i].id, inputs |-> OfWire(messages[i]),
                     returnRaw |-> messages[i].raw # <<>>]]
  /\ UNCHANGED <<sent, model, messages, merged, response, answers, results>>

-----------------------------------------------------------------------------
(* Merge.                                                                   *)

Names(ts) == {ts[i].name : i \in 1..Len(ts)}

(* Of two inputs with the same name the second replaces the first. *)
HeadOf(ts, name) == ts[Max({i \in 1..Len(ts) : ts[i].name = name})]

(* The keys of a dict, in the order they are first set. *)
Keys(s) == FoldLeft(LAMBDA keys, k : IF Contains(keys, k) THEN keys ELSE Append(keys, k), <<>>, s)

Total(ns) == FoldLeft(LAMBDA n, m : n + m, 0, ns)

(* inputs_index: the heads, in the order they are first seen; those that    *)
(* have the head, in their order; what they have there.                     *)
HeadNames(rs) ==
  Keys(FlattenSeq([i \in 1..Len(rs) |-> [j \in 1..Len(rs[i].inputs) |-> rs[i].inputs[j].name]]))
Owners(rs, name) ==
  FlattenSeq([i \in 1..Len(rs) |-> IF name \in Names(rs[i].inputs) THEN <<i>> ELSE <<>>])
Heads(rs, name) ==
  [k \in 1..Len(Owners(rs, name)) |-> HeadOf(rs[Owners(rs, name)[k]].inputs, name)]

(* Shape *)
BatchSize(shape) == Head(shape)
ElemSize(shape) == Length(Tail(shape))
WithBatchSize(shape, n) == <<n>> \o Tail(shape)

(* _merge_input_parameters: the last content type is kept; of a parameter   *)
(* that is not content_type or headers the second value makes a list.       *)
MergeParameters(heads) ==
  LET given == FlattenSeq([k \in 1..Len(heads) |->
                 IF heads[k].parameter = "None" THEN <<>> ELSE <<heads[k].parameter>>])
  IN  IF given = <<>> THEN <<>> ELSE <<IF Len(given) = 1 THEN "value" ELSE "list">> \o given
MergeContentTypes(heads) ==
  FoldLeft(LAMBDA c, h : IF h.contentType = "None" THEN c ELSE h.contentType, "None", heads)

MergeHead(rs, name) ==
  LET heads == Heads(rs, name)
      total == Total([k \in 1..Len(heads) |-> BatchSize(heads[k].shape)])
  IN  [name |-> name, datatype |-> heads[1].datatype,
       shape |-> WithBatchSize(heads[1].shape, total),
       data |-> FlattenSeq([k \in 1..Len(heads) |-> heads[k].data]),
       contentType |-> MergeContentTypes(heads), parameter |-> MergeParameters(heads)]

Merge ==
  /\ stage = "merging" /\ stage' = "predicting"
  /\ merged' = [k \in 1..Len(HeadNames(requests)) |-> MergeHead(requests, HeadNames(requests)[k])]
  /\ UNCHANGED <<sent, model, messages, requests, response, answers, results>>

(* What the model makes of a payload. *)
Compute(p) ==
  IF p.kind = "strings" \/ model = "rows" THEN p
  ELSE LET elem == ElemSize(p.shape)
           rows == BatchSize(p.shape)
       IN  Array(p.datatype, <<rows>>, [r \in 1..rows |-> p.data[(r - 1) * elem + 1]])

(* predict().  By the convention of tests/batching/test_requests.py a       *)
(* parameter of an output is a list with a value for each row; the model    *)
(* here has one only if every row came with one.                            *)
Answer(t) ==
  LET values == IF t.parameter = <<>> THEN <<>> ELSE Tail(t.parameter)
  IN  [Encode(t.name, Compute(Decode(t))) EXCEPT
         !.parameter = IF Len(values) = BatchSize(t.shape) THEN values ELSE <<>>]

Decodable == \A k \in 1..Len(merged) : Decode(merged[k]) # Raised

Predict ==
  /\ Decodable
  /\ stage = "predicting" /\ stage' = "splitting"
  /\ response' = [k \in 1..Len(merged) |-> Answer(merged[k])]
  /\ UNCHANGED <<sent, model, messages, requests, merged, answers, results>>

(* Decoding raises, and every call of the batch with it. *)
FailPredict ==
  /\ ~Decodable
  /\ stage = "predicting" /\ stage' = "failed"
  /\ UNCHANGED <<sent, model, messages, requests, merged, response, answers, results>>

-----------------------------------------------------------------------------
(* Split.                                                                   *)

(* _minibatch_sizes: a request is in it at the place of the first head that *)
(* it has, with the size of the last one.                                   *)
Batched == Keys(FlattenSeq([k \in 1..Len(merged) |-> Owners(requests, merged[k].name)]))
LastHead(i) == merged[CHOOSE k \in 1..Len(merged) :
                 /\ merged[k].name \in Names(requests[i].inputs)
                 /\ \A l \in (k + 1)..Len(merged) : merged[l].name \notin Names(requests[i].inputs)].name
MinibatchSize(i) == BatchSize(HeadOf(requests[i].inputs, LastHead(i)).shape)

(* Rows of the merged response before i's. *)
RowsBefore(i) ==
  LET place == CHOOSE k \in 1..Len(Batched) : Batched[k] = i
  IN  Total([k \in 1..(place - 1) |-> MinibatchSize(Batched[k])])

(* Mutant: the parameters are cut like the data, by elements. *)
SplitParametersByElement(t, i) ==
  LET idx == RowsBefore(i) * ElemSize(t.shape) + 1
  IN  IF idx =< Len(t.parameter) THEN t.parameter[idx] ELSE "None"

(* _split_parameters: the value of the first row; a missing one is skipped. *)
SplitParameters(t, i) ==
  LET idx == RowsBefore(i) + 1
  IN  IF idx =< Len(t.parameter) THEN t.parameter[idx] ELSE "None"

(* data[first : first + size]: a slice past the end is cut short. *)
Slice(data, first, size) ==
  SubSeq(data, first + 1, IF first + size > Len(data) THEN Len(data) ELSE first + size)

(* Mutant: the index advances by rows. *)
SplitOutputByRow(t, i) ==
  [t EXCEPT !.data = Slice(@, RowsBefore(i), MinibatchSize(i) * ElemSize(t.shape)),
            !.shape = WithBatchSize(@, MinibatchSize(i)),
            !.parameter = SplitParameters(t, i)]

(* _split_response_output and _split_data, the share of request i *)
SplitOutput(t, i) ==
  LET elem == ElemSize(t.shape)
  IN  [t EXCEPT !.data = Slice(@, RowsBefore(i) * elem, MinibatchSize(i) * elem),
                !.shape = WithBatchSize(@, MinibatchSize(i)),
                !.parameter = SplitParameters(t, i)]

(* Mutant: the split goes by the ids the clients chose. *)
AnsweredById ==
  {i \in Range(Batched) : \A j \in Range(Batched) : requests[j].id = requests[i].id => j =< i}

(* The keys of split_response. *)
Answered == IF response = <<>> THEN {} ELSE Range(Batched)

(* split_response *)
Split ==
  /\ stage = "splitting" /\ stage' = "responding"
  /\ answers' = [i \in Answered |->
                   [id |-> requests[i].id,
                    outputs |-> [k \in 1..Len(response) |-> SplitOutput(response[k], i)]]]
  /\ UNCHANGED <<sent, model, messages, requests, merged, response, results>>

(* struct.pack raises at a tensor of numbers that its shape does not fit.   *)
CanPack(t) == t.datatype = "BYTES" \/ Fits(t)

(* The responses go back, as raw contents where the request had any; a call *)
(* whose response cannot be packed fails.                                   *)
Respond ==
  /\ stage = "responding" /\ stage' = "reading"
  /\ LET packable == {i \in DOMAIN answers :
                        requests[i].returnRaw => \A t \in Range(answers[i].outputs) : CanPack(t)}
     IN  answers' = [i \in packable |->
                       LET outputs == answers[i].outputs
                       IN  ToWire(answers[i].id, outputs,
                                  IF requests[i].returnRaw THEN Names(outputs) ELSE {})]
  /\ UNCHANGED <<sent, model, messages, requests, merged, response, results>>

(* decode_output, of the client *)
DecodeOutput(t) == [name |-> t.name, payload |-> Decode(t), parameter |-> t.parameter]

Read ==
  /\ stage = "reading" /\ stage' = "done"
  /\ results' = [i \in DOMAIN answers |->
                   LET outputs == OfWire(answers[i])
                   IN  [k \in 1..Len(outputs) |-> DecodeOutput(outputs[k])]]
  /\ UNCHANGED <<sent, model, messages, requests, merged, response, answers>>

Next == Send \/ Receive \/ Merge \/ Predict \/ FailPredict \/ Split \/ Respond \/ Read

Spec == Init /\ [][Next]_vars

-----------------------------------------------------------------------------
(* Properties.                                                              *)

(* What the merge takes for granted (requests.py:153): every request has    *)
(* the same heads, of one batch size in a request and, over all of them, of *)
(* one element shape and content type.                                      *)
Uniform ==
  \A i, j \in 1..Len(sent) :
    /\ Names(Encoded(i)) = Names(Encoded(j))
    /\ \A h \in Range(Encoded(i)), g \in Range(Encoded(j)) :
         /\ i = j => BatchSize(h.shape) = BatchSize(g.shape)
         /\ h.name = g.name => /\ Tail(h.shape) = Tail(g.shape)
                              /\ h.datatype = g.datatype /\ ContentType(h) = ContentType(g)

(* A request in the form it should have: inputs of their own names; as many  *)
(* elements as the shape says, at least one in a row and one exactly if they *)
(* are read as strings, which strings are; and beside raw inputs no empty    *)
(* ones but raw ones, as these are told by having no data (raw.py:109).     *)
Proper(r) ==
  LET ts == [k \in 1..Len(r.inputs) |-> EncodeInput(r.inputs[k])]
  IN  /\ \A j, k \in 1..Len(ts) : ts[j].name = ts[k].name => j = k
      /\ \A k \in 1..Len(ts) :
           /\ Len(ts[k].shape) > 1 /\ Fits(ts[k]) /\ Length(Tail(ts[k].shape)) > 0
           /\ Range(ts[k].data) \subseteq ElementsOf(ts[k].datatype)
           /\ ts[k].datatype = "BYTES" => ContentType(ts[k]) = "str"
           /\ ContentType(ts[k]) = "str" => Length(Tail(ts[k].shape)) = 1
           /\ r.raw # {} /\ ts[k].data = <<>> => ts[k].name \in r.raw

(* What request i reads if it is not batched with others. *)
Alone(i) ==
  {[name |-> t.name, payload |-> Decode(Encode(t.name, Compute(Decode(t))))] : t \in Range(Encoded(i))}

(* Batching is transparent (docs/user-guide/adaptive-batching.md:3): every  *)
(* client reads what the model answers to its own rows alone, whatever else *)
(* was in the batch and whichever of the tensors travelled as raw contents. *)
OwnRows ==
  Uniform /\ (\A i \in 1..Len(sent) : Proper(sent[i])) =>
    /\ stage # "failed"
    /\ stage = "done" => \A i \in 1..Len(sent) : sent[i].inputs # <<>> =>
         {[name |-> t.name, payload |-> t.payload] : t \in Range(results[i])} = Alone(i)

(* Every request that has inputs gets its answer, under the id it came      *)
(* with, even if the ids of two clients are the same or there are none      *)
(* (requests.py:102).                                                       *)
EachAnswered ==
  stage = "responding" =>
    /\ DOMAIN answers = {i \in 1..Len(sent) : sent[i].inputs # <<>>}
    /\ \A i \in DOMAIN answers : answers[i].id = IF sent[i].id = "None" THEN "" ELSE sent[i].id

(* When every request has a row and a parameter, an answer has its own      *)
(* request's parameter.                                                     *)
OwnParameters ==
  stage = "done" /\ Uniform
    /\ (\A i \in 1..Len(sent) : \A h \in Range(Encoded(i)) : h.parameter # "None" /\ BatchSize(h.shape) = 1)
  => \A i \in DOMAIN results : \A t \in Range(results[i]) :
       t.parameter = HeadOf(sent[i].inputs, t.name).parameter
=============================================================================
