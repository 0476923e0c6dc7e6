------------------------------- MODULE Codecs -------------------------------
(***************************************************************************)
(* mlserver/codecs/ and the helpers of MLModel that use them: how tensors   *)
(* become the arrays and lists of strings a model works on, and back.       *)
(*                                                                         *)
(* A payload is an array of numbers or a list of strings.  Arrays of bytes, *)
(* data frames, dates and base64 are not modelled.                          *)
(***************************************************************************)
EXTENDS WireFormat

CONSTANT Metadata  (* the content type that the model's metadata gives each *)
                   (* head, or "None"                                       *)

Array(datatype, shape, data) ==
  [kind |-> "array", datatype |-> datatype, shape |-> shape, data |-> data]
Strings(data) == [kind |-> "strings", data |-> data]

(* What decoding raises is told apart from every payload. *)
Raised == [kind |-> "raised"]

Tensor(name, datatype, shape, data, contentType) ==
  [name |-> name, datatype |-> datatype, shape |-> shape, data |-> data,
   contentType |-> contentType, parameter |-> "None"]

(* Does the shape say how many elements there are? *)
Fits(t) == Len(t.data) = Length(t.shape)

(* inject_batch_dimension: [N] is [N, 1]. *)
InjectBatchDimension(shape) == IF Len(shape) > 1 THEN shape ELSE Append(shape, 1)

(* NumpyCodec; reshape raises at a shape that does not fit.  Strings are     *)
(* misread or raise, as their buffers are cut into elements of the last      *)
(* dimension's size: no model could tell, and it counts as raised.           *)
EncodeArray(name, p) == Tensor(name, p.datatype, InjectBatchDimension(p.shape), p.data, "np")
DecodeArray(t) == IF Fits(t) /\ t.datatype # "BYTES" THEN Array(t.datatype, t.shape, t.data) ELSE Raised

(* StringCodec, which ignores the shape; what is not a string is decoded as *)
(* an empty one.                                                            *)
EncodeStrings(name, p) == Tensor(name, "BYTES", <<Len(p.data), 1>>, p.data, "str")
DecodeStrings(t) ==
  Strings(IF t.datatype = "BYTES" THEN t.data ELSE [i \in 1..Len(t.data) |-> <<>>])

(* _get_content_type: the tensor's own, or else its metadata's. *)
ContentType(t) == IF t.contentType # "None" THEN t.contentType ELSE Metadata[t.name]

(* MLModel.decode, with NumpyCodec for the tensors without a content type. *)
Decode(t) == IF ContentType(t) = "str" THEN DecodeStrings(t) ELSE DecodeArray(t)

(* MLModel.encode: the first codec that takes the payload. *)
Encode(name, p) == IF p.kind = "array" THEN EncodeArray(name, p) ELSE EncodeStrings(name, p)
=============================================================================
