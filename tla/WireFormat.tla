----------------------------- MODULE WireFormat -----------------------------
(***************************************************************************)
(* mlserver/grpc/converters.py and mlserver/raw.py: how a request or a      *)
(* response travels over gRPC, as values and as operators on them.          *)
(*                                                                         *)
(* A tensor is [name, datatype, shape, data, contentType, parameter]; its   *)
(* data are numbers, or sequences of bytes when the datatype is "BYTES".    *)
(* On the wire its values are in the typed field of its contents or, packed *)
(* as bytes, in the raw contents of the whole message.                      *)
(***************************************************************************)
EXTENDS Integers, Sequences, SequencesExt

CONSTANTS
  Base,           (* how many values a byte has                            *)
  SizeWidth       (* bytes in the length that precedes a packed string: 4  *)

ASSUME BaseAssumption == Base \in Nat \ {0, 1} /\ SizeWidth \in Nat \ {0}

(* _DatatypeToCtype: bytes in a number *)
Width == [INT8 |-> 1, INT16 |-> 2]

(* _FIELDS *)
FieldOf == [INT8 |-> "int_contents", INT16 |-> "int_contents", BYTES |-> "bytes_contents"]
Fields == {"int_contents", "bytes_contents"}

(* _tensor_length *)
Length(shape) == FoldLeft(LAMBDA n, d : n * d, 1, shape)

(* struct.pack and unpack of one unsigned number, the lowest byte first.  A *)
(* number of which something is left after the last byte cannot be packed.  *)
Left(n, width) ==
  LET left[i \in 0..width] == IF i = 0 THEN n ELSE left[i - 1] \div Base
  IN  left
InBytes(n, width) == Left(n, width)[width] = 0
Bytes(n, width) == [i \in 1..width |-> Left(n, width)[i - 1] % Base]
Number(bytes) ==
  LET ofLast[i \in 0..Len(bytes)] ==
        IF i = 0 THEN 0 ELSE bytes[Len(bytes) + 1 - i] + Base * ofLast[i - 1]
  IN  ofLast[Len(bytes)]

(* What a tensor may have for elements *)
ElementsOf(datatype) ==
  IF datatype = "BYTES" THEN {s \in Seq(0..(Base - 1)) : InBytes(Len(s), SizeWidth)}
  ELSE {n \in Nat : InBytes(n, Width[datatype])}

(* The same for a tensor of numbers: its length is its shape's. *)
PackNumbers(t) ==
  FlattenSeq([i \in 1..Length(t.shape) |-> Bytes(t.data[i], Width[t.datatype])])
UnpackNumbers(t, raw) ==
  LET w == Width[t.datatype]
  IN  [i \in 1..Length(t.shape) |-> Number(SubSeq(raw, (i - 1) * w + 1, i * w))]

(* _pack_bytes and _unpack_bytes: each string after its length *)
PackStrings(data) ==
  FlattenSeq([i \in 1..Len(data) |-> Bytes(Len(data[i]), SizeWidth) \o data[i]])

UnpackStrings(raw) ==
  LET SizeAt(o) == Number(SubSeq(raw, o + 1, o + SizeWidth))
      After(r) ==
        LET first == r.offset + SizeWidth
            last == first + SizeAt(r.offset)
        IN  [offset |-> last, elems |-> Append(r.elems, SubSeq(raw, first + 1, last))]
      round[k \in 0..Len(raw)] ==
        IF k = 0 THEN [offset |-> 0, elems |-> <<>>]
        ELSE IF round[k - 1].offset < Len(raw) THEN After(round[k - 1]) ELSE round[k - 1]
  IN  round[Len(raw)].elems

Pack(t) == IF t.datatype = "BYTES" THEN PackStrings(t.data) ELSE PackNumbers(t)
Unpack(t, raw) == IF t.datatype = "BYTES" THEN UnpackStrings(raw) ELSE UnpackNumbers(t, raw)

-----------------------------------------------------------------------------
(* InferTensorContentsConverter: the values go in the datatype's field, and *)
(* come out of the first field that has any.                                *)
NoContents == [f \in Fields |-> <<>>]
ToContents(t) == [NoContents EXCEPT ![FieldOf[t.datatype]] = t.data]
OfContents(contents) ==
  IF contents = NoContents THEN <<>> ELSE contents[CHOOSE f \in Fields : contents[f] # <<>>]

(* InferInputTensorConverter and InferOutputTensorConverter.  A parameter   *)
(* that is None is left out of the message and is absent at the other end.  *)
TensorToWire(t) ==
  [name |-> t.name, datatype |-> t.datatype, shape |-> t.shape,
   contentType |-> t.contentType, parameter |-> t.parameter, contents |-> ToContents(t)]
TensorOfWire(w) ==
  [name |-> w.name, datatype |-> w.datatype, shape |-> w.shape,
   contentType |-> w.contentType, parameter |-> w.parameter, data |-> OfContents(w.contents)]

(* extract_raw, of the tensors whose names are in raw: what is packed is    *)
(* taken out of the tensor.                                                 *)
WithoutData(ts, raw) ==
  [i \in 1..Len(ts) |-> IF ts[i].name \in raw THEN [ts[i] EXCEPT !.data = <<>>] ELSE ts[i]]
Packed(ts, raw) ==
  FlattenSeq([i \in 1..Len(ts) |-> IF ts[i].name \in raw THEN <<Pack(ts[i])>> ELSE <<>>])

(* inject_raw: each tensor without data takes the next of the raw entries. *)
InjectRaw(ts, entries) ==
  LET Index(i) == Cardinality({j \in 1..i : ts[j].data = <<>>})
  IN  [i \in 1..Len(ts) |->
         IF ts[i].data # <<>> THEN ts[i]
         ELSE [ts[i] EXCEPT !.data = Unpack(ts[i], entries[Index(i)])]]

(* ModelInferRequestConverter and ModelInferResponseConverter.  An id that  *)
(* is None and an empty one are the same on the wire.                       *)
ToWire(id, ts, raw) ==
  LET rest == WithoutData(ts, raw)
  IN  [id |-> IF id = "None" THEN "" ELSE id,
       tensors |-> [i \in 1..Len(ts) |-> TensorToWire(rest[i])],
       raw |-> Packed(ts, raw)]

OfWire(msg) ==
  LET ts == [i \in 1..Len(msg.tensors) |-> TensorOfWire(msg.tensors[i])]
  IN  IF msg.raw = <<>> THEN ts ELSE InjectRaw(ts, msg.raw)
=============================================================================
