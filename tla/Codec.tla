--------------------------------- MODULE Codec ---------------------------------
(***************************************************************************)
(* The binary encoding of the OPC UA types: src/ua_types_encoding_binary.c.*)
(* Encoding, decoding and the computed size are functions of the data type;*)
(* the encoder fills a buffer and exchanges it for an empty one when the   *)
(* next part does not fit, so that a long message leaves in chunks.        *)
(*                                                                         *)
(* Values: numbers; arrays and strings are [n |-> length or -1 for NULL,   *)
(* e |-> elements]; a type with an encoding mask is a record of optional   *)
(* fields (sequences of length 0 or 1); a structure is the sequence of its *)
(* members.                                                                *)
(***************************************************************************)
EXTENDS Integers, Sequences, SequencesExt, FiniteSets

CONSTANTS
  Structs,    \* structured type -> [members, size, typeId, binaryId], a member is [type, array]
  Items       \* what is sent: [type, value, cap], cap the size of a buffer

VARIABLES
  item,       \* the value a sender encodes
  stage,      \* "value", "sent" or "received"
  wire,       \* the encoder after the value
  cut,        \* how many bytes arrived
  got         \* what the receiver decoded
codecVars == <<item, stage, wire, cut, got>>

Arr(s) == [n |-> Len(s), e |-> s]
NullArr == [n |-> -1, e |-> <<>>]

\* Widths of the types whose encoding is their memory (overlayable).
Width == [Boolean |-> 1, Byte |-> 1, UInt16 |-> 2, UInt32 |-> 4, Int32 |-> 4, StatusCode |-> 4, DateTime |-> 8]
Overlayable == DOMAIN Width \ {"Boolean"}

\* type->memSize on a 64 bit machine.
MemSize(t) ==
  CASE t \in DOMAIN Width -> Width[t]
    [] t \in {"String", "Guid"} -> 16
    [] t = "NodeId" -> 24
    [] t \in {"ExpandedNodeId", "Variant", "ExtensionObject"} -> 48
    [] t = "LocalizedText" -> 32
    [] t = "DataValue" -> 96
    [] t = "DiagnosticInfo" -> 56
    [] OTHER -> Structs[t].size

--------------------------------------------------------------------------------
(* Fields behind an encoding mask, in the order they are written *)

Fields(t) ==
  CASE t = "DataValue" -> <<<<"value", "Variant">>, <<"status", "StatusCode">>, <<"sourceTimestamp", "DateTime">>,
                            <<"sourcePicoseconds", "UInt16">>, <<"serverTimestamp", "DateTime">>, <<"serverPicoseconds", "UInt16">>>>
    [] t = "LocalizedText" -> <<<<"locale", "String">>, <<"text", "String">>>>
    [] t = "DiagnosticInfo" -> <<<<"symbolicId", "Int32">>, <<"namespaceUri", "Int32">>, <<"localizedText", "Int32">>, <<"locale", "Int32">>,
                                 <<"additionalInfo", "String">>, <<"innerStatusCode", "StatusCode">>, <<"innerDiagnosticInfo", "DiagnosticInfo">>>>
Masked == {"DataValue", "LocalizedText", "DiagnosticInfo"}

\* The bit the decoder tests for the i-th field.
DecodeBit(t, i) ==
  CASE t = "DataValue" -> <<1, 2, 4, 16, 8, 32>>[i]
    [] t = "LocalizedText" -> <<1, 2>>[i]
    [] t = "DiagnosticInfo" -> <<1, 2, 4, 8, 16, 32, 64>>[i]

\* The bit the encoder sets: DiagnosticInfo_encodeBinary has none for the inner
\* status code and gives its bit to the inner diagnostic info.
EncodeBit(t, i) == IF t = "DiagnosticInfo" THEN <<1, 2, 4, 8, 16, 0, 32>>[i] ELSE DecodeBit(t, i)

Bit(mask, b) == (mask \div b) % 2 = 1
Present(t, v) == SelectSeq([i \in 1..Len(Fields(t)) |-> i], LAMBDA i : v[Fields(t)[i][1]] # <<>>)
Mask(t, v) == FoldLeft(LAMBDA acc, i : acc + EncodeBit(t, i), 0, Present(t, v))

--------------------------------------------------------------------------------
(* The parts a builtin type is written as: <<type, value>> *)

\* NodeId_encodeBinaryWithEncodingMask
NodeIdParts(id, mask) ==
  CASE id.t = "numeric" ->
         IF id.id[1] > 65535 \/ id.ns > 255 THEN <<<<"Byte", mask + 2>>, <<"UInt16", id.ns>>, <<"UInt32", id.id[1]>>>>
         ELSE IF id.id[1] > 255 \/ id.ns > 0 THEN <<<<"Byte", mask + 1>>, <<"Byte", id.ns>>, <<"UInt16", id.id[1]>>>>
         ELSE <<<<"Byte", mask>>, <<"Byte", id.id[1]>>>>
    [] id.t = "string" -> <<<<"Byte", mask + 3>>, <<"UInt16", id.ns>>, <<"String", Arr(id.id)>>>>
    [] id.t = "guid" -> <<<<"Byte", mask + 4>>, <<"UInt16", id.ns>>, <<"Guid", id.id>>>>
    [] id.t = "bytestring" -> <<<<"Byte", mask + 5>>, <<"UInt16", id.ns>>, <<"String", Arr(id.id)>>>>

ExpandedNodeIdParts(x) ==
  NodeIdParts(x.nodeId, (IF x.uri.n > 0 THEN 128 ELSE 0) + (IF x.serverIndex > 0 THEN 64 ELSE 0))
  \o (IF x.uri.n > 0 THEN <<<<"String", x.uri>>>> ELSE <<>>)
  \o (IF x.serverIndex > 0 THEN <<<<"UInt32", x.serverIndex>>>> ELSE <<>>)

NumericId(n) == [t |-> "numeric", ns |-> 0, id |-> <<n>>]

\* The position of a type in UA_TYPES, as Variant_encodeBinary writes it.
TypeIndex == [Boolean |-> 1, Byte |-> 3, UInt16 |-> 5, Int32 |-> 6, UInt32 |-> 7, String |-> 12, DateTime |-> 13, Guid |-> 14,
              NodeId |-> 17, ExpandedNodeId |-> 18, StatusCode |-> 19, QualifiedName |-> 20, LocalizedText |-> 21, ExtensionObject |-> 22,
              DataValue |-> 23, Variant |-> 24, DiagnosticInfo |-> 25]
IsBuiltin(t) == t \in DOMAIN TypeIndex

VariantMask(v) ==
  (IF IsBuiltin(v.type) THEN TypeIndex[v.type] ELSE TypeIndex["ExtensionObject"])
  + (IF v.array THEN 128 + (IF v.dims.n > 0 THEN 64 ELSE 0) ELSE 0)

VariantParts(v) ==
  IF v.type = "none" THEN <<<<"Byte", 0>>>>
  ELSE <<<<"Byte", VariantMask(v)>>>>
       \o (CASE ~IsBuiltin(v.type) -> <<<<"Wrapped", v>>>>
             [] IsBuiltin(v.type) /\ v.array -> <<<<"Array", <<v.type, v.data>>>>>>
             [] OTHER -> <<<<v.type, v.data.e[1]>>>>)
       \o (IF v.array /\ v.dims.n > 0 THEN <<<<"Array", <<"Int32", v.dims>>>>>> ELSE <<>>)

--------------------------------------------------------------------------------
(* calcSizeBinary *)

NodeId_calcSizeBinary(id) ==
  CASE id.t = "numeric" -> IF id.id[1] > 65535 \/ id.ns > 255 THEN 7 ELSE IF id.id[1] > 255 \/ id.ns > 0 THEN 4 ELSE 2
    [] id.t = "guid" -> 19
    [] OTHER -> 3 + 4 + Len(id.id)

RECURSIVE UA_calcSizeBinary(_, _)
SumOf(s) == FoldLeft(LAMBDA a, b : a + b, 0, s)
Array_calcSizeBinary(t, a) ==
  4 + (IF t \in Overlayable THEN Width[t] * Len(a.e) ELSE SumOf([i \in 1..Len(a.e) |-> UA_calcSizeBinary(t, a.e[i])]))
Variant_calcSizeBinary(v) ==
  IF v.type = "none" THEN 1
  ELSE 1 + (IF v.array THEN 4 ELSE 0)
       + SumOf([i \in 1..Len(v.data.e) |->
                  (IF IsBuiltin(v.type) THEN 0 ELSE NodeId_calcSizeBinary(NumericId(Structs[v.type].typeId)) + 5)
                  + UA_calcSizeBinary(v.type, v.data.e[i])])
       + (IF v.array /\ v.dims.n > 0 THEN Array_calcSizeBinary("Int32", v.dims) ELSE 0)
ExtensionObject_calcSizeBinary(x) ==
  1 + NodeId_calcSizeBinary(IF x.encoding = "decoded" THEN NumericId(Structs[x.type].typeId) ELSE x.typeId)
  + (CASE x.encoding = "nobody" -> 0
       [] x.encoding \in {"bytestring", "xml"} -> 4 + Len(x.body.e)
       [] x.encoding = "decoded" -> 4 + UA_calcSizeBinary(x.type, x.data[1]))
ExpandedNodeId_calcSizeBinary(v) ==
  NodeId_calcSizeBinary(v.nodeId) + (IF v.uri.n > 0 THEN 4 + v.uri.n ELSE 0) + (IF v.serverIndex > 0 THEN 4 ELSE 0)
\* DataValue, LocalizedText and DiagnosticInfo: the mask and the fields present.
Masked_calcSizeBinary(t, v) ==
  1 + SumOf([k \in 1..Len(Present(t, v)) |-> UA_calcSizeBinary(Fields(t)[Present(t, v)[k]][2], v[Fields(t)[Present(t, v)[k]][1]][1])])
\* calcSizeBinaryJumpTable
UA_calcSizeBinary(t, v) ==
  CASE t \in DOMAIN Width -> Width[t]
    [] t = "String" -> 4 + Len(v.e)
    [] t = "Guid" -> 16
    [] t = "NodeId" -> NodeId_calcSizeBinary(v)
    [] t = "ExpandedNodeId" -> ExpandedNodeId_calcSizeBinary(v)
    [] t = "Variant" -> Variant_calcSizeBinary(v)
    [] t = "ExtensionObject" -> ExtensionObject_calcSizeBinary(v)
    [] t \in Masked -> Masked_calcSizeBinary(t, v)
    [] OTHER -> SumOf([i \in 1..Len(v) |-> IF Structs[t].members[i].array THEN Array_calcSizeBinary(Structs[t].members[i].type, v[i])
                                           ELSE UA_calcSizeBinary(Structs[t].members[i].type, v[i])])

--------------------------------------------------------------------------------
(* Encoding *)

\* The encoder: buffer, capacity, chunks sent, status.
Encoder(cap) == [buf |-> <<>>, cap |-> cap, chunks |-> <<>>, st |-> "Good"]

Bytes(n, w) == IF n = -1 THEN [i \in 1..w |-> 255] ELSE [i \in 1..w |-> IF i > 4 THEN 0 ELSE (n \div <<1, 256, 65536, 16777216>>[i]) % 256]

\* A fixed-size part fits or the status is BADENCODINGLIMITSEXCEEDED; the parts
\* after it are still tried and the statuses or-ed.
Put(e, bytes) == IF Len(e.buf) + Len(bytes) > e.cap THEN [e EXCEPT !.st = "Limits"] ELSE [e EXCEPT !.buf = @ \o bytes]

exchangeBuffer(e) == [e EXCEPT !.chunks = Append(@, e.buf), !.buf = <<>>, !.st = "Good"]

\* Mutant: what was encoded of the part that does not fit stays in the buffer.
Again_notReset(e, old) ==
  IF Len(e.chunks) # Len(old.chunks) THEN [e EXCEPT !.st = "Dangling"]
  ELSE IF old.buf = <<>> THEN [e EXCEPT !.st = "Endless"]
  ELSE exchangeBuffer(e)

\* pos = oldpos; exchangeBuffer(): when a buffer was exchanged since oldpos was
\* taken, oldpos points into the buffer that was sent and freed.
Again(e, old) ==
  IF Len(e.chunks) # Len(old.chunks) THEN [e EXCEPT !.st = "Dangling"]
  ELSE IF old.buf = <<>> THEN [e EXCEPT !.st = "Endless"]
  ELSE exchangeBuffer([e EXCEPT !.buf = old.buf])

\* Array_encodeBinaryOverlayable
RECURSIVE Array_encodeBinaryOverlayable(_, _, _, _)
Array_encodeBinaryOverlayable(e, s, w, done) ==
  IF Len(e.buf) + w * (Len(s) - done) <= e.cap
  THEN [e EXCEPT !.buf = @ \o FlattenSeq([i \in 1 .. (Len(s) - done) |-> Bytes(s[done + i], w)])]
  ELSE LET possible == (e.cap - Len(e.buf)) \div w
       IN Array_encodeBinaryOverlayable(
            exchangeBuffer([e EXCEPT !.buf = @ \o FlattenSeq([i \in 1..possible |-> Bytes(s[done + i], w)])]), s, w, done + possible)

RECURSIVE Encode(_, _, _), Elements(_, _, _, _), Tried(_, _, _, _, _), Members(_, _, _, _), MemberTried(_, _, _, _, _)

\* Parts of a builtin type; statuses are or-ed and no part is skipped.
Or(st, e) == IF st = "Good" \/ e.st \in {"Dangling", "Endless"} THEN e ELSE [e EXCEPT !.st = st]
EncodeAll(e, parts) == FoldLeft(LAMBDA acc, p : Or(acc.st, Encode([acc EXCEPT !.st = "Good"], p[1], p[2])), e, parts)

\* Array_encodeBinaryComplex, and the loop over wrapped structures: an element
\* that does not fit is encoded again in the next buffer.
Elements(e, t, s, i) == IF i > Len(s) THEN e ELSE Tried(Encode(e, t, s[i]), e, t, s, i)
Tried(x, e, t, s, i) ==
  IF x.st = "Good" THEN Elements(x, t, s, i + 1)
  ELSE IF x.st # "Limits" THEN x
  ELSE IF Again(x, e).st # "Good" THEN Again(x, e) ELSE Elements(Again(x, e), t, s, i)

Array_encodeBinary(e, t, a) ==
  LET x == Put(e, Bytes(a.n, 4))
  IN IF x.st # "Good" \/ a.n <= 0 THEN x
     ELSE IF t \in Overlayable THEN Array_encodeBinaryOverlayable(x, a.e, Width[t], 0)
     ELSE Elements(x, t, a.e, 1)

\* UA_encodeBinaryInternal: a member that does not fit is encoded again in the
\* next buffer, unless it is an array.
Members(e, t, v, i) ==
  IF i > Len(v) THEN e
  ELSE IF Structs[t].members[i].array
  THEN LET x == Array_encodeBinary(e, Structs[t].members[i].type, v[i])
       IN IF x.st = "Good" THEN Members(x, t, v, i + 1) ELSE x
  ELSE MemberTried(Encode(e, Structs[t].members[i].type, v[i]), e, t, v, i)
MemberTried(x, e, t, v, i) ==
  IF x.st = "Good" THEN Members(x, t, v, i + 1)
  ELSE IF x.st # "Limits" THEN x
  ELSE IF Again(x, e).st # "Good" THEN Again(x, e) ELSE Members(Again(x, e), t, v, i)

\* The elements of a Variant_encodeBinaryWrapExtensionObject.
Wrap(t, s) ==
  [i \in 1..Len(s) |-> [encoding |-> "decoded", typeId |-> NumericId(Structs[t].binaryId), body |-> NullArr, type |-> t, data |-> <<s[i]>>]]

ExtensionObjectParts(x) ==
  CASE x.encoding = "nobody" -> <<<<"NodeId", x.typeId>>, <<"Byte", 0>>>>
    [] x.encoding = "bytestring" -> <<<<"NodeId", x.typeId>>, <<"Byte", 1>>, <<"String", x.body>>>>
    [] x.encoding = "xml" -> <<<<"NodeId", x.typeId>>, <<"Byte", 2>>, <<"String", x.body>>>>
    [] x.encoding = "decoded" -> <<<<"NodeId", x.typeId>>, <<"Byte", 1>>, <<"Int32", UA_calcSizeBinary(x.type, x.data[1])>>, <<x.type, x.data[1]>>>>

Guid_encodeBinary(e, v) == Put(Put(Put(Put(e, Bytes(v[1], 4)), Bytes(v[2], 2)), Bytes(v[3], 2)), SubSeq(v, 4, 11))

\* encodeBinaryJumpTable
Encode(e, t, v) ==
  CASE t \in DOMAIN Width -> Put(e, Bytes(v, Width[t]))
    [] t = "String" -> Array_encodeBinary(e, "Byte", v)
    [] t = "Guid" -> Guid_encodeBinary(e, v)
    [] t = "NodeId" -> EncodeAll(e, NodeIdParts(v, 0))
    [] t = "ExpandedNodeId" -> EncodeAll(e, ExpandedNodeIdParts(v))
    [] t = "ExtensionObject" -> EncodeAll(e, ExtensionObjectParts(v))
    [] t = "Variant" -> EncodeAll(e, VariantParts(v))
    [] t = "Array" -> Array_encodeBinary(e, v[1], v[2])
    [] t = "Wrapped" -> LET x == IF v.array THEN Put(e, Bytes(v.data.n, 4)) ELSE e
                        IN IF x.st # "Good" THEN x ELSE Elements(x, "ExtensionObject", Wrap(v.type, v.data.e), 1)
    [] t \in Masked -> EncodeAll(Put(e, <<Mask(t, v)>>),
                                 [k \in 1..Len(Present(t, v)) |-> <<Fields(t)[Present(t, v)[k]][2], v[Fields(t)[Present(t, v)[k]][1]][1]>>])
    [] OTHER -> Members(e, t, v, 1)

\* UA_encodeBinary into buffers of cap bytes; the last one is sent at the end.
UA_encodeBinary(t, v, cap) == Encode(Encoder(cap), t, v)
Sent(e) == FlattenSeq(Append(e.chunks, e.buf))

--------------------------------------------------------------------------------
(* Decoding: [v, pos, ok], from the position after pos *)

Bad(pos) == [v |-> 0, pos |-> pos, ok |-> FALSE]
Got(v, pos) == [v |-> v, pos |-> pos, ok |-> TRUE]
Number(in, pos, w) ==
  IF in[pos + w] = 255 /\ w = 4 THEN -1
  ELSE in[pos + 1] + (IF w > 1 THEN 256 * in[pos + 2] ELSE 0) + (IF w > 2 THEN 65536 * in[pos + 3] + 16777216 * in[pos + 4] ELSE 0)

Fixed(in, pos, w) == IF pos + w > Len(in) THEN Bad(pos) ELSE Got(Number(in, pos, w), pos + w)

RECURSIVE Decode(_, _, _), DecodeAll(_, _, _, _), Rest(_, _, _, _), Array_decodeBinary(_, _, _)

Member(t) == [type |-> t, array |-> FALSE]
ArrayMember(t) == [type |-> t, array |-> TRUE]
Plain(types) == [i \in 1..Len(types) |-> Member(types[i])]

\* Decodes a list of members, [type, array] each, and collects the values.
DecodeAll(in, pos, types, vs) ==
  IF types = <<>> THEN Got(vs, pos)
  ELSE Rest(IF types[1].array THEN Array_decodeBinary(in, pos, types[1].type) ELSE Decode(in, pos, types[1].type), in, types, vs)
Rest(r, in, types, vs) == IF r.ok THEN DecodeAll(in, r.pos, Tail(types), Append(vs, r.v)) ELSE r

Map(r, F(_)) == IF r.ok THEN [r EXCEPT !.v = F(r.v)] ELSE r

\* Arrays that can obviously not be decoded.
TooSmall(in, pos, t, n) ==
  \/ pos + (MemSize(t) * n) \div 32 > Len(in)
  \/ t \in Overlayable /\ pos + Width[t] * n > Len(in)

\* Array_decodeBinary, after the length
ArrayBody(in, r, t) ==
  IF ~r.ok THEN r
  ELSE IF r.v <= 0 THEN Got(IF r.v < 0 THEN NullArr ELSE Arr(<<>>), r.pos)
  ELSE IF TooSmall(in, r.pos, t, r.v) THEN Bad(r.pos)
  ELSE Map(DecodeAll(in, r.pos, [i \in 1..r.v |-> Member(t)], <<>>), Arr)
Array_decodeBinary(in, pos, t) == ArrayBody(in, Fixed(in, pos, 4), t)

\* Mutant: a byte string identifier is read as a string one.
IdOf_string(kind, vs) ==
  [t |-> IF kind = "bytestring" THEN "string" ELSE kind, ns |-> vs[1],
   id |-> IF kind = "numeric" THEN <<vs[2]>> ELSE IF kind = "guid" THEN vs[2] ELSE vs[2].e]

\* NodeId_decodeBinary, after the encoding byte
IdOf(kind, vs) == [t |-> kind, ns |-> vs[1], id |-> IF kind = "numeric" THEN <<vs[2]>> ELSE IF kind = "guid" THEN vs[2] ELSE vs[2].e]
NodeIdBody(in, pos, b) ==
  CASE b = 0 -> Map(Fixed(in, pos, 1), NumericId)
    [] b = 1 -> Map(DecodeAll(in, pos, Plain(<<"Byte", "UInt16">>), <<>>), LAMBDA vs : IdOf("numeric", vs))
    [] b = 2 -> Map(DecodeAll(in, pos, Plain(<<"UInt16", "UInt32">>), <<>>), LAMBDA vs : IdOf("numeric", vs))
    [] b = 3 -> Map(DecodeAll(in, pos, Plain(<<"UInt16", "String">>), <<>>), LAMBDA vs : IdOf("string", vs))
    [] b = 4 -> Map(DecodeAll(in, pos, Plain(<<"UInt16", "Guid">>), <<>>), LAMBDA vs : IdOf("guid", vs))
    [] b = 5 -> Map(DecodeAll(in, pos, Plain(<<"UInt16", "String">>), <<>>), LAMBDA vs : IdOf("bytestring", vs))
    [] OTHER -> Bad(pos)

\* ExpandedNodeId_decodeBinary: a namespace URI overrides the index.
ExpandedBody(in, r, hasUri, hasIndex) ==
  IF ~r.ok THEN r
  ELSE Map(DecodeAll(in, r.pos, Plain((IF hasUri THEN <<"String">> ELSE <<>>) \o (IF hasIndex THEN <<"UInt32">> ELSE <<>>)), <<>>),
           LAMBDA vs : [nodeId |-> IF hasUri THEN [r.v EXCEPT !.ns = 0] ELSE r.v,
                        uri |-> IF hasUri THEN vs[1] ELSE NullArr,
                        serverIndex |-> IF hasIndex THEN vs[Len(vs)] ELSE 0])

\* The fields of a masked type; picoseconds are cut off at 9999.
Cut(name, v) == IF name \in {"sourcePicoseconds", "serverPicoseconds"} /\ v > 9999 THEN 9999 ELSE v
MaskedBody(in, pos, t, mask) ==
  LET set == SelectSeq([i \in 1..Len(Fields(t)) |-> i], LAMBDA i : Bit(mask, DecodeBit(t, i)))
  IN Map(DecodeAll(in, pos, [k \in 1..Len(set) |-> Member(Fields(t)[set[k]][2])], <<>>),
         LAMBDA vs : [name \in {Fields(t)[i][1] : i \in 1..Len(Fields(t))} |->
                        FlattenSeq([k \in 1..Len(set) |-> IF Fields(t)[set[k]][1] = name THEN <<Cut(name, vs[k])>> ELSE <<>>])])

\* findDataTypeByBinary
Known(id) == {t \in {x \in DOMAIN Structs : ~IsBuiltin(x)} : id = NumericId(Structs[t].binaryId)}

Extension(e, id, b, t, d) == [encoding |-> e, typeId |-> id, body |-> b, type |-> t, data |-> d]
\* A known type is decoded without a look at the length.
ExtensionObject_decodeBinaryContent(in, pos, id) ==
  IF Known(id) = {} THEN Map(Array_decodeBinary(in, pos, "Byte"), LAMBDA b : Extension("bytestring", id, b, "none", <<>>))
  ELSE LET t == CHOOSE x \in Known(id) : TRUE
       IN Map(Decode(in, pos + 4, t), LAMBDA v : Extension("decoded", id, NullArr, t, <<v>>))
\* ExtensionObject_decodeBinary, after the type id and the encoding byte.
ExtBody(in, pos, id, enc) ==
  IF id.t # "numeric" \/ enc \notin 0..2 THEN Bad(pos)
  ELSE IF enc = 0 THEN Got(Extension("nobody", id, NullArr, "none", <<>>), pos)
  ELSE IF enc = 1 THEN ExtensionObject_decodeBinaryContent(in, pos, id)
  ELSE Map(Array_decodeBinary(in, pos, "Byte"), LAMBDA b : Extension("xml", id, b, "none", <<>>))

\* Variant_decodeBinary: a scalar extension object of a known type is unwrapped.
Unwrapped(x) ==
  IF x.encoding = "decoded" THEN [type |-> x.type, array |-> FALSE, data |-> Arr(x.data), dims |-> NullArr]
  ELSE [type |-> "ExtensionObject", array |-> FALSE, data |-> Arr(<<x>>), dims |-> NullArr]
TypeOf(index) == CHOOSE t \in DOMAIN TypeIndex : TypeIndex[t] = index
VariantBody(in, pos, mask) ==
  IF mask = 0 THEN Got([type |-> "none", array |-> FALSE, data |-> NullArr, dims |-> NullArr], pos)
  ELSE IF ~\E t \in DOMAIN TypeIndex : TypeIndex[t] = mask % 64 THEN Bad(pos)
  ELSE IF ~Bit(mask, 128)
  THEN IF TypeOf(mask % 64) = "ExtensionObject" THEN Map(Decode(in, pos, "ExtensionObject"), Unwrapped)
       ELSE Map(Decode(in, pos, TypeOf(mask % 64)), LAMBDA v : [type |-> TypeOf(mask % 64), array |-> FALSE, data |-> Arr(<<v>>), dims |-> NullArr])
  ELSE Map(DecodeAll(in, pos, <<ArrayMember(TypeOf(mask % 64))>> \o (IF Bit(mask, 64) THEN <<ArrayMember("Int32")>> ELSE <<>>), <<>>),
           LAMBDA vs : [type |-> TypeOf(mask % 64), array |-> TRUE, data |-> vs[1], dims |-> IF Len(vs) = 2 THEN vs[2] ELSE NullArr])

Guid_decodeBinary(in, pos) == DecodeAll(in, pos, Plain(<<"UInt32", "UInt16", "UInt16">> \o [i \in 1..8 |-> "Byte"]), <<>>)

\* decodeBinaryJumpTable
After(r, F(_, _)) == IF r.ok THEN F(r.pos, r.v) ELSE r
Decode(in, pos, t) ==
  CASE t \in DOMAIN Width -> Fixed(in, pos, Width[t])
    [] t = "String" -> Array_decodeBinary(in, pos, "Byte")
    [] t = "Guid" -> Guid_decodeBinary(in, pos)
    [] t = "NodeId" -> After(Fixed(in, pos, 1), LAMBDA p, b : NodeIdBody(in, p, b))
    [] t = "ExpandedNodeId" -> After(Fixed(in, pos, 1), LAMBDA p, b : ExpandedBody(in, NodeIdBody(in, p, b % 64), Bit(b, 128), Bit(b, 64)))
    [] t = "ExtensionObject" -> After(DecodeAll(in, pos, Plain(<<"NodeId", "Byte">>), <<>>), LAMBDA p, vs : ExtBody(in, p, vs[1], vs[2]))
    [] t = "Variant" -> After(Fixed(in, pos, 1), LAMBDA p, b : VariantBody(in, p, b))
    [] t \in Masked -> After(Fixed(in, pos, 1), LAMBDA p, b : MaskedBody(in, p, t, b))
    [] OTHER -> DecodeAll(in, pos, Structs[t].members, <<>>)

UA_decodeBinary(in, t) == Decode(in, 0, t)

--------------------------------------------------------------------------------
(* A sender, a connection that delivers a prefix, a receiver *)

CodecInit ==
  /\ item \in Items /\ stage = "value"
  /\ wire = Encoder(0) /\ cut = 0 /\ got = Bad(0)

Sends ==
  /\ stage = "value" /\ stage' = "sent"
  /\ wire' = UA_encodeBinary(item.type, item.value, item.cap)
  /\ UNCHANGED <<item, cut, got>>

Receive ==
  /\ stage = "sent" /\ wire.st = "Good" /\ stage' = "received"
  /\ \E n \in 0..Len(Sent(wire)) :
       /\ cut' = n
       /\ got' = UA_decodeBinary(SubSeq(Sent(wire), 1, n), item.type)
  /\ UNCHANGED <<item, wire>>

CodecNext == Sends \/ Receive

--------------------------------------------------------------------------------
(* Properties *)

\* What was encoded, in however many buffers, is what is decoded when all of it
\* arrived: masks, widths chosen by the value and nested lengths agree between
\* the encoder and the decoder.  A message of which the end is missing is refused,
\* wherever it was cut, and never decoded as a shorter value.
RoundTrip ==
  stage = "received" => IF cut = Len(Sent(wire)) THEN got = Got(item.value, cut) ELSE ~got.ok

\* Exchanging buffers underneath the encoding loses and repeats nothing: the
\* chunks, none longer than a buffer, join to what one buffer would hold, and
\* a value that was encoded before the exchange does not remain in both.  The size
\* computed before (UA_calcSizeBinary: the length written in front of an extension
\* object, and the buffers allocated by it) is the size written.
ChunksJoin ==
  stage # "value" =>
    /\ wire.st = "Good"
    /\ Sent(wire) = UA_encodeBinary(item.type, item.value, 10000).buf
    /\ \A i \in 1..Len(wire.chunks) : Len(wire.chunks[i]) <= item.cap
    /\ wire.chunks = <<>> => Len(Sent(wire)) = UA_calcSizeBinary(item.type, item.value)
================================================================================
