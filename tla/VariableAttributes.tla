-------------------------- MODULE VariableAttributes ---------------------------
(***************************************************************************)
(* The attributes of a variable and of its variable type:                  *)
(* src/server/ua_services_attribute.c and the type check of AddNodes in    *)
(* ua_services_nodemanagement.c.                                           *)
(*                                                                         *)
(* The data type, value rank, array dimensions and value of a variable     *)
(* describe each other, and the variable type restricts them.  Each is     *)
(* written on its own, so every write checks against what the others are.  *)
(* The type has the supertype BaseDataVariableType, which allows anything. *)
(***************************************************************************)
EXTENDS Variants, FiniteSets

CONSTANTS
  Above,        \* the data types a data type is a subtype of, itself included
  Known,        \* data types the stack has a description of
  Equivalence,  \* typeEquivalence of the known ones: "none", "enum", "opaque"
  Items,        \* the variables clients add
  TypeItem,     \* the attributes of the variable type
  Values,       \* values sources deliver
  Writes,       \* what clients write to each node: [attr, to, range], the range as a text
  Ranges        \* index ranges of reads, as texts

NullType == "null"
BaseDataType == "Base"
V == "variable"
T == "type"
Sessions == {"admin", "user"}
Attributes == {"value", "dataType", "rank", "dims", "access", "mask", "abstract"}

\* The variants there can be: a scalar is one element without dimensions, which is
\* how the setters make it and how the decoder reads it.
Variant == {v \in [type : Known \cup {NoType}, kind : {"none", "null", "scalar", "array"},
                   elems : Seq(Seq(Int)), dims : Seq(Int)] :
              /\ v.kind = "none" <=> v.type = NoType
              /\ v.kind = "scalar" => v.dims = <<>> /\ Len(v.elems) = 1}
DataValue == [has : BOOLEAN, v : Variant]

\* What the attributes are written with.
Writable == [value |-> DataValue, rank |-> Int, dims |-> Seq(Int), access |-> BOOLEAN,
             mask |-> SUBSET Attributes, abstract |-> BOOLEAN]

IsDescription(item) ==
  /\ item.rank \in Int /\ item.dims \in Seq(Int) /\ item.v \in Variant
  /\ item.access \in BOOLEAN /\ item.mask \subseteq Attributes

ASSUME AttributeConstants ==
  /\ \A t \in DOMAIN Above : t \in Above[t]
  /\ Known \subseteq DOMAIN Above /\ DOMAIN Equivalence = Known
  /\ NoType \notin Known /\ {"Byte", "ByteString"} \subseteq Known
  /\ Values \subseteq Variant
  /\ IsDescription(TypeItem) /\ \A item \in Items : IsDescription(item)
  /\ \A id \in {V, T} : \A w \in Writes[id] :
       w.attr \in Attributes /\ (w.attr # "dataType" => w.to \in Writable[w.attr])

VARIABLES
  nodes,     \* the nodes that exist, of V and T
  source,    \* what the data source delivers
  result     \* of the last service

attrVars == <<nodes, source, result>>

--------------------------------------------------------------------------------
(* Compatibility *)

compatibleDataType(t, constraint) ==
  t # NullType /\ (constraint \in {NullType, BaseDataType} \/ constraint \in Above[t])

\* compatibleValueRankArrayDimensions, for a number of dimensions (0: a scalar)
compatibleValueRankArrayDimensions(rank, n) ==
  CASE rank = -3 -> n <= 1
    [] rank = -2 -> TRUE
    [] rank = -1 -> n = 0
    [] rank = 0  -> n >= 1
    [] OTHER     -> rank > 0 /\ n = rank

compatibleValueRanks(rank, constraint) ==
  CASE constraint = -3 -> rank \in {-1, 1}
    [] constraint = -2 -> TRUE
    [] constraint = -1 -> rank = -1
    [] constraint = 0  -> rank >= 0
    [] OTHER           -> rank = constraint

\* compatibleValueRankValue: an array counts as one dimension, whatever its
\* array dimensions say.
compatibleValueRankValue(rank, v) ==
  \/ v.kind = "null"
  \/ compatibleValueRankArrayDimensions(rank, IF UA_Variant_isScalar(v) THEN Len(v.dims) ELSE 1)

\* compatibleArrayDimensions: 0 in the constraint is a wildcard.
compatibleArrayDimensions(constraint, dims) ==
  \/ constraint = <<>>
  \/ /\ Len(dims) = Len(constraint)
     /\ \A k \in DOMAIN dims : constraint[k] \in {0, dims[k]}

\* convertToMatchingValue: bytes for a byte string, or a type that is encoded
\* the same; EmptyVariant when there is no conversion.
convertToMatchingValue(v, target) ==
  IF target \notin Known THEN EmptyVariant
  ELSE IF target = "Byte" /\ v.type = "ByteString" /\ UA_Variant_isScalar(v)
  THEN Array("Byte", [k \in DOMAIN v.elems[1] |-> <<v.elems[1][k]>>], <<>>)
  ELSE IF Equivalence[target] # "none" /\ Equivalence[target] = Equivalence[v.type]
  THEN [v EXCEPT !.type = target]
  ELSE EmptyVariant

\* typeCheckValue against the description d; a plain array has one dimension.
ShapeFits(d, v) ==
  IF d.dims # <<>>
  THEN compatibleArrayDimensions(d.dims, IF v.dims = <<>> /\ ~UA_Variant_isScalar(v) THEN <<Len(v.elems)>> ELSE v.dims)
  ELSE compatibleValueRankValue(d.rank, v)

typeCheckValue(d, v, ranged) ==
  IF v.type = NoType THEN d.dataType \in {BaseDataType, NullType}
  ELSE compatibleDataType(v.type, d.dataType) /\ (ranged \/ ShapeFits(d, v))

\* The value as it is after the check may have converted it.
Fitted(d, v) ==
  IF v.type = NoType \/ compatibleDataType(v.type, d.dataType) THEN v ELSE convertToMatchingValue(v, d.dataType)

--------------------------------------------------------------------------------
(* Reading *)

\* What the data of the node, or its data source, says.
readValueAttribute(n) == IF n.src = "data" THEN n.val ELSE [has |-> TRUE, v |-> source]

\* getVariableNodeType: what restricts the node.
getVariableNodeType(ns, id) == IF id = V THEN ns[T] ELSE [dataType |-> BaseDataType, rank |-> -2, dims |-> <<>>]

UA_Node_hasSubTypeOrInstances(ns, id) == id = T /\ V \in DOMAIN ns

getUserWriteMask(s, n) == IF s = "admin" THEN Attributes ELSE n.mask
getUserAccessLevel(s, n) == s = "admin" \/ n.access

\* Service_Read_single, which does not ask for the rights.
ReadAttribute(n, attr, text) ==
  LET range == UA_NumericRange_parseFromString(text)
  IN
  IF attr = "value"
  THEN IF text = <<>> THEN [st |-> "Good", v |-> readValueAttribute(n).v]
       ELSE IF range = <<>> THEN [st |-> "BadIndexRangeInvalid", v |-> EmptyVariant]
       ELSE UA_Variant_copyRange(readValueAttribute(n).v, range)
  ELSE IF (attr = "abstract" /\ n.class # "VariableType") \/ (attr = "access" /\ n.class # "Variable")
  THEN [st |-> "BadAttributeIdInvalid", v |-> EmptyVariant]
  ELSE [st |-> "Good", v |-> EmptyVariant]

Service_Read_single(ns, id, attr, text) ==
  IF text # <<>> /\ attr # "value" THEN [st |-> "BadIndexRangeNoData", v |-> EmptyVariant]
  ELSE IF id \notin DOMAIN ns THEN [st |-> "BadNodeIdUnknown", v |-> EmptyVariant]
  ELSE ReadAttribute(ns[id], attr, text)

--------------------------------------------------------------------------------
(* Writing.  Each operator returns the status and the nodes. *)

Done(ns) == [st |-> "Good", ns |-> ns]
Denied(ns, st) == [st |-> st, ns |-> ns]

writeArrayDimensionsAttribute(ns, id, dims) ==
  LET n == ns[id]
      val == readValueAttribute(n)
  IN IF UA_Node_hasSubTypeOrInstances(ns, id) THEN Denied(ns, "BadInternalError")
     ELSE IF \/ ~compatibleValueRankArrayDimensions(n.rank, Len(dims))
             \/ ~compatibleArrayDimensions(getVariableNodeType(ns, id).dims, dims)
             \/ val.has /\ ~compatibleArrayDimensions(dims, val.v.dims)
     THEN Denied(ns, "BadTypeMismatch")
     ELSE Done([ns EXCEPT ![id].dims = dims])

\* Mutant: the rank is compared with the type and not with the value.
writeValueRankAttribute_typeOnly(ns, id, rank) ==
  IF UA_Node_hasSubTypeOrInstances(ns, id) THEN Denied(ns, "BadInternalError")
  ELSE IF ~compatibleValueRanks(rank, getVariableNodeType(ns, id).rank) THEN Denied(ns, "BadTypeMismatch")
  ELSE Done([ns EXCEPT ![id].rank = rank])

writeValueRankAttribute(ns, id, rank) ==
  LET n == ns[id]
      val == readValueAttribute(n)
      count == IF n.dims # <<>> THEN Len(n.dims) ELSE IF UA_Variant_isScalar(val.v) THEN 0 ELSE 1
  IN IF UA_Node_hasSubTypeOrInstances(ns, id) THEN Denied(ns, "BadInternalError")
     ELSE IF ~compatibleValueRanks(rank, getVariableNodeType(ns, id).rank) THEN Denied(ns, "BadTypeMismatch")
     ELSE IF n.dims = <<>> /\ (~val.has \/ val.v.type = NoType) THEN Done([ns EXCEPT ![id].rank = rank])
     ELSE IF ~compatibleValueRankArrayDimensions(rank, count) THEN Denied(ns, "BadTypeMismatch")
     ELSE Done([ns EXCEPT ![id].rank = rank])

writeDataTypeAttribute(ns, id, type) ==
  LET n == ns[id]
      val == readValueAttribute(n)
  IN IF UA_Node_hasSubTypeOrInstances(ns, id) THEN Denied(ns, "BadInternalError")
     ELSE IF \/ ~compatibleDataType(type, getVariableNodeType(ns, id).dataType)
             \/ val.has /\ ~typeCheckValue([n EXCEPT !.dataType = type], val.v, FALSE)
     THEN Denied(ns, "BadTypeMismatch")
     ELSE Done([ns EXCEPT ![id].dataType = type])

\* Mutant: the old value is given up before the range is looked at.
WithRange_clears(ns, id, fitted, has, range) ==
  LET r == Variant_setRange(ns[id].val.v, fitted.elems, range)
  IN IF ~has \/ ~ns[id].val.has THEN Denied(ns, "BadIndexRangeInvalid")
     ELSE IF r.st # "Good" THEN Denied([ns EXCEPT ![id].val = [has |-> FALSE, v |-> EmptyVariant]], r.st)
     ELSE Done([ns EXCEPT ![id].val.v = r.v])

\* writeValueAttributeWithRange: there must be a value on both sides.
WithRange(ns, id, fitted, has, range) ==
  LET r == Variant_setRange(ns[id].val.v, fitted.elems, range)
  IN IF ~has \/ ~ns[id].val.has THEN Denied(ns, "BadIndexRangeInvalid")
     ELSE IF r.st # "Good" THEN Denied(ns, r.st)
     ELSE Done([ns EXCEPT ![id].val.v = r.v])

\* The value is stored, or given to the data source, which may refuse it.
Stored(ns, id, fitted, has, range, ranged) ==
  IF ns[id].src # "data" THEN Denied(ns, "BadWriteNotSupported")
  ELSE IF ranged THEN WithRange(ns, id, fitted, has, range)
  ELSE Done([ns EXCEPT ![id].val = [has |-> has, v |-> fitted]])

writeValueAttribute(ns, id, val, text) ==
  LET ranged == text # <<>>
      range == UA_NumericRange_parseFromString(text)
  IN
  IF ranged /\ range = <<>> THEN Denied(ns, "BadIndexRangeInvalid")
  ELSE IF val.has /\ (\/ val.v.type # NoType /\ Fitted(ns[id], val.v) = EmptyVariant
                      \/ ~typeCheckValue(ns[id], Fitted(ns[id], val.v), ranged))
  THEN Denied(ns, "BadTypeMismatch")
  ELSE Stored(ns, id, IF val.has THEN Fitted(ns[id], val.v) ELSE val.v, val.has, range, ranged)

\* copyAttributeIntoNode: the class and the rights, then the attribute.
MayWrite(ns, s, id, attr) ==
  IF attr = "value" /\ id = V THEN getUserAccessLevel(s, ns[id]) ELSE attr \in getUserWriteMask(s, ns[id])

WrongClass(id, attr) == (attr = "abstract" /\ id = V) \/ (attr = "access" /\ id = T)

Applied(ns, id, w) ==
  CASE w.attr = "value"    -> writeValueAttribute(ns, id, w.to, w.range)
    [] w.attr = "dataType" -> writeDataTypeAttribute(ns, id, w.to)
    [] w.attr = "rank"     -> writeValueRankAttribute(ns, id, w.to)
    [] w.attr = "dims"     -> writeArrayDimensionsAttribute(ns, id, w.to)
    [] w.attr = "access"   -> Done([ns EXCEPT ![id].access = w.to])
    [] w.attr = "mask"     -> Done([ns EXCEPT ![id].mask = w.to])
    [] w.attr = "abstract" -> Done([ns EXCEPT ![id].abstract = w.to])

\* isAbstract checks the right before the class.
copyAttributeIntoNode(ns, s, id, w) ==
  IF w.attr = "access" /\ WrongClass(id, w.attr) THEN Denied(ns, "BadNodeClassInvalid")
  ELSE IF ~MayWrite(ns, s, id, w.attr) THEN Denied(ns, "BadUserAccessDenied")
  ELSE IF WrongClass(id, w.attr) THEN Denied(ns, "BadNodeClassInvalid")
  ELSE Applied(ns, id, w)

\* Service_Write and UA_Server_write, one value.
Service_Write(ns, s, id, w) ==
  IF id \in DOMAIN ns THEN copyAttributeIntoNode(ns, s, id, w) ELSE Denied(ns, "BadNodeIdUnknown")

Whole(v) == [attr |-> "value", to |-> [has |-> TRUE, v |-> v], range |-> <<>>]

--------------------------------------------------------------------------------
(* Adding a variable *)

\* copyStandardAttributes, copyVariableNodeAttributes, copyCommonVariableAttributes
NewVariable(item) ==
  [class |-> "Variable", dataType |-> item.dataType, rank |-> item.rank, dims |-> item.dims,
   val |-> [has |-> TRUE, v |-> item.v], src |-> "data", access |-> item.access, mask |-> item.mask, abstract |-> FALSE]

\* typeCheckVariableNodeWithValue: a value that does not fit is written again,
\* the write may convert it.
typeCheckVariableNodeWithValue(ns, val) ==
  LET n == ns[V]
      vt == ns[T]
      plain == n.dims = <<>> /\ val.has /\ val.v.type # NoType /\ ~UA_Variant_isScalar(val.v)
  IN IF \/ ~compatibleDataType(n.dataType, vt.dataType)
        \/ ~compatibleValueRankArrayDimensions(n.rank, IF plain THEN 1 ELSE Len(n.dims))
        \/ ~compatibleValueRanks(n.rank, vt.rank)
        \/ ~compatibleArrayDimensions(vt.dims, n.dims)
     THEN Denied(ns, "BadTypeMismatch")
     ELSE IF val.has /\ ~typeCheckValue(n, val.v, FALSE) THEN Service_Write(ns, "admin", V, Whole(val.v))
     ELSE Done(ns)

\* The three repairs of typeCheckVariableNode, then the check.  r is the status
\* and the nodes so far, val the value the check works on.
RankRepaired(ns, val) ==
  IF ns[V].rank = 0 /\ (~val.has \/ val.v.type = NoType \/ UA_Variant_isScalar(val.v))
  THEN writeValueRankAttribute(ns, V, -2) ELSE Done(ns)

NoValue(val) == ~val.has \/ val.v.type = NoType

ValueRepaired(r, val) ==
  IF r.st = "Good" /\ NoValue(val) /\ ~NoValue(r.ns[T].val)
  THEN Service_Write(r.ns, "admin", V, Whole(r.ns[T].val.v)) ELSE r

TypeRepaired(r) ==
  IF r.st = "Good" /\ r.ns[V].dataType = NullType THEN writeDataTypeAttribute(r.ns, V, r.ns[T].dataType) ELSE r

CheckedAt(r, val) == IF r.st = "Good" THEN typeCheckVariableNodeWithValue(r.ns, val) ELSE r

typeCheckVariableNode(ns) ==
  LET val == readValueAttribute(ns[V])
  IN IF ns[T].abstract THEN Denied(ns, "BadTypeDefinitionInvalid")
     ELSE CheckedAt(TypeRepaired(ValueRepaired(RankRepaired(ns, val), val)), IF NoValue(val) THEN ns[T].val ELSE val)

Without(ns) == [id \in {T} |-> ns[id]]
With(ns, n) == [id \in {T, V} |-> IF id = V THEN n ELSE ns[id]]

\* A variable that fails the check is deleted again.
Kept(r) == IF r.st = "Good" THEN r ELSE Denied(Without(r.ns), r.st)

\* setDataSource: the value of the node is deleted.
setDataSource(n) == [n EXCEPT !.src = "source", !.val = [has |-> FALSE, v |-> EmptyVariant]]

--------------------------------------------------------------------------------
AttrInit ==
  /\ nodes = [id \in {T} |-> [NewVariable(TypeItem) EXCEPT !.class = "VariableType"]]
  /\ source = EmptyVariant
  /\ result = "Good"

\* A source is only looked at while a node reads from it.
Answer(r) ==
  /\ nodes' = r.ns /\ result' = IF r.st = "Good" THEN "Good" ELSE "Bad"
  /\ source' = IF V \in DOMAIN r.ns /\ r.ns[V].src = "source" THEN source ELSE EmptyVariant

AddVariable ==
  \E item \in Items :
    /\ V \notin DOMAIN nodes
    /\ Answer(Kept(typeCheckVariableNode(With(nodes, NewVariable(item)))))

\* UA_Server_addDataSourceVariableNode: begin, set the source, finish.  What
\* finish returns is dropped.
AddDataSourceVariable ==
  \E item \in Items :
    /\ V \notin DOMAIN nodes
    /\ Answer(Done(Kept(typeCheckVariableNode(With(nodes, setDataSource(NewVariable(item))))).ns))

DeleteVariable ==
  /\ V \in DOMAIN nodes
  /\ Answer(Done(Without(nodes)))

SetDataSource ==
  /\ V \in DOMAIN nodes
  /\ Answer(Done([nodes EXCEPT ![V] = setDataSource(@)]))

SourceChanges ==
  /\ V \in DOMAIN nodes /\ nodes[V].src = "source"
  /\ source' \in Values
  /\ UNCHANGED <<nodes, result>>

Write == \E s \in Sessions, id \in {V, T} : \E w \in Writes[id] : Answer(Service_Write(nodes, s, id, w))

ReadRequest ==
  \E id \in {V, T}, attr \in {"value", "dims", "access", "abstract"}, text \in Ranges :
    /\ text # <<>> /\ id \in DOMAIN nodes => readValueAttribute(nodes[id]).v.type # NoType
    /\ result' = IF Service_Read_single(nodes, id, attr, text).st = "Good" THEN "Good" ELSE "Bad"
    /\ UNCHANGED <<nodes, source>>

AttrNext ==
  \/ AddVariable \/ AddDataSourceVariable \/ DeleteVariable \/ SetDataSource \/ SourceChanges
  \/ Write \/ ReadRequest

AttrSpec == AttrInit /\ [][AttrNext]_attrVars

--------------------------------------------------------------------------------
\* The description of a variable stays within what its type allows.
Describes(n, vt) ==
  /\ compatibleDataType(n.dataType, vt.dataType)
  /\ compatibleValueRanks(n.rank, vt.rank)
  /\ compatibleArrayDimensions(vt.dims, n.dims)
  /\ n.dims # <<>> => compatibleValueRankArrayDimensions(n.rank, Len(n.dims))

\* A value has the type and the shape that its description demands.
ValueFits(n) ==
  LET v == n.val.v
  IN n.src = "data" /\ n.val.has /\ v.type # NoType =>
       /\ compatibleDataType(v.type, n.dataType)
       /\ UA_Variant_isScalar(v) => n.rank \in {-3, -2, -1} /\ n.dims = <<>>
       /\ v.kind = "array" => n.rank \in {-3, -2} \cup Nat /\ ShapeFits(n, v)

\* The description and the value of a variable agree, whatever was written to
\* either in whatever order: data type, rank and dimensions stay within what the
\* variable type allows, the dimensions match the rank, and a value that is
\* present has the type and the shape the description demands.
AttributesAgree == V \in DOMAIN nodes => Describes(nodes[V], nodes[T]) /\ ValueFits(nodes[V])

\* A service that reports an error has changed nothing, although the type check
\* of AddNodes writes to the node it checks.
ErrorsChangeNothing == [][result' # "Good" => UNCHANGED nodes]_attrVars
================================================================================
