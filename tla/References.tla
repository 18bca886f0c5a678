------------------------------ MODULE References -------------------------------
(***************************************************************************)
(* References between the nodes of the server, and their deletion:         *)
(* src/server/ua_services_nodemanagement.c and ua_server_utils.c.          *)
(*                                                                         *)
(* Every node keeps an array of references.  A reference is stored twice:  *)
(* in its source and, inverse, in its target.  New references go to the    *)
(* end of the array; a deleted one is overwritten by the last.             *)
(*                                                                         *)
(* The operators work on a world w:                                        *)
(*   sp     the nodes, by id (what the node store holds)                   *)
(*   mem    how many more blocks can be allocated to stay during this call;*)
(*          one that is freed again (the result of a browse the server makes*)
(*          itself, a list of types) fails when there is none left         *)
(*   st     the status code of the last operation                          *)
(*   made   handles given out by object constructors                       *)
(*   freed  the handles given to destructors, in that order                *)
(*   lost   handles whose object never got its reference to its type       *)
(*   copied handles that are in the copy of an object, too                 *)
(***************************************************************************)
EXTENDS Integers, Sequences, FiniteSets, SequencesExt

\* Node ids of namespace 0 that the code names.
HierarchicalReferences == "HierarchicalReferences"
Aggregates == "Aggregates"
HasComponent == "HasComponent"
HasProperty == "HasProperty"
HasSubtype == "HasSubtype"
HasTypeDefinition == "HasTypeDefinition"
HasModellingRule == "HasModellingRule"
Mandatory == "Mandatory"
BaseDataVariableType == "BaseDataVariableType"
BaseObjectType == "BaseObjectType"
PropertyType == "PropertyType"
NullId == "null"

Ref(type, target, inverse) == [type |-> type, target |-> target, inverse |-> inverse]

Knows(w, id) == id \in DOMAIN w.sp
Status(w, st) == [w EXCEPT !.st = st]
Refs(w, id) == w.sp[id].refs
ClassOf(w, id) == IF Knows(w, id) THEN w.sp[id].class ELSE "none"

--------------------------------------------------------------------------------
(* One direction of a reference *)

\* addOneWayReference under UA_Server_editNode (without threads: in place).
addOneWayReference(w, id, ref) ==
  IF ~Knows(w, id) THEN Status(w, "BadNodeIdUnknown")
  ELSE IF w.mem = 0 THEN Status(w, "BadOutOfMemory")
  ELSE [w EXCEPT !.sp[id].refs = Append(@, ref), !.mem = @ - 1, !.st = "Good"]

\* The array without its entry i: the last entry takes its place.
DropAt(s, i) == SubSeq([s EXCEPT ![i] = s[Len(s)]], 1, Len(s) - 1)

\* deleteOneWayReference: the last entry that is equal goes.
deleteOneWayReference(w, id, ref) ==
  IF ~Knows(w, id) THEN Status(w, "BadNodeIdUnknown")
  ELSE LET hits == {i \in DOMAIN Refs(w, id) : Refs(w, id)[i] = ref}
       IN IF hits = {} THEN Status(w, "UncertainReferenceNotDeleted")
          ELSE LET last == CHOOSE i \in hits : \A j \in hits : j <= i
               IN [w EXCEPT !.sp[id].refs = DropAt(@, last), !.st = "Good"]

--------------------------------------------------------------------------------
(* Both directions.  An item names the node it is sent for (src), a type, the  *)
(* other node (target) and its direction (fwd).                                *)

\* addReference: the first direction is taken back when the second fails.
SecondDirection(w, item) ==
  IF w.st # "Good" THEN w ELSE addOneWayReference(w, item.target, Ref(item.type, item.src, item.fwd))

\* Mutant: the first direction stays when the second fails.
TakenBack_never(w, near, src) == w

TakenBack(w, near, src) ==
  IF w.st = "Good" THEN w ELSE Status(deleteOneWayReference(w, src, near), w.st)

addReference(w, item) ==
  LET near == Ref(item.type, item.target, ~item.fwd)
  IN IF ~Knows(w, item.src) \/ w.mem = 0 THEN addOneWayReference(w, item.src, near)
     ELSE TakenBack(SecondDirection(addOneWayReference(w, item.src, near), item), near, item.src)

SecondDeleted(w, item) ==
  IF w.st # "Good" THEN w ELSE deleteOneWayReference(w, item.target, Ref(item.type, item.src, item.fwd))

\* deleteReference: the other direction goes only when the client says so.
deleteReference(w, item, bidirectional) ==
  LET near == Ref(item.type, item.target, ~item.fwd)
  IN IF bidirectional THEN SecondDeleted(deleteOneWayReference(w, item.src, near), item)
     ELSE deleteOneWayReference(w, item.src, near)

--------------------------------------------------------------------------------
(* Types *)

\* getNodeType: the first type definition, or the first supertype of a type.
getNodeType(w, id) ==
  LET up == IF w.sp[id].class \in {"Variable", "Object"} THEN [type |-> HasTypeDefinition, inverse |-> FALSE]
            ELSE [type |-> HasSubtype, inverse |-> TRUE]
      hits == {i \in DOMAIN Refs(w, id) : Refs(w, id)[i].type = up.type /\ Refs(w, id)[i].inverse = up.inverse}
  IN IF hits = {} \/ w.sp[id].class = "Method" THEN NullId
     ELSE Refs(w, id)[CHOOSE i \in hits : \A j \in hits : i <= j].target

\* getTypeHierarchy: breadth first along HasSubtype, every id once.  Ids of
\* nodes that are gone, or of another class, are listed but not followed.
getTypeHierarchy(w, root, inverse) ==
  LET Onward(id) == SelectSeq(Refs(w, id), LAMBDA r : r.inverse = inverse /\ r.type = HasSubtype)
      Add(list, r) == IF r.target \in ToSet(list) THEN list ELSE Append(list, r.target)
      walk[k \in 0..Cardinality(DOMAIN w.sp) + 1] ==
        IF k = 0 THEN <<root>>
        ELSE LET l == walk[k-1]
             IN IF k <= Len(l) /\ ClassOf(w, l[k]) = w.sp[root].class
                THEN FoldLeft(Add, l, Onward(l[k])) ELSE l
  IN walk[Cardinality(DOMAIN w.sp) + 1]

\* isNodeInTree along inverse HasSubtype references.  The code recurses without
\* a mark: on a cycle of subtypes it would not return.
isNodeInTree(w, leaf, root) ==
  LET Supertypes(S) == {r.target : r \in {q \in UNION {ToSet(Refs(w, i)) : i \in {j \in S : Knows(w, j)}} :
                                            q.inverse /\ q.type = HasSubtype}}
      up[k \in 0..Cardinality(DOMAIN w.sp)] ==
        IF k = 0 THEN {leaf} ELSE LET below == up[k-1] IN below \cup Supertypes(below)
  IN leaf = root \/ root \in up[Cardinality(DOMAIN w.sp)]

--------------------------------------------------------------------------------
(* Deleting a node *)

\* removeReferences walks the array of the node and deletes the other direction
\* of each entry; an entry that points to the node itself shrinks the array.
removeReferences(w, id) ==
  LET n == Len(Refs(w, id))
      walk[k \in 0..n] ==
        IF k = 0 THEN w
        ELSE LET v == walk[k-1]
             IN IF k > Len(Refs(v, id)) THEN v
                ELSE LET r == Refs(v, id)[k]
                     IN deleteOneWayReference(v, r.target, Ref(r.type, id, ~r.inverse))
  IN walk[n]

\* Mutant: the destructor is forgotten.
Destroyed_never(w, id) == w

\* The destructor of the object type, when the type is found and has one.
Destroyed(w, id) ==
  LET type == getNodeType(w, id)
  IN IF w.sp[id].class = "Object" /\ ClassOf(w, type) = "ObjectType" /\ w.sp[type].lifecycle
     THEN [w EXCEPT !.freed = Append(@, w.sp[id].handle)]
     ELSE w

Removed(w, id) == [w EXCEPT !.sp = [i \in DOMAIN w.sp \ {id} |-> w.sp[i]], !.st = "Good"]

deleteNode(w, id, deleteReferences) ==
  IF ~Knows(w, id) THEN Status(w, "BadNodeIdUnknown")
  ELSE IF deleteReferences THEN Removed(removeReferences(Destroyed(w, id), id), id)
  ELSE Removed(Destroyed(w, id), id)
================================================================================
