----------------------------- MODULE AddressSpace ------------------------------
(***************************************************************************)
(* The nodes of the server as clients change, browse and call them:        *)
(* src/server/ua_services_nodemanagement.c, ua_services_view.c and         *)
(* ua_services_call.c.                                                     *)
(*                                                                         *)
(* Every service runs to its end before the next one starts (the server is *)
(* built without threads), and memory may run out in the middle of it.     *)
(* Attribute values are left to VariableAttributes: an item says whether   *)
(* its attributes can be read and whether they pass the type check.  Every *)
(* change of a reference goes through References.                          *)
(***************************************************************************)
EXTENDS References

CONSTANTS
  Ns0,           \* the nodes the server starts with
  FreshIds,      \* ids the node store may give to a node without an id
  AddItems,      \* AddNodes items clients send
  SplitItems,    \* items the program adds in two halves
  OwnTypes,      \* nodes the program sets a lifecycle on
  MethodItems,   \* method nodes the program adds
  RefItems,      \* references clients add and delete
  Deletable,     \* nodes clients delete
  Calls,         \* objects and methods clients call
  BrowseItems,   \* browse descriptions
  MaxRefs,       \* references of a node added later (bound)
  MaxChanges,    \* services that may change a node (bound)
  MaxTasks,      \* steps of one AddNodes (bound)
  MaxHandles,    \* objects constructed (bound)
  MaxCps,        \* availableContinuationPoints of a session
  Shortages,     \* after how many allocations memory may run out
  Paths,         \* start nodes and relative paths
  OneWayItems    \* those of which clients delete one direction only

ASSUME SpaceConstants ==
  /\ MaxRefs \in Nat /\ MaxTasks \in Nat /\ MaxChanges \in Nat /\ MaxHandles \in Nat /\ MaxCps \in Nat /\ Shortages \subseteq Nat
  /\ OneWayItems \subseteq RefItems /\ \A i \in OneWayItems : i.src # i.target
  /\ \A i \in RefItems : i.fwd \in BOOLEAN
  /\ \A i \in FreshIds : i \notin DOMAIN Ns0

VARIABLES
  space,      \* the node store
  made,       \* handles given out by constructors
  freed,      \* handles destructors were called with
  cps,        \* continuation points of the session, newest first
  outcome,    \* of the last service: a failed AddNodes, a method called, a browse completed
  changes,    \* services that may have changed a node
  loose,      \* references a client took apart: <<source, type, target>>
  lost,       \* handles whose object never got the reference to its type
  copied      \* handles an object shares with a copy of it

spaceVars == <<space, made, freed, cps, outcome, changes, loose, lost, copied>>

Plenty == 1000
Failed(w) == w.st # "Good"

--------------------------------------------------------------------------------
(* Browsing *)

\* returnRelevantNode: direction, reference type, existence and class.
returnRelevantNode(w, d, types, r) ==
  /\ d.direction = "both" \/ r.inverse = (d.direction = "inverse")
  /\ d.type = NullId \/ r.type \in types
  /\ Knows(w, r.target)
  /\ d.classes = {} \/ ClassOf(w, r.target) \in d.classes

\* Mutant: the entries to skip are counted whether they are relevant or not.
browseRelevantReferences_skipsAny(w, d, types, skip, max) ==
  LET refs == Refs(w, d.node)
      hits == SelectSeq([i \in 1..Len(refs) |-> i], LAMBDA i : i > skip /\ returnRelevantNode(w, d, types, refs[i]))
      most == IF max = 0 \/ max > Len(refs) THEN Len(refs) ELSE max
      taken == SubSeq(hits, 1, IF most < Len(hits) THEN most ELSE Len(hits))
  IN [st |-> "Good",
      refs |-> [i \in 1..Len(taken) |-> refs[taken[i]]],
      done |-> Len(taken) < most \/ Last(taken) = Len(refs)]

\* Service_Browse_single without its continuation point: skip the first entries
\* that are relevant, then take up to max (0: all) of the next.
browseRelevantReferences(w, d, types, skip, max) ==
  LET refs == Refs(w, d.node)
      hits == SelectSeq([i \in 1..Len(refs) |-> i], LAMBDA i : returnRelevantNode(w, d, types, refs[i]))
      most == IF max = 0 \/ max > Len(refs) THEN Len(refs) ELSE max
      taken == IF Len(hits) <= skip THEN <<>> ELSE SubSeq(hits, skip + 1, IF skip + most < Len(hits) THEN skip + most ELSE Len(hits))
  IN [st |-> "Good",
      refs |-> [i \in 1..Len(taken) |-> refs[taken[i]]],
      done |-> Len(taken) < most \/ Last(taken) = Len(refs)]

Browsed(w, d, skip, max) ==
  LET types == IF d.subtypes THEN ToSet(getTypeHierarchy(w, d.type, FALSE)) ELSE {d.type}
      None(st) == [st |-> st, refs |-> <<>>, done |-> TRUE]
  IN IF d.type # NullId /\ ClassOf(w, d.type) # "ReferenceType" THEN None("BadReferenceTypeIdInvalid")
     ELSE IF d.type # NullId /\ d.subtypes /\ w.mem = 0 THEN None("BadOutOfMemory")      \* getTypeHierarchy
     ELSE IF ~Knows(w, d.node) THEN None("BadNodeIdUnknown")
     ELSE IF Refs(w, d.node) = <<>> THEN None("Good")
     ELSE IF w.mem = 0 THEN None("BadOutOfMemory")                  \* the array of the results
     ELSE browseRelevantReferences(w, d, IF d.type = NullId THEN {} ELSE types, skip, max)

\* The browse the server itself makes for the children of a node.
ChildrenOf(id) ==
  [node |-> id, type |-> Aggregates, subtypes |-> TRUE, direction |-> "forward", classes |-> {"Object", "Variable", "Method"}]

--------------------------------------------------------------------------------
(* Adding nodes *)

TypeClasses == {"VariableType", "ObjectType", "ReferenceType", "DataType"}

\* checkParentReference
checkParentReference(w, class, parent, type) ==
  IF class = "Object" /\ parent = NullId /\ type = NullId THEN "Good"
  ELSE IF ~Knows(w, parent) THEN "BadParentNodeIdInvalid"
  ELSE IF ClassOf(w, type) # "ReferenceType" THEN "BadReferenceTypeIdInvalid"
  ELSE IF w.sp[type].abstract THEN "BadReferenceNotAllowed"
  ELSE IF class \in TypeClasses
  THEN IF type # HasSubtype THEN "BadReferenceNotAllowed"
       ELSE IF ClassOf(w, parent) # class THEN "BadParentNodeIdInvalid" ELSE "Good"
  ELSE IF isNodeInTree(w, type, HierarchicalReferences) THEN "Good" ELSE "BadReferenceTypeIdInvalid"

\* UA_NodeStore_insert, under an unused id when the node has none.
Insert(w, id, node) ==
  LET free == FreshIds \ DOMAIN w.sp
      key == IF id # NullId THEN id ELSE CHOOSE i \in free : TRUE
  IN IF w.mem = 0 THEN [w |-> Status(w, "BadOutOfMemory"), id |-> NullId]
     ELSE IF Knows(w, id) THEN [w |-> Status(w, "BadNodeIdExists"), id |-> NullId]
     ELSE IF id = NullId /\ free = {} THEN [w |-> Status(w, "bound"), id |-> NullId]
     ELSE [w |-> [w EXCEPT !.sp = [i \in DOMAIN w.sp \cup {key} |-> IF i = key THEN node ELSE w.sp[i]],
                           !.mem = @ - 1, !.st = "Good"], id |-> key]

\* The child carries the modelling rule Mandatory.
mandatoryChild(w, id) == Knows(w, id) /\ Ref(HasModellingRule, Mandatory, FALSE) \in ToSet(Refs(w, id))

\* instanceFindAggregateByBrowsename, from the children of the instance.
instanceFindAggregateByBrowsename(w, children, name) ==
  LET found == SelectSeq(children, LAMBDA r : w.sp[r.target].name = name)
  IN IF found = <<>> THEN NullId ELSE found[1].target

\* The type must exist, have the right class and not be abstract.
TypeFits(w, class, type) ==
  /\ ClassOf(w, type) = (IF class = "Variable" THEN "VariableType" ELSE "ObjectType")
  /\ ~w.sp[type].abstract

\* setObjectInstanceHandle: an object that has a handle keeps it.
Constructed(w, id, type) ==
  IF ClassOf(w, type) = "ObjectType" /\ w.sp[type].lifecycle /\ ClassOf(w, id) = "Object" /\ w.sp[id].handle = 0
  THEN [w EXCEPT !.sp[id].handle = w.made + 1, !.made = @ + 1]
  ELSE w

\* What is left to do of the recursion finish -> instantiate -> children ->
\* finish (built): a stack of tasks in w.todo.  Status codes are or-ed on the way, so a
\* failure anywhere below a node (w.bad) fails the node; its siblings still run.
Task(do, id, other, type, typedef, bad) ==
  [do |-> do, id |-> id, other |-> other, type |-> type, typedef |-> typedef, bad |-> bad]
Push(w, tasks) == [w EXCEPT !.todo = tasks \o @]
Fail(w, st) == [w EXCEPT !.bad = TRUE, !.st = st]
Orred(w) == IF w.st = "Good" THEN w ELSE Fail(w, w.st)

\* The default of Service_AddNode_finish for a node without a type definition;
\* a type node takes its parent.
TypeOf(w, id, parent, typedef) ==
  IF ClassOf(w, id) \in TypeClasses THEN parent
  ELSE IF typedef # NullId THEN typedef
  ELSE IF ClassOf(w, id) = "Variable" THEN BaseDataVariableType ELSE BaseObjectType

\* Service_AddNode_finish up to instantiateNode, which copies the children of
\* the type and of its supertypes.  The node is deleted again on failure.
StartFinish(w, t) ==
  LET class == ClassOf(w, t.id)
      rt == IF class \in TypeClasses THEN HasSubtype ELSE t.type
      type == TypeOf(w, t.id, t.other, t.typedef)
      ok == IF class = "none" THEN "BadNodeIdUnknown"
            ELSE LET parent == checkParentReference(w, class, t.other, rt)
                 IN IF parent # "Good" THEN parent
                    ELSE IF class \notin {"Variable", "Object"} THEN "Good"
                    ELSE IF ~TypeFits(w, class, type) THEN "BadTypeDefinitionInvalid"
                    ELSE IF w.mem = 0 THEN "BadOutOfMemory" ELSE "Good"      \* getTypeHierarchy
      types == IF class \in {"Variable", "Object"} THEN getTypeHierarchy(w, type, TRUE) ELSE <<>>
  IN IF ok # "Good" THEN Fail(deleteNode(w, t.id, TRUE), ok)
     ELSE Push([w EXCEPT !.bad = FALSE],
               [k \in 1..Len(types) |-> Task("children", types[k], t.id, NullId, NullId, FALSE)]
               \o <<Task("built", t.id, t.other, rt, type, w.bad)>>)

\* copyChildNodes
StartChildren(w, t) ==
  LET b == Browsed(w, ChildrenOf(t.id), 0, 0)
  IN IF b.st # "Good" THEN Fail(w, b.st)
     ELSE Push(w, [k \in 1..Len(b.refs) |-> Task("child", b.refs[k].target, t.other, b.refs[k].type, NullId, FALSE)])

\* The copy of an object carries the handle of the object.
Shared(w, handle) == IF handle = 0 THEN w ELSE [w EXCEPT !.copied = @ \cup {handle}]

\* copyChildNode: a child of the type is merged with the child of that name,
\* shared when it is a method, and copied otherwise; optional ones are left out.
copyChildNode(w, t) ==
  LET children == Browsed(w, ChildrenOf(t.other), 0, 0)
      existing == instanceFindAggregateByBrowsename(w, children.refs, w.sp[t.id].name)
      copy == Insert(Shared(w, w.sp[t.id].handle), NullId, [w.sp[t.id] EXCEPT !.refs = <<>>])
  IN IF ~Knows(w, t.id) THEN Fail(w, "BadNodeIdInvalid")
     ELSE IF children.st # "Good" THEN Fail(w, children.st)
     ELSE IF existing # NullId
     THEN IF w.sp[t.id].class = "Method" THEN w
          ELSE Push(w, <<Task("children", t.id, existing, NullId, NullId, FALSE)>>)
     ELSE IF ~mandatoryChild(w, t.id) THEN w
     ELSE IF w.sp[t.id].class = "Method"
     THEN Orred(addReference(w, [src |-> t.other, type |-> t.type, target |-> t.id, fwd |-> TRUE]))
     ELSE IF Failed(copy.w) THEN Orred(copy.w)
     ELSE Push(copy.w, <<Task("finish", copy.id, t.other, t.type, getNodeType(w, t.id), FALSE)>>)

\* typeCheckVariableNode; whether the attributes agree is a field of the node.
typeCheckVariableNode(w, id, type) ==
  IF w.sp[id].class \notin {"Variable", "VariableType"} THEN "Good"
  ELSE IF ClassOf(w, type) # "VariableType" \/ (w.sp[id].class = "Variable" /\ w.sp[type].abstract)
  THEN "BadTypeDefinitionInvalid"
  ELSE IF w.sp[id].fits THEN "Good" ELSE "BadTypeMismatch"

\* Mutant: the components of the node are deleted with it, shared ones too.
Undo_withComponents(w, id, st) ==
  LET parts == SelectSeq(Refs(w, id), LAMBDA r : ~r.inverse /\ r.type = HasComponent)
  IN Fail(deleteNode(FoldLeft(LAMBDA v, r : deleteNode(v, r.target, TRUE), w, parts), id, TRUE), st)

Undo(w, id, st) == Fail(deleteNode(w, id, TRUE), st)

\* An object whose type is not known keeps no destructor for its handle.
Unowned(w, id) ==
  IF Failed(w) /\ ClassOf(w, id) = "Object" /\ w.sp[id].handle # 0 THEN [w EXCEPT !.lost = @ \cup {w.sp[id].handle}] ELSE w

\* The rest of instantiateNode: the constructor, then the reference to the type.
Instantiated(w, t) ==
  IF ClassOf(w, t.id) \notin {"Variable", "Object"} THEN Status(w, "Good")
  ELSE Unowned(addReference(Constructed(w, t.id, t.typedef),
                            [src |-> t.id, type |-> HasTypeDefinition, target |-> t.typedef, fwd |-> TRUE]), t.id)

\* The rest of Service_AddNode_finish: the type check, the reference to the
\* parent; each failure so far deletes the node.
WithParent(w, t) ==
  IF Failed(w) THEN w
  ELSE IF typeCheckVariableNode(w, t.id, t.typedef) # "Good"
  THEN Status(w, typeCheckVariableNode(w, t.id, t.typedef))
  ELSE IF t.other = NullId THEN w
  ELSE addReference(w, [src |-> t.id, type |-> t.type, target |-> t.other, fwd |-> FALSE])

Settled(w, t) == IF Failed(w) THEN Undo(w, t.id, w.st) ELSE [w EXCEPT !.bad = t.bad]

Finish(w, t) == IF w.bad THEN Undo(w, t.id, w.st) ELSE Settled(WithParent(Instantiated(w, t), t), t)

Step(w, t) ==
  CASE t.do = "finish" -> StartFinish(w, t)
    [] t.do = "children" -> StartChildren(w, t)
    [] t.do = "child" -> copyChildNode(w, t)
    [] OTHER -> Finish(w, t)

StepOn(w) == IF w.todo = <<>> THEN w ELSE Step([w EXCEPT !.todo = Tail(@)], Head(w.todo))
Ended(w) == IF w.todo # <<>> THEN Status(w, "bound") ELSE IF w.bad THEN w ELSE Status(w, "Good")

Service_AddNode_finish(w, id, parent, reftype, typedef) ==
  LET run[k \in 0..MaxTasks] ==
        IF k = 0 THEN Push([w EXCEPT !.bad = FALSE], <<Task("finish", id, parent, reftype, typedef, FALSE)>>)
        ELSE StepOn(run[k-1])
  IN Ended(run[MaxTasks])

NewNode(item) ==
  [class |-> item.class, name |-> item.name, abstract |-> FALSE, lifecycle |-> FALSE,
   handle |-> 0, fits |-> item.fits, attached |-> FALSE, executable |-> FALSE, refs |-> <<>>]

\* Service_AddNode_begin: the namespace, the attributes, the store.
Service_AddNode_begin(w, item) ==
  IF item.badNamespace THEN [w |-> Status(w, "BadNodeIdInvalid"), id |-> NullId]
  ELSE IF item.badAttributes THEN [w |-> Status(w, "BadNodeAttributesInvalid"), id |-> NullId]
  ELSE IF item.class = "Method" THEN [w |-> Status(w, "BadNodeClassInvalid"), id |-> NullId]
  ELSE Insert(w, item.id, NewNode(item))

\* Service_AddNodes_single, Service_AddNodes, __UA_Server_addNode
WithId(w, id) == [w |-> w, id |-> IF Failed(w) THEN NullId ELSE id]
Finished(b, item) ==
  IF Failed(b.w) THEN b
  ELSE WithId(Service_AddNode_finish(b.w, b.id, item.parent, item.type, item.typedef), b.id)

Service_AddNodes_single(w, item) == Finished(Service_AddNode_begin(w, item), item)

--------------------------------------------------------------------------------
(* Methods *)

\* The properties of that name: InputArguments, OutputArguments
ArgumentNodes(w, method, name) ==
  SelectSeq(Refs(w, method), LAMBDA r : /\ ~r.inverse /\ r.type = HasProperty
                                        /\ ClassOf(w, r.target) = "Variable"
                                        /\ w.sp[r.target].name = name)

\* The last of them, as UA_Server_addMethodNode_finish goes through its browse.
ArgumentsOf(w, method, name) ==
  LET found == ArgumentNodes(w, method, name) IN IF found = <<>> THEN NullId ELSE Last(found).target

\* The first of them, as a call looks for it.
getArgumentsVariableNode(w, method, name) ==
  LET found == ArgumentNodes(w, method, name) IN IF found = <<>> THEN NullId ELSE Head(found).target

ArgumentItem(method, name) ==
  [id |-> NullId, class |-> "Variable", name |-> name, parent |-> method, type |-> HasProperty,
   typedef |-> PropertyType, fits |-> TRUE, badNamespace |-> FALSE, badAttributes |-> FALSE]

\* One more node that belongs to the method.
Attached(m, r) == [m EXCEPT !.w = r.w, !.args = Append(@, r.id), !.bad = @ \/ Failed(r.w)]

\* UA_Server_addMethodNode_begin and _finish.  An id that is in use is outside
\* the model: the code then reads a node it has freed.  m is the method, its
\* argument nodes and whether a step failed.
WithArguments(m, name, wanted) ==
  IF wanted /\ ArgumentsOf(m.w, m.id, name) = NullId
  THEN Attached(m, Service_AddNodes_single(m.w, ArgumentItem(m.id, name)))
  ELSE [m EXCEPT !.args = Append(@, ArgumentsOf(m.w, m.id, name))]

Cleared(w, id) == deleteNode(w, id, TRUE)
CleanedUp(m) ==
  IF m.bad THEN Status(Cleared(Cleared(Cleared(m.w, m.id), m.args[1]), m.args[2]), "Bad") ELSE m.w

MethodFinished(m, item) ==
  CleanedUp(Attached(m, [w |-> Service_AddNode_finish(m.w, m.id, item.parent, item.type, NullId), id |-> m.id]))

\* The properties of the method, by a browse of its own.
PropertiesOf(id) == [node |-> id, type |-> HasProperty, subtypes |-> FALSE, direction |-> "forward", classes |-> {"Variable"}]

MethodBegun(b, item) ==
  IF Failed(b.w) THEN b.w
  ELSE IF Browsed(b.w, PropertiesOf(b.id), 0, 0).st # "Good" THEN Status(Cleared(b.w, b.id), "BadOutOfMemory")
  ELSE MethodFinished(WithArguments(WithArguments([w |-> b.w, id |-> b.id, args |-> <<>>, bad |-> FALSE],
                                                  "InputArguments", item.in), "OutputArguments", item.out), item)

addMethodNode(w, item) ==
  MethodBegun(Insert(w, item.id, [NewNode(item) EXCEPT !.attached = item.attached, !.executable = item.executable]), item)

\* Service_Call_single up to the call itself: what it returns without calling.  The
\* access control of the configuration allows what the node allows.
Service_Call_single(w, object, method, args) ==
  IF ~Knows(w, method) THEN "BadMethodInvalid"
  ELSE IF ClassOf(w, method) # "Method" THEN "BadNodeClassInvalid"
  ELSE IF ~w.sp[method].attached THEN "BadInternalError"
  ELSE IF ~Knows(w, object) THEN "BadNodeIdInvalid"
  ELSE IF ClassOf(w, object) \notin {"Object", "ObjectType"} THEN "BadNodeClassInvalid"
  ELSE IF ~w.sp[method].executable THEN "BadNotWritable"
  ELSE IF \A r \in ToSet(Refs(w, method)) :
            ~(r.inverse /\ r.target = object /\ isNodeInTree(w, r.type, HasComponent)) THEN "BadMethodInvalid"
  ELSE IF args # (IF getArgumentsVariableNode(w, method, "InputArguments") = NullId THEN 0 ELSE 1) THEN "BadInvalidArgument"
  ELSE "Good"

--------------------------------------------------------------------------------
(* Paths *)

\* translateBrowsePathToNodeIds.  A name is tested at the next element: the
\* nodes of the last element are tested at the end.
walkBrowsePathElement(w, elem, name, current) ==
  LET types == IF elem.subtypes THEN ToSet(getTypeHierarchy(w, elem.type, FALSE)) ELSE {elem.type}
      named == SelectSeq(current, LAMBDA i : Knows(w, i) /\ (name = "" \/ w.sp[i].name = name))
      Next1(i) == SelectSeq(Refs(w, i), LAMBDA r : r.inverse = elem.inverse /\ (elem.type = NullId \/ r.type \in types))
  IN IF elem.type # NullId /\ elem.subtypes /\ ClassOf(w, elem.type) # "ReferenceType" THEN <<>>
     ELSE FoldLeft(LAMBDA acc, i : acc \o [k \in 1..Len(Next1(i)) |-> Next1(i)[k].target], <<>>, named)

translateBrowsePathToNodeIds(w, start, path) ==
  LET walk[k \in 0..Len(path)] ==
        IF k = 0 THEN <<start>>
        ELSE walkBrowsePathElement(w, path[k], IF k = 1 THEN "" ELSE path[k-1].name, walk[k-1])
      targets == SelectSeq(walk[Len(path)], LAMBDA i : Knows(w, i) /\ w.sp[i].name = path[Len(path)].name)
  IN [st |-> IF ~Knows(w, start) THEN "BadNodeIdUnknown" ELSE IF targets = <<>> THEN "BadNoMatch" ELSE "Good",
      targets |-> targets]

--------------------------------------------------------------------------------
(* Services *)

World(mem) ==
  [sp |-> space, mem |-> mem, st |-> "Good", made |-> made, freed |-> freed, lost |-> lost, copied |-> copied,
   todo |-> <<>>, bad |-> FALSE]

\* The relevant references of a browse, now and after the step.
Lists(w, d) == Browsed(w, d, 0, 0).refs

\* A service ends in world w.  A continuation point remembers whether anything
\* it lists was removed since it was made.
Ends(w, op) ==
  /\ changes < MaxChanges /\ w.st # "bound" /\ w.made <= MaxHandles
  /\ changes' = changes + 1
  /\ \A i \in DOMAIN w.sp \ DOMAIN Ns0 : Len(w.sp[i].refs) <= MaxRefs
  /\ space' = w.sp /\ made' = w.made /\ freed' = w.freed /\ lost' = w.lost /\ copied' = w.copied
  /\ cps' = [k \in DOMAIN cps |->
              [cps[k] EXCEPT !.clean = @ /\ IsPrefix(Lists(World(Plenty), cps[k].descr), Lists(w, cps[k].descr))]]
  /\ outcome' = IF op = "AddNodes" /\ Failed(w) THEN <<"not added">> ELSE <<>>

AddNode(item, mem) ==
  /\ Ends(Service_AddNodes_single(World(mem), item).w, "AddNodes")
  /\ UNCHANGED loose

\* The two halves on their own, for a program that changes the node in between.
AddNodeBegin(item) ==
  /\ Ends(Service_AddNode_begin(World(Plenty), item).w, "begin")
  /\ UNCHANGED loose

AddNodeFinish(item) ==
  /\ item.id # NullId
  /\ Ends(Service_AddNode_finish(World(Plenty), item.id, item.parent, item.type, item.typedef), "finish")
  /\ UNCHANGED loose

AddMethodNode(item, mem) ==
  /\ item.id \notin DOMAIN space
  /\ Ends(addMethodNode(World(mem), item), "AddNodes")
  /\ UNCHANGED loose

\* UA_Server_setObjectTypeNode_lifecycleManagement
SetLifecycle(type) ==
  /\ type \in DOMAIN space /\ ~space[type].lifecycle
  /\ LET w == World(Plenty)
     IN Ends(IF space[type].class # "ObjectType" THEN Status(w, "BadNodeClassInvalid")
             ELSE [w EXCEPT !.sp[type].lifecycle = TRUE], "lifecycle")
  /\ UNCHANGED loose

AddReference(item, mem) ==
  /\ Ends(addReference(World(mem), item), "AddReferences")
  /\ UNCHANGED loose

Triple(item) == IF item.fwd THEN <<item.src, item.type, item.target>> ELSE <<item.target, item.type, item.src>>

DeleteReference(item, bidirectional) ==
  /\ bidirectional \/ item \in OneWayItems
  /\ Ends(deleteReference(World(Plenty), item, bidirectional), "DeleteReferences")
  /\ loose' = IF bidirectional THEN loose ELSE loose \cup {Triple(item)}

\* The references that name a node, in its own array or in others.
TripleOf(i, r) == Triple([src |-> i, type |-> r.type, target |-> r.target, fwd |-> ~r.inverse])
TriplesOf(w, id) ==
  UNION {{TripleOf(i, r) : r \in {q \in ToSet(Refs(w, i)) : i = id \/ q.target = id}} : i \in DOMAIN w.sp}

DeleteNode(id, deleteReferences) ==
  /\ Ends(deleteNode(World(Plenty), id, deleteReferences), "DeleteNodes")
  /\ loose' = IF deleteReferences THEN loose ELSE loose \cup TriplesOf(World(Plenty), id)

Call(object, method, args) ==
  LET st == Service_Call_single(World(Plenty), object, method, args)
  IN /\ outcome' = IF st = "Good" THEN <<"called", object, method>> ELSE <<>>
     /\ UNCHANGED <<space, made, freed, cps, changes, loose, lost, copied>>

--------------------------------------------------------------------------------
(* Browse and BrowseNext *)

availableContinuationPoints == MaxCps - Len(cps)

\* A browse that does not finish leaves a continuation point, when one is left.
Browse(d, max, mem) ==
  LET b == Browsed(World(mem), d, 0, max)
      cp == [descr |-> d, index |-> Len(b.refs), max |-> max, seen |-> b.refs, clean |-> TRUE]
  IN /\ cps' = IF b.st = "Good" /\ ~b.done /\ availableContinuationPoints > 0 THEN <<cp>> \o cps ELSE cps
     /\ outcome' = <<>>
     /\ UNCHANGED <<space, made, freed, changes, loose, lost, copied>>

\* An error keeps the continuation point.
BrowseNext(k, release, mem) ==
  LET cp == cps[k]
      b == Browsed(World(mem), cp.descr, cp.index, cp.max)
  IN /\ \/ /\ release
           /\ cps' = RemoveAt(cps, k)
           /\ outcome' = <<>>
        \/ /\ ~release /\ b.st # "Good"
           /\ outcome' = <<>>
           /\ UNCHANGED cps
        \/ /\ ~release /\ b.st = "Good" /\ b.done
           /\ cps' = RemoveAt(cps, k)
           /\ outcome' = IF cp.clean THEN <<"browsed", "all", cp.descr, cp.seen \o b.refs>> ELSE <<>>
        \/ /\ ~release /\ b.st = "Good" /\ ~b.done
           /\ cps' = [cps EXCEPT ![k].index = @ + Len(b.refs), ![k].seen = @ \o b.refs]
           /\ outcome' = <<>>
     /\ UNCHANGED <<space, made, freed, changes, loose, lost, copied>>

--------------------------------------------------------------------------------
\* The handles the program's constructors have given out before.
HandlesOf(sp) == Cardinality({sp[i].handle : i \in DOMAIN sp} \ {0})

SpaceInit ==
  /\ space = Ns0
  /\ made = HandlesOf(Ns0)
  /\ freed = <<>> /\ lost = {} /\ copied = {}
  /\ cps = <<>>
  /\ loose = {}
  /\ changes = 0
  /\ outcome = <<>>

SpaceNext ==
  \/ \E item \in AddItems, mem \in Shortages \cup {Plenty} : AddNode(item, mem)
  \/ \E item \in SplitItems : AddNodeBegin(item) \/ AddNodeFinish(item)
  \/ \E item \in MethodItems, mem \in Shortages \cup {Plenty} : AddMethodNode(item, mem)
  \/ \E item \in RefItems : (\E mem \in {1, Plenty} : AddReference(item, mem))
                            \/ \E both \in BOOLEAN : DeleteReference(item, both)
  \/ \E id \in Deletable, both \in BOOLEAN : DeleteNode(id, both)
  \/ \E id \in OwnTypes : SetLifecycle(id)
  \/ \E c \in Calls, args \in 0..1 : Call(c[1], c[2], args)
  \/ \E d \in BrowseItems, max \in 0..2, mem \in {0, Plenty} : Browse(d, max, mem)
  \/ \E k \in DOMAIN cps, release \in BOOLEAN, mem \in {0, Plenty} : BrowseNext(k, release, mem)

SpaceSpec == SpaceInit /\ [][SpaceNext]_spaceVars
--------------------------------------------------------------------------------
(* Properties *)

Copies(refs, ref) == Cardinality({i \in DOMAIN refs : refs[i] = ref})
BothSides(sp, apart) ==
  \A a \in DOMAIN sp : \A r \in ToSet(sp[a].refs) :
    \/ TripleOf(a, r) \in apart
    \/ r.target \in DOMAIN sp /\ Copies(sp[a].refs, r) = Copies(sp[r.target].refs, Ref(r.type, a, ~r.inverse))

\* The nodes the server starts with have well-formed references, all stored twice.
HasRefs(n) ==
  /\ "refs" \in DOMAIN n /\ n.refs \in Seq(ToSet(n.refs))
  /\ \A r \in ToSet(n.refs) : r.inverse \in BOOLEAN /\ r = Ref(r.type, r.target, r.inverse)
ASSUME Ns0Constants ==
  /\ \A i \in DOMAIN Ns0 : HasRefs(Ns0[i])
  /\ BothSides(Ns0, {})

\* Every reference is stored in both of its nodes, equally often, and both
\* exist, unless a client took it apart itself.  Adding, deleting, failed and
\* undone instantiations keep it so.
TwoSided == BothSides(space, loose)

\* Clients leave the types and the references to them alone.  Then a handle belongs to
\* one object, and its destructor runs once: not while the object lives, and not never.
\* Two handles are worse off, and each is marked where it happens: that of an object for
\* which memory ran out between the constructor and the reference to its type (no
\* destructor runs for it), and that of an object that was copied as the child of a
\* type (each copy may run it once).
HandlesOwned ==
  LET owners(h) == {i \in DOMAIN space : space[i].handle = h}
      gone(h) == {k \in DOMAIN freed : freed[k] = h}
  IN \A h \in (1..made) \ copied :
       \/ h \notin lost /\ Cardinality(owners(h)) = 1 /\ gone(h) = {}
       \/ h \notin lost /\ owners(h) = {} /\ Cardinality(gone(h)) = 1
       \/ h \in lost /\ owners(h) = {} /\ gone(h) = {}

\* An AddNodes that fails, at whatever step and however deep in the children
\* of the type, leaves the nodes that are not types as they were.
FailedAddLeavesNodes ==
  [][outcome' = <<"not added">> =>
       \A i \in DOMAIN space : space[i].class \notin TypeClasses => i \in DOMAIN space' /\ space'[i] = space[i]]_spaceVars

\* While nothing it lists is removed, a browse in pieces delivers every relevant
\* reference once and in order, also those added meanwhile.
BrowseDelivers ==
  /\ \A k \in DOMAIN cps : cps[k].clean => Len(cps[k].seen) = cps[k].index /\ IsPrefix(cps[k].seen, Lists(World(Plenty), cps[k].descr))
  /\ Len(outcome) = 4 => outcome[4] = Lists(World(Plenty), outcome[3])

\* The targets of a path, by definition: the ends of all chains of references
\* whose nodes carry the names of the elements.
PathEnds(w, start, path) ==
  LET types(e) == IF e.subtypes THEN {t \in DOMAIN w.sp : isNodeInTree(w, t, e.type)} ELSE {e.type}
      ends[k \in 0..Len(path)] ==
        IF k = 0 THEN {start} \cap DOMAIN w.sp
        ELSE {i \in DOMAIN w.sp : /\ w.sp[i].name = path[k].name
                                  /\ \E a \in ends[k-1] : \E r \in ToSet(Refs(w, a)) :
                                       r.target = i /\ r.inverse = path[k].inverse /\ r.type \in types(path[k])}
  IN ends[Len(path)]

\* The walk over a path finds the targets of the definition.
PathsFound ==
  \A p \in Paths : ToSet(translateBrowsePathToNodeIds(World(Plenty), p.start, p.path).targets) = PathEnds(World(Plenty), p.start, p.path)

\* What a client sees of the space, piece by piece or along a path, is what is there.
ViewExact == BrowseDelivers /\ PathsFound
================================================================================
