---------------------------- MODULE MCAddressSpace -----------------------------
(* A pump type with a mandatory variable, a mandatory method and an object     *)
(* that is optional until a client gives it the rule; the nodes of namespace 0 *)
(* it needs; one device folder.  The motor was made by a constructor.          *)
EXTENDS AddressSpace

Node(class, name, abstract) ==
  [class |-> class, name |-> name, abstract |-> abstract, lifecycle |-> FALSE, handle |-> 0, fits |-> TRUE,
   attached |-> class = "Method", executable |-> class = "Method", refs |-> <<>>]

Bare == [i \in {HierarchicalReferences, Aggregates, HasComponent, HasProperty, HasSubtype, HasTypeDefinition,
                HasModellingRule} |-> Node("ReferenceType", i, i \in {HierarchicalReferences, Aggregates})]
        @@ [i \in {BaseDataVariableType, PropertyType} |-> Node("VariableType", i, FALSE)]
        @@ (BaseObjectType :> [Node("ObjectType", "BaseObjectType", FALSE) EXCEPT !.lifecycle = TRUE])
        @@ ("PumpType" :> [Node("ObjectType", "PumpType", FALSE) EXCEPT !.lifecycle = TRUE])
        @@ [i \in {Mandatory, "Objects"} |-> Node("Object", i, FALSE)]
        @@ ("rpm" :> Node("Variable", "rpm", FALSE)) @@ ("start" :> Node("Method", "start", FALSE))
        @@ ("motor" :> [Node("Object", "motor", FALSE) EXCEPT !.handle = 1])

Edges == << <<HierarchicalReferences, HasSubtype, Aggregates>>, <<HierarchicalReferences, HasSubtype, HasSubtype>>,
            <<Aggregates, HasSubtype, HasComponent>>, <<Aggregates, HasSubtype, HasProperty>>,
            <<BaseDataVariableType, HasSubtype, PropertyType>>, <<BaseObjectType, HasSubtype, "PumpType">>,
            <<"PumpType", HasComponent, "rpm">>, <<"PumpType", HasComponent, "start">>, <<"PumpType", HasComponent, "motor">>,
            <<"rpm", HasModellingRule, Mandatory>>, <<"start", HasModellingRule, Mandatory>>,
            <<"rpm", HasTypeDefinition, BaseDataVariableType>>, <<"motor", HasTypeDefinition, BaseObjectType>> >>

MCNs0 == FoldLeft(LAMBDA w, e : addReference(w, [src |-> e[1], type |-> e[2], target |-> e[3], fwd |-> TRUE]),
                  [sp |-> Bare, mem |-> Plenty, st |-> "Good", made |-> 0, freed |-> <<>>], Edges).sp

Item(id, class, name, parent, type, typedef) ==
  [id |-> id, class |-> class, name |-> name, parent |-> parent, type |-> type, typedef |-> typedef,
   fits |-> TRUE, badNamespace |-> FALSE, badAttributes |-> FALSE]

MCAddItems ==
  {Item("pump", "Object", "pump", "Objects", HasComponent, "PumpType"),
   [Item("tag", "Variable", "rpm", "pump", HasComponent, NullId) EXCEPT !.fits = FALSE],
   Item("tag", "Variable", "rpm", "pump", HasComponent, NullId),
   Item("sub", "ObjectType", "sub", BaseObjectType, HasSubtype, NullId)}
MCSplitItems == {Item("pump", "Object", "pump", "Objects", HasComponent, "PumpType")}

MCMethodItems == {[Item("stop", "Method", "stop", "pump", HasComponent, NullId) EXCEPT !.class = "Method"]
                    @@ [in |-> TRUE, out |-> FALSE, attached |-> TRUE, executable |-> TRUE]}

MCRefItems == {[src |-> "pump", type |-> HasComponent, target |-> "pump", fwd |-> TRUE],
               [src |-> "motor", type |-> HasModellingRule, target |-> Mandatory, fwd |-> TRUE]}

MCOneWayItems == {r \in MCRefItems : r.src # r.target}
MCDeletable == {"pump", "start", "stop"}
MCCalls == {<<"pump", "start">>, <<"pump", "stop">>}
Forward(n) == [node |-> n, type |-> Aggregates, subtypes |-> TRUE, direction |-> "forward", classes |-> {}]
MCBrowseItems == {Forward("pump")}
Elem(type, subtypes, name) == [type |-> type, subtypes |-> subtypes, inverse |-> FALSE, name |-> name]
MCPaths == {[start |-> "Objects", path |-> <<Elem(Aggregates, TRUE, first), Elem(HasComponent, FALSE, "rpm")>>] : first \in {"pump", "motor"}}
\* In the middle of the copied variable, in the second half of the reference to the type
\* and in that of the reference to the parent.
MCShortages == {3, 9, 11}
================================================================================
