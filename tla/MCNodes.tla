-------------------------------- MODULE MCNodes --------------------------------
(***************************************************************************)
(* What the server keeps of its nodes, each part on its own: the table the *)
(* nodes are found in, and the attributes of one variable.                 *)
(***************************************************************************)
EXTENDS NodeStore, VariableAttributes

VARIABLE half

MCHash == [i \in Ids |-> <<0, 3, 5>>[i + 1]]
MCPrimes == <<3, 7, 11, 23>>

MCAbove == [t \in {"Base", "Number", "Int32", "Double", "Enum", "Byte", "ByteString"} |->
              IF t = "Int32" THEN {"Int32", "Number", "Base"}
              ELSE IF t = "Double" THEN {"Double", "Number", "Base"}
              ELSE {t, "Base"}]
MCKnown == {"Base", "Int32", "Double", "Enum", "Byte", "ByteString"}
MCEquivalence == [t \in MCKnown |-> IF t \in {"Int32", "Enum"} THEN "enum" ELSE IF t = "ByteString" THEN "opaque" ELSE "none"]

one == Scalar("Int32", <<1>>)
two == Array("Int32", <<<<1>>, <<2>>>>, <<>>)
square == Array("Int32", <<<<1>>, <<1>>, <<1>>, <<1>>>>, <<2, 2>>)
real == Array("Double", <<<<3>>, <<3>>>>, <<>>)
bytes == Scalar("ByteString", <<5, 6>>)
MCValues == {EmptyVariant, one, square}

Item(dt, rank, dims, v) == [dataType |-> dt, rank |-> rank, dims |-> dims, v |-> v, access |-> TRUE, mask |-> {"dataType", "rank", "mask"}]
MCItems == {Item("null", 0, <<>>, EmptyVariant), Item("Int32", -1, <<>>, one), Item("Number", 1, <<>>, two),
            Item("Enum", -3, <<>>, one), Item("Byte", 1, <<2>>, bytes), Item("Base", 2, <<2, 0>>, square)}
MCTypeItem == Item("Base", -2, <<>>, EmptyVariant)
\* "0:1,0" is the first column; "1:1" is no range.
cell == <<0, COLON, 1, COMMA, 0>>
MCRanges == {<<>>, <<1>>, <<1, COLON, 1>>}

W(attr, to) == [attr |-> attr, to |-> to, range |-> <<>>]
Val(v) == W("value", [has |-> TRUE, v |-> v])
Part(v, text) == [attr |-> "value", to |-> [has |-> TRUE, v |-> v], range |-> text]
MCWrites == [id \in {V, T} |->
  IF id = V
  THEN {Val(v) : v \in {EmptyVariant, one, two, square, real, bytes}} \cup {W("value", [has |-> FALSE, v |-> EmptyVariant])}
       \cup {Part(one, <<1>>), Part(real, cell), Part(one, <<1, COLON, 1>>)}
       \cup {W("dataType", t) : t \in {"Base", "Number", "Int32", "Byte"}} \cup {W("rank", r) : r \in -3..2}
       \cup {W("dims", d) : d \in {<<>>, <<0>>, <<2, 2>>}} \cup {W("access", FALSE), W("abstract", TRUE)}
  ELSE {Val(one), W("dataType", "Number"), W("rank", -3), W("dims", <<0>>), W("abstract", TRUE), W("access", TRUE)}]

Init == half \in {"store", "attributes"} /\ StoreInit /\ AttrInit
Next ==
  \/ half = "store" /\ StoreNext /\ UNCHANGED <<half, attrVars>>
  \/ half = "attributes" /\ AttrNext /\ UNCHANGED <<half, storeVars>>
Spec == Init /\ [][Next]_<<half, storeVars, attrVars>>
================================================================================
