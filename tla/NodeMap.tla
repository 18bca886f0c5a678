-------------------------------- MODULE NodeMap --------------------------------
(***************************************************************************)
(* The node store as its header (src/server/ua_nodestore.h) describes it: *)
(* a map from node ids to nodes.  Insert refuses an id that is present and *)
(* finds an unused id when it is given none; get finds exactly what is     *)
(* stored; replace succeeds only when the node is still the one the copy   *)
(* was made from; remove ends the life of an id.                           *)
(*                                                                         *)
(* Where the code keeps less than the header says, the map says what it    *)
(* does keep:                                                              *)
(*   - "If insertion fails, the node is deleted": not when there is no     *)
(*     memory for a larger table (AbsInsertFails);                         *)
(*   - "In both error cases, the editable node is deleted": not when the   *)
(*     id is unknown (AbsReplace);                                         *)
(*   - replace fails "if the node was already replaced": it may succeed    *)
(*     when a later node of the id lies where the replaced one lay         *)
(*     (Resettled);                                                        *)
(*   - an id that is stored may be inserted again after a removal, and the *)
(*     store is no map from then on (AbsDoubled).                          *)
(***************************************************************************)
EXTENDS Integers

CONSTANTS Ids,   \* node ids
          Keys   \* which tell the copies apart

VARIABLES stored,  \* the ids of the nodes
          drafts,  \* the editable copies in the hands of callers
          reply,   \* the operation that ended last, what it returned (with the id it
                   \* refused), and what became of the node it was given
          holes,   \* a removed node has left a hole that nothing has filled or swept
          exact    \* no id has been inserted while it was stored

mapVars == <<stored, drafts, reply, holes, exact>>

AbsInit ==
  /\ stored = {}
  /\ drafts = {}
  /\ reply = [op |-> "new", id |-> -1, result |-> "good", node |-> "none"]
  /\ holes = FALSE
  /\ exact = TRUE

Answer(op, i, r, n) == reply' = [op |-> op, id |-> i, result |-> r, node |-> n]

\* Insertions only fill holes, or sweep them all.
Sweeps == holes' \in BOOLEAN /\ (holes' => holes)

\* The node of id i is gone.
Outdate(cs, i) == {IF c.id = i THEN [c EXCEPT !.current = FALSE] ELSE c : c \in cs}

\* A node of id i is placed: copies of an earlier one may be taken for copies of it.
Resettled(cs, i) ==
  {Outdate(cs \ again, i) \cup {[c EXCEPT !.current = TRUE] : c \in again} :
     again \in SUBSET {c \in cs : c.id = i /\ ~c.current}}

\* The node is stored under an id that is not in use.
AbsPlaced(op, i, cs) ==
  /\ Answer(op, -1, "good", "stored")
  /\ i \notin stored
  /\ stored' = stored \cup {i}
  /\ drafts' \in Resettled(cs, i)
  /\ Sweeps /\ exact'

\* The id is in use and is not refused: a hole hides its node.
AbsDoubled(op, i) ==
  /\ Answer(op, -1, "good", "stored")
  /\ i \in stored
  /\ holes
  /\ ~exact'

\* Insertion under a given id.
AbsInsert(i) ==
  \/ AbsPlaced("insert", i, drafts)
  \/ AbsDoubled("insert", i)
  \/ /\ Answer("insert", i, "exists", "deleted")
     /\ i \in stored
     /\ Sweeps
     /\ UNCHANGED <<stored, drafts, exact>>

\* Insertion of a node without an id, a new one or a copy: an unused id is chosen.
Handed == {{}} \cup {{c} : c \in drafts}
AbsInsertNull ==
  \E i \in Ids :
    \/ \E g \in Handed : AbsPlaced("insertNull", i, drafts \ g)
    \/ AbsDoubled("insertNull", i)

\* Without memory the node is neither stored nor deleted.
AbsInsertFails ==
  /\ \/ Answer("insert", -1, "nomem", "kept") /\ UNCHANGED drafts
     \/ Answer("insertNull", -1, "nomem", "kept") /\ \E g \in Handed : drafts' = drafts \ g
  /\ UNCHANGED <<stored, holes, exact>>

AbsGet(i) ==
  /\ \/ Answer("get", -1, "good", "none") /\ i \in stored
     \/ Answer("get", i, "null", "none") /\ i \notin stored
  /\ UNCHANGED <<stored, drafts, holes, exact>>

\* NULL does not say whether the id is stored.
AbsGetCopy(i) ==
  \/ /\ Answer("getCopy", -1, "good", "none")
     /\ i \in stored
     /\ \E k \in Keys : drafts' = drafts \cup {[key |-> k, id |-> i, current |-> TRUE]} /\ \A c \in drafts : c.key # k
     /\ UNCHANGED <<stored, holes, exact>>
  \/ /\ Answer("getCopy", i, "null", "none")
     /\ UNCHANGED <<stored, drafts, holes, exact>>

\* A copy is given back: it takes the place of the node, or is refused.  The copy of a
\* node whose id is unknown is neither stored nor deleted.
AbsReplace(c) ==
  /\ \/ /\ Answer("replace", c.id, "unknown", "kept")
        /\ c.id \notin stored
        /\ drafts' = drafts \ {c}
     \/ /\ Answer("replace", c.id, "stale", "deleted")
        /\ c.id \in stored /\ ~c.current
        /\ drafts' = drafts \ {c}
     \/ /\ Answer("replace", -1, "good", "stored")
        /\ c.id \in stored /\ c.current
        /\ drafts' \in Resettled(drafts \ {c}, c.id)
  /\ UNCHANGED <<stored, holes, exact>>

AbsDiscard(c) ==
  /\ drafts' = drafts \ {c}
  /\ Answer("deleteNode", -1, "good", "deleted")
  /\ UNCHANGED <<stored, holes, exact>>

\* The node is deleted.
AbsRemove(i) ==
  \/ /\ Answer("remove", -1, "good", "none")
     /\ i \in stored
     /\ stored' = stored \ {i}
     /\ drafts' = Outdate(drafts, i)
     /\ holes' \in BOOLEAN
     /\ UNCHANGED exact
  \/ /\ Answer("remove", i, "unknown", "none")
     /\ i \notin stored
     /\ UNCHANGED <<stored, drafts, holes, exact>>

\* Once an id has been doubled anything may happen but a return to exactness.
AbsNext ==
  \/ /\ exact
     /\ \/ AbsInsertNull \/ AbsInsertFails
        \/ \E i \in Ids : AbsInsert(i) \/ AbsGet(i) \/ AbsGetCopy(i) \/ AbsRemove(i)
        \/ \E c \in drafts : AbsReplace(c) \/ AbsDiscard(c)
  \/ ~exact /\ ~exact'

AbsSpec == AbsInit /\ [][AbsNext]_mapVars
================================================================================
