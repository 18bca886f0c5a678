------------------------------ MODULE JsonObjects ------------------------------
(***************************************************************************)
(* The objects of json-c (json_object.c) with the containers they keep     *)
(* their members in: a hash table with a list through its entries          *)
(* (linkhash.c) and an array that grows (arraylist.c).                     *)
(*                                                                         *)
(* A program owns references: a new object is one, json_object_get adds    *)
(* one, json_object_put gives one up, and adding an object to another one  *)
(* hands one over.  An object is freed with its last reference, and gives  *)
(* up the references of its members then.  The pointer 0 is NULL.  Any     *)
(* allocation may fail; the call then leaves the reference with its caller.*)
(***************************************************************************)
EXTENDS Integers, Sequences, FiniteSets, SequencesExt

CONSTANTS
  Keys,         \* key -> hash value
  TableSize,    \* JSON_OBJECT_DEF_HASH_ENTRIES
  ArraySize,    \* ARRAY_LIST_DEFAULT_SIZE
  MaxIndex,     \* largest index used with put_idx (bound)
  MaxHeld,      \* references to one object the program owns (bound)
  MaxObjects,   \* objects ever made (bound)
  MaxBlocks,    \* blocks of memory there may be for a copy (bound)
  MaxSteps      \* calls of the program (bound)

ASSUME JsonObjectsConstants == TableSize \in Nat \ {0} /\ ArraySize \in Nat \ {0}

VARIABLES
  heap,         \* the objects ever made: [kind, refs, table, order, arr, len]
  held,         \* references the program owns, by object
  want,         \* the members each object ought to have, in order (history)
  exposed,      \* an index was put behind entries that a deletion left (history)
  steps         \* calls made (bound)
objectVars == <<heap, held, want, exposed, steps>>

--------------------------------------------------------------------------------
(* linkhash.c: open addressing; order is the list from head to tail *)

Empty == [k |-> "empty", v |-> 0]
FreedEntry == [k |-> "freed", v |-> 0]
Table(size) == [i \in 1..size |-> Empty]

\* The i-th entry looked at, beginning with the one of the hash value.
At(table, key, i) == ((Keys[key] + i) % Len(table)) + 1
Probe(table, key) == 0..(Len(table) - 1)

\* lh_table_lookup_entry_w_hash: the entry of the key, 0 for none.
lh_table_lookup_entry(table, key) ==
  LET stop == {i \in Probe(table, key) : table[At(table, key, i)].k \in {"empty", key}}
      first == CHOOSE i \in stop : \A j \in stop : i <= j
  IN IF stop = {} \/ table[At(table, key, first)].k = "empty" THEN 0 ELSE At(table, key, first)

\* The first entry that is free is taken and becomes the tail of the list.
Placed(t, key, v) ==
  LET free == {i \in Probe(t.table, key) : t.table[At(t.table, key, i)].k \in {"empty", "freed"}}
      n == At(t.table, key, CHOOSE i \in free : \A j \in free : i <= j)
  IN [t EXCEPT !.table[n] = [k |-> key, v |-> v], !.order = Append(@, n)]

\* lh_table_resize: the entries are inserted again in their order.
lh_table_resize(t, size) ==
  FoldLeft(LAMBDA acc, n : Placed(acc, t.table[n].k, t.table[n].v), [t EXCEPT !.table = Table(size), !.order = <<>>], t.order)

\* lh_table_insert_w_hash: at 66 % the table is doubled first.
IsLoaded(t) == 100 * Len(t.order) >= 66 * Len(t.table)
lh_table_insert(t, key, v) ==
  Placed(IF IsLoaded(t) THEN lh_table_resize(t, 2 * Len(t.table)) ELSE t, key, v)

lh_table_delete_entry(t, n) == [t EXCEPT !.table[n] = FreedEntry, !.order = SelectSeq(@, LAMBDA i : i # n)]

--------------------------------------------------------------------------------
(* arraylist.c: the array keeps what lies behind its length *)

Suffices(t, max) == max < Len(t.arr)
array_list_expand_internal(t, max) ==
  LET double == 2 * Len(t.arr)
      size == IF double < max THEN max ELSE double
  IN IF Suffices(t, max) THEN t ELSE [t EXCEPT !.arr = [i \in 1..size |-> IF i <= Len(t.arr) THEN t.arr[i] ELSE 0]]

\* What array_list_put_idx frees, and the array after it; idx counts from 0.
Overwritten(t, idx) == IF idx < t.len THEN t.arr[idx + 1] ELSE 0
array_list_put_idx(t, idx, v) ==
  LET e == array_list_expand_internal(t, idx + 1)
  IN [e EXCEPT !.arr[idx + 1] = v, !.len = IF @ <= idx THEN idx + 1 ELSE @]

\* array_list_del_idx: the rest moves up, the places it leaves stay as they are.
array_list_del_idx(t, idx, count) ==
  [t EXCEPT !.arr = [i \in 1..Len(t.arr) |-> IF i > idx /\ i + count <= t.len THEN t.arr[i + count] ELSE t.arr[i]],
            !.len = @ - count]

--------------------------------------------------------------------------------
(* Objects *)

New(kind) == [kind |-> kind, refs |-> 1, table |-> IF kind = "object" THEN Table(TableSize) ELSE <<>>, order |-> <<>>,
              arr |-> IF kind = "array" THEN [i \in 1..ArraySize |-> 0] ELSE <<>>, len |-> 0]
Live(h) == {id \in DOMAIN h : h[id].refs > 0}

\* The pointers an object holds, in order.
Pointers(o) == IF o.kind = "object" THEN [i \in 1..Len(o.order) |-> o.table[o.order[i]].v] ELSE [i \in 1..o.len |-> o.arr[i]]

\* json_object_put: with the last reference the members are given up too.
RECURSIVE GivenUp(_, _)
GivenUp(h, id) ==
  IF id = 0 THEN h
  ELSE IF h[id].refs # 1 THEN [h EXCEPT ![id].refs = @ - 1]
  ELSE FoldLeft(GivenUp, [h EXCEPT ![id].refs = 0], Pointers(h[id]))

json_object_new(kind) ==
  /\ Len(heap) < MaxObjects
  /\ heap' = Append(heap, New(kind))
  /\ held' = Append(held, 1) /\ want' = Append(want, <<>>)
  /\ UNCHANGED exposed

\* A reference to an object the program owns, or to a member of one.
Borrowed(id) == held[id] > 0 \/ \E o \in Live(heap) : held[o] > 0 /\ id \in ToSet(Pointers(heap[o]))
json_object_get(id) ==
  /\ Borrowed(id) /\ held[id] < MaxHeld
  /\ heap' = [heap EXCEPT ![id].refs = @ + 1]
  /\ held' = [held EXCEPT ![id] = @ + 1]
  /\ UNCHANGED <<want, exposed>>

json_object_put(id) ==
  /\ held[id] > 0
  /\ heap' = GivenUp(heap, id)
  /\ held' = [held EXCEPT ![id] = @ - 1]
  /\ UNCHANGED <<want, exposed>>

\* The caller avoids loops; the program hands over a reference, or gives NULL.
RECURSIVE Inside(_, _)
Inside(id, o) == id = o \/ \E p \in ToSet(Pointers(heap[o])) \ {0} : Inside(id, p)
Given(v) == v # 0 => held[v] > 0
HandsOver(v) == held' = IF v = 0 THEN held ELSE [held EXCEPT ![v] = @ - 1]

\* Mutant: the value a key had is forgotten.
Replaced_kept(h, o, n, v) == [h EXCEPT ![o].table[n].v = v]

\* A key that is there keeps its entry; its value is given up first.
Replaced(h, o, n, v) == [GivenUp(h, h[o].table[n].v) EXCEPT ![o].table[n].v = v]

ListMember(key, v) == [key |-> key, val |-> v]
Has(list, key) == \E i \in DOMAIN list : list[i].key = key
Added(list, key, v) ==
  IF Has(list, key) THEN [i \in DOMAIN list |-> IF list[i].key = key THEN ListMember(key, v) ELSE list[i]]
  ELSE Append(list, ListMember(key, v))

\* A new key needs memory, for the key and for a larger table.
json_object_object_add(o, key, v) ==
  LET n == lh_table_lookup_entry(heap[o].table, key)
  IN /\ held[o] > 0 /\ heap[o].kind = "object" /\ Given(v) /\ (v \notin {0, o} => ~Inside(o, v))
     /\ \/ (v = o \/ n = 0) /\ UNCHANGED <<heap, held, want, exposed>>
        \/ /\ v # o
           /\ heap' = IF n = 0 THEN [heap EXCEPT ![o] = lh_table_insert(@, key, v)] ELSE Replaced(heap, o, n, v)
           /\ HandsOver(v)
           /\ want' = [want EXCEPT ![o] = Added(@, key, v)]
           /\ UNCHANGED exposed

json_object_object_del(o, key) ==
  LET n == lh_table_lookup_entry(heap[o].table, key)
  IN /\ held[o] > 0 /\ heap[o].kind = "object" /\ n # 0
     /\ heap' = [GivenUp(heap, heap[o].table[n].v) EXCEPT ![o] = lh_table_delete_entry(@, n)]
     /\ want' = [want EXCEPT ![o] = SelectSeq(@, LAMBDA m : m.key # key)]
     /\ UNCHANGED <<held, exposed>>

\* json_object_array_put_idx and, at the length, json_object_array_add; an array that
\* is too small needs memory.
json_object_array_put_idx(o, idx, v) ==
  LET len == heap[o].len
  IN /\ held[o] > 0 /\ heap[o].kind = "array" /\ Given(v) /\ (v # 0 => ~Inside(o, v))
     /\ \/ ~Suffices(heap[o], idx + 1) /\ UNCHANGED <<heap, held, want, exposed>>
        \/ /\ heap' = [GivenUp(heap, Overwritten(heap[o], idx)) EXCEPT ![o] = array_list_put_idx(@, idx, v)]
           /\ HandsOver(v)
           /\ want' = [want EXCEPT ![o] = [i \in 1..(IF idx < len THEN len ELSE idx + 1) |->
                                             IF i = idx + 1 THEN ListMember("none", v) ELSE IF i <= len THEN @[i] ELSE ListMember("none", 0)]]
           /\ exposed' = (exposed \/ \E i \in (len + 1)..idx : i <= Len(heap[o].arr) /\ heap[o].arr[i] # 0)

json_object_array_del_idx(o, idx, count) ==
  /\ held[o] > 0 /\ heap[o].kind = "array" /\ idx + count <= heap[o].len
  /\ heap' = [FoldLeft(GivenUp, heap, SubSeq(heap[o].arr, idx + 1, idx + count)) EXCEPT ![o] = array_list_del_idx(@, idx, count)]
  /\ want' = [want EXCEPT ![o] = SubSeq(@, 1, idx) \o SubSeq(@, idx + count + 1, Len(@))]
  /\ UNCHANGED <<held, exposed>>

--------------------------------------------------------------------------------
(* json_object_deep_copy *)

\* The blocks one more member takes: a key, a larger table or array.
MemberBlocks(o) ==
  IF o.kind = "object" THEN IF IsLoaded(o) THEN 2 ELSE 1
  ELSE IF Suffices(o, o.len + 1) THEN 0 ELSE 1

\* The members of an object one after the other; when one cannot be copied or put in,
\* what there is of it is put and the copy gives up.
RECURSIVE Copied(_, _, _)
CopiedMember(r, o, i) ==
  LET p == Pointers(r.h[o])[i]
      c == IF p = 0 THEN [r EXCEPT !.id = 0] ELSE Copied(r.h, p, r.mem)
      d == IF r.h[o].kind = "object" THEN lh_table_insert(c.h[r.id], r.h[o].table[r.h[o].order[i]].k, c.id)
           ELSE array_list_put_idx(c.h[r.id], c.h[r.id].len, c.id)
      mem == c.mem - MemberBlocks(c.h[r.id])
  IN IF ~r.ok THEN r
     ELSE IF ~c.ok \/ mem < 0 THEN [r EXCEPT !.h = GivenUp(c.h, c.id), !.ok = FALSE]
     ELSE [r EXCEPT !.h = [c.h EXCEPT ![r.id] = d], !.mem = mem]
Copied(h, o, mem) ==
  IF mem = 0 THEN [h |-> h, id |-> 0, mem |-> 0, ok |-> FALSE]
  ELSE FoldLeft(LAMBDA r, i : CopiedMember(r, o, i),
                [h |-> Append(h, New(h[o].kind)), id |-> Len(h) + 1, mem |-> mem - 1, ok |-> TRUE],
                [i \in 1..Len(Pointers(h[o])) |-> i])

\* What a copy ought to be: the objects of the tree as the program made it, each
\* before its members, come to lie behind the first base objects.
RECURSIVE Tree(_)
Tree(o) == <<o>> \o FlattenSeq([i \in DOMAIN want[o] |-> IF want[o][i].val = 0 THEN <<>> ELSE Tree(want[o][i].val)])
TreeSize(v) == IF v = 0 THEN 0 ELSE Len(Tree(v))
CopyOf(members, at) ==
  [i \in DOMAIN members |->
     ListMember(members[i].key,
                IF members[i].val = 0 THEN 0 ELSE at + 1 + FoldLeft(LAMBDA n, m : n + TreeSize(m.val), 0, SubSeq(members, 1, i - 1)))]
CopyWanted(o, base) == LET tree == Tree(o) IN [k \in DOMAIN tree |-> CopyOf(want[tree[k]], base + k)]

\* mem: the blocks there is memory for.
json_object_deep_copy(o, mem) ==
  LET r == Copied(heap, o, mem)
      h == IF r.ok THEN r.h ELSE GivenUp(r.h, r.id)
  IN /\ held[o] > 0 /\ Len(h) <= MaxObjects
     /\ heap' = h
     /\ held' = held \o [i \in 1..(Len(h) - Len(heap)) |-> IF r.ok /\ Len(heap) + i = r.id THEN 1 ELSE 0]
     /\ want' = want \o IF r.ok /\ ~exposed THEN CopyWanted(o, Len(heap)) ELSE [i \in 1..(Len(h) - Len(heap)) |-> <<>>]
     /\ UNCHANGED exposed

\* The program has made one leaf.
ObjectsInit == heap = <<New("leaf")>> /\ held = <<1>> /\ want = <<<<>>>> /\ exposed = FALSE /\ steps = 0

ObjectsNext ==
  /\ steps < MaxSteps /\ steps' = steps + 1
  /\ \/ \E kind \in {"object", "array", "leaf"} : json_object_new(kind)
     \/ \E id \in Live(heap) : json_object_get(id) \/ json_object_put(id)
     \/ \E o \in Live(heap), key \in DOMAIN Keys :
          json_object_object_del(o, key) \/ \E v \in Live(heap) \cup {0} : json_object_object_add(o, key, v)
     \/ \E o \in Live(heap), idx \in 0..MaxIndex :
          \/ \E v \in Live(heap) \cup {0} : json_object_array_put_idx(o, idx, v)
          \/ \E count \in 1..2 : json_object_array_del_idx(o, idx, count)
     \/ \E o \in Live(heap), mem \in 0..MaxBlocks : json_object_deep_copy(o, mem)

--------------------------------------------------------------------------------
(* Properties *)

\* The references of an object are those the program owns and the members of other
\* objects that point to it, so that it is freed with the last of them and not
\* before, through every replacement, deletion, growth and abandoned copy.  The one
\* exception is an array whose entries were deleted and that is then written to
\* behind its end: the old pointers come back.
RefsExact ==
  ~exposed =>
    /\ \A id \in DOMAIN heap :
         heap[id].refs = held[id] + Cardinality({<<o, i>> \in Live(heap) \X (1..(MaxIndex + Cardinality(DOMAIN Keys) + 1)) :
                                                   i <= Len(Pointers(heap[o])) /\ Pointers(heap[o])[i] = id})

\* The members an object is seen to have.
MembersNow(h, o) ==
  [i \in 1..Len(Pointers(h[o])) |-> ListMember(IF h[o].kind = "object" THEN h[o].table[h[o].order[i]].k ELSE "none", Pointers(h[o])[i])]

\* An object has the members it was given, in the order of their first addition,
\* and finds each of them, whatever collides, was deleted or moved to a larger table;
\* a copy has the members of what it was made from, of the same shape at every depth.
MembersKept ==
  ~exposed =>
    \A o \in Live(heap) :
      /\ MembersNow(heap, o) = want[o]
      /\ heap[o].kind = "object" =>
           \A key \in DOMAIN Keys : (lh_table_lookup_entry(heap[o].table, key) # 0) <=> Has(want[o], key)

\* A tree of objects is what the program made it, and lives as long as it is used.
ObjectsExact == RefsExact /\ MembersKept
================================================================================
