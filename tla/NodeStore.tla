------------------------------- MODULE NodeStore -------------------------------
(***************************************************************************)
(* The node store of the server without threads: src/server/ua_nodestore.c *)
(*                                                                         *)
(* A hash map with open addressing and double hashing.  A removed entry    *)
(* leaves a tombstone; the table is rehashed into another prime size when  *)
(* it is three quarters full, or nearly empty.  Lookups probe until they   *)
(* meet the id or a slot that was never used; insertion stops at the first *)
(* slot that holds no entry, tombstones included.                          *)
(*                                                                         *)
(* Ids are numeric node ids of namespace 1, and an entry is its id.        *)
(* replace() compares the address of the stored entry with the one the     *)
(* copy was made from; a copy here records whether the two are equal, and  *)
(* a freed address may be given out again.                                 *)
(*                                                                         *)
(* Nothing is asked of the callers: they insert ids that are stored        *)
(* already, as AddNodes does with an id its client chose, and remove nodes *)
(* they edit.                                                              *)
(***************************************************************************)
EXTENDS Integers, FiniteSets, Sequences

CONSTANTS
  Ids,           \* numeric identifiers, 0 .. n
  HashOf,        \* UA_NodeId_hash on Ids
  Primes,        \* the table of sizes, ascending
  MinSize,       \* UA_NODESTORE_MINSIZE
  ShrinkAbove,   \* a table up to this size is never shrunk (32 in the code)
  MaxDrafts      \* bound on editable copies held by callers

ASSUME StoreConstants ==
  /\ Ids \subseteq Nat /\ IsFiniteSet(Ids)
  /\ HashOf \in [Ids -> Nat]
  /\ Primes \in Seq(Nat) /\ \A k \in 1..Len(Primes) : Primes[k] > 2
  /\ MinSize \in Nat /\ ShrinkAbove \in Nat /\ MaxDrafts \in Nat

\* The sizes reach to twice the nodes there can be: the last one is 4294967291.
ASSUME SizesSuffice ==
  \E k \in 1..Len(Primes) : Primes[k] >= MinSize /\ Primes[k] >= 2 * Cardinality(Ids)

VARIABLES
  entries,   \* per slot: Empty, Tombstone or the id of an entry
  count,     \* ns->count
  copies,    \* editable copies made by getCopy and not yet given back
  answer,    \* the operation that ended last, its result, the id it refused, and
             \* what became of the node it was given
  doubled,   \* history: an id that was stored has been inserted again
  stuck      \* "no", "probing" (a probe that never ends) or "assert"

storeVars == <<entries, count, copies, answer, doubled, stuck>>

Empty == -1
Tombstone == -2

\* Instead of a slot: the id is not there (NULL), or the probing never ends.
NONE == -1
NEVER == -2

size == Len(entries)
Live(tab, s) == tab[s] >= 0
LiveSlots == {s \in DOMAIN entries : Live(entries, s)}
Holds(tab, s, i) == tab[s] = i
Least(S) == CHOOSE x \in S : \A y \in S : x <= y
NoTombstones == \A s \in DOMAIN entries : entries[s] # Tombstone

--------------------------------------------------------------------------------
(* Probing *)

Sizes == {Primes[k] : k \in 1..Len(Primes)}

mod(h, n) == h % n
mod2(h, n) == 1 + (h % (n - 2))

\* The slots probed for id i in a table of n slots (slot 0 of the code is 1).
ProbePath == [i \in Ids |-> [n \in Sizes |->
  [k \in 1..n |-> 1 + ((mod(HashOf[i], n) + (k - 1) * mod2(HashOf[i], n)) % n)]]]

\* The first slot on the path at which a loop stops.  Sizes are prime, so a path
\* visits every slot: a loop that has not ended by then never ends.
FirstStop(i, tab, Stop(_)) ==
  LET path == ProbePath[i][Len(tab)]
  IN IF \E k \in 1..Len(tab) : Stop(path[k])
     THEN path[CHOOSE k \in 1..Len(tab) : Stop(path[k]) /\ \A j \in 1..k-1 : ~Stop(path[j])]
     ELSE NEVER

\* The slot that holds the id, NONE or NEVER.
findNode(i, tab) ==
  LET s == FirstStop(i, tab, LAMBDA t : tab[t] = Empty \/ Holds(tab, t, i))
  IN IF s # NEVER /\ tab[s] = Empty THEN NONE ELSE s

\* A slot to insert the id, NONE when the id is met first, or NEVER.
findSlot(i, tab) ==
  LET s == FirstStop(i, tab, LAMBDA t : ~Live(tab, t) \/ Holds(tab, t, i))
  IN IF s # NEVER /\ Live(tab, s) THEN NONE ELSE s

--------------------------------------------------------------------------------
(* Resizing *)

EmptyTable(n) == [s \in 1..n |-> Empty]

\* higher_prime_index: the binary search finds the first prime that is not
\* below n.
higher_prime(n) ==
  LET fits == {k \in 1..Len(Primes) : Primes[k] >= n}
  IN Primes[Least(fits)]

\* expand() keeps a table that is neither too full nor too empty.
KeepsSize(c, n) == c * 2 < n /\ (c * 8 > n \/ n <= MinSize)

\* What is left of a table whose rehashing failed.
Broken == <<>>

\* The new table t once slot k of the old one has been looked at.  An id that
\* occurs twice has no slot the second time.
Moved(tab, k, t) ==
  IF t = Broken \/ ~Live(tab, k) THEN t
  ELSE LET slot == findSlot(tab[k], t)
       IN IF slot \in {NONE, NEVER} THEN Broken ELSE [t EXCEPT ![slot] = tab[k]]

\* Every live entry, in the order of the old slots, is inserted into the new table.
Rehashed(tab, n) ==
  LET upto[k \in 0..Len(tab)] == IF k = 0 THEN EmptyTable(n) ELSE Moved(tab, k, upto[k-1])
  IN upto[Len(tab)]

\* The table after expand(): the old one when nothing had to change.
expand(tab, c) ==
  LET n == Len(tab)
  IN IF KeepsSize(c, n) THEN tab ELSE Rehashed(tab, higher_prime(c * 2))

--------------------------------------------------------------------------------
(* Operations *)

StoreInit ==
  /\ entries = EmptyTable(higher_prime(MinSize))     \* UA_NodeStore_new
  /\ count = 0
  /\ copies = {}
  /\ answer = [op |-> "new", id |-> -1, result |-> "good", node |-> "none"]
  /\ doubled = FALSE
  /\ stuck = "no"

\* The node given to the call was stored, deleted or kept: neither of the two.
Returns(op, i, r, n) ==
  answer' = [op |-> op, id |-> i, result |-> r, node |-> n] /\ stuck' = "no"

\* A call that never returns, or ends the program.
Dies(why) == stuck' = why /\ UNCHANGED <<entries, count, copies, answer, doubled>>

TooFull == size * 3 <= count * 4

\* Mutant: an entry that is freed does not outdate the copies made of it.
Outdated_none(cs, i) == cs

\* The copies once the entry of id i is freed.
Outdated(cs, i) == {IF c.id = i THEN [c EXCEPT !.current = FALSE] ELSE c : c \in cs}

\* The copies after an entry of id i has come to a new address: one that was freed
\* before, and that copies of an earlier entry still remember, or another.
Readdressed(cs, i) ==
  {Outdated(cs \ again, i) \cup {[c EXCEPT !.current = TRUE] : c \in again} :
     again \in SUBSET {c \in cs : c.id = i /\ ~c.current}}

\* Put the new entry into the table that expand() left behind; cs are the copies
\* that remain.  A slot is found for an id that is stored when a tombstone lies before
\* its entry.
PutAt(tab, slot, i, cs) ==
  /\ entries' = [tab EXCEPT ![slot] = i]
  /\ count' = count + 1
  /\ copies' \in Readdressed(cs, i)
  /\ doubled' = (doubled \/ \E s \in DOMAIN entries : Holds(entries, s, i))

\* UA_NodeStore_insert with an id
Insert(i) ==
  LET tab == IF TooFull THEN expand(entries, count) ELSE entries
      slot == IF tab = Broken THEN NEVER ELSE findSlot(i, tab)
  IN /\ stuck = "no"
     /\ \/ tab = Broken /\ Dies("assert")
        \/ tab # Broken /\ slot = NEVER /\ Dies("probing")
        \/ /\ slot = NONE
           /\ entries' = tab
           /\ Returns("insert", i, "exists", "deleted")
           /\ UNCHANGED <<count, copies, doubled>>
        \/ /\ slot \notin {NONE, NEVER}
           /\ PutAt(tab, slot, i, copies)
           /\ Returns("insert", -1, "good", "stored")

\* The identifiers tried for a node without an id: they start at count + 1 and
\* step by mod2 within the size of the table.
Candidate(n, k) ==
  LET first == count + 1
      step[j \in 0..n] ==
        IF j = 0 THEN first
        ELSE LET next == step[j-1] + mod2(first, n)
             IN IF next >= n THEN next - n ELSE next
  IN step[k]

\* The node of an insertion without an id is a new one, or a copy (the children of a
\* type are copied under new ids).
Given == {{}} \cup {{c} : c \in copies}

\* UA_NodeStore_insert without an id
InsertNull ==
  LET tab == IF TooFull THEN expand(entries, count) ELSE entries
  IN /\ stuck = "no"
     /\ \/ tab = Broken /\ Dies("assert")
        \/ /\ tab # Broken
           /\ LET n == Len(tab)
                  tried == {k \in 0..n : Candidate(n, k) \in Ids => findSlot(Candidate(n, k), tab) # NONE}
                  i == Candidate(n, Least(tried))
              IN /\ tried # {} /\ i \in Ids            \* bound: Ids
                 /\ \/ findSlot(i, tab) = NEVER /\ Dies("probing")
                    \/ /\ findSlot(i, tab) # NEVER
                       /\ \E g \in Given : PutAt(tab, findSlot(i, tab), i, copies \ g)
                       /\ Returns("insertNull", -1, "good", "stored")

\* expand() finds no memory: the call returns before it looks at the node.
InsertFails ==
  /\ stuck = "no" /\ TooFull /\ ~KeepsSize(count, size)
  /\ \/ Returns("insert", -1, "nomem", "kept") /\ UNCHANGED copies
     \/ Returns("insertNull", -1, "nomem", "kept") /\ \E g \in Given : copies' = copies \ g
  /\ UNCHANGED <<entries, count, doubled>>

\* UA_NodeStore_get
Get(i) ==
  LET s == findNode(i, entries)
  IN /\ stuck = "no"
     /\ \/ s = NEVER /\ Dies("probing")
        \/ /\ s # NEVER
           /\ IF s = NONE THEN Returns("get", i, "null", "none") ELSE Returns("get", -1, "good", "none")
           /\ UNCHANGED <<entries, count, copies, doubled>>

\* UA_NodeStore_getCopy.  NULL says that there is no such node, or no memory for the
\* copy.
GetCopy(i) ==
  LET s == findNode(i, entries)
  IN /\ stuck = "no" /\ Cardinality(copies) < MaxDrafts
     /\ \/ s = NEVER /\ Dies("probing")
        \/ /\ s # NEVER
           /\ Returns("getCopy", i, "null", "none")
           /\ UNCHANGED <<entries, count, copies, doubled>>
        \/ /\ s \notin {NONE, NEVER}
           /\ copies' = copies \cup {[key |-> Least((1..MaxDrafts) \ {c.key : c \in copies}), id |-> i, current |-> TRUE]}
           /\ Returns("getCopy", -1, "good", "none")
           /\ UNCHANGED <<entries, count, doubled>>

\* UA_NodeStore_replace.  An unknown id returns before the copy is deleted.  Once an
\* id has two entries, which one a copy is compared with is left open.
Replace(c) ==
  LET s == findNode(c.id, entries)
  IN /\ stuck = "no" /\ c \in copies
     /\ \/ s = NEVER /\ Dies("probing")
        \/ /\ s = NONE
           /\ copies' = copies \ {c}
           /\ Returns("replace", c.id, "unknown", "kept")
           /\ UNCHANGED <<entries, count, doubled>>
        \/ /\ s \notin {NONE, NEVER} /\ (~c.current \/ doubled)
           /\ copies' = copies \ {c}
           /\ Returns("replace", c.id, "stale", "deleted")
           /\ UNCHANGED <<entries, count, doubled>>
        \/ /\ s \notin {NONE, NEVER} /\ (c.current \/ doubled)
           /\ copies' \in Readdressed(copies \ {c}, c.id)
           /\ Returns("replace", -1, "good", "stored")
           /\ UNCHANGED <<entries, count, doubled>>

\* UA_NodeStore_deleteNode on a copy
DeleteNode(c) ==
  /\ stuck = "no" /\ c \in copies
  /\ copies' = copies \ {c}
  /\ Returns("deleteNode", -1, "good", "deleted")
  /\ UNCHANGED <<entries, count, doubled>>

\* A tombstone takes the place of the entry.
Vacated(tab, s) == [tab EXCEPT ![s] = Tombstone]

\* UA_NodeStore_remove; a table that becomes nearly empty is shrunk when there
\* is memory for the smaller one.
RemoveNode(i) ==
  LET s == findNode(i, entries)
      tab == Vacated(entries, s)
      sparse == (count - 1) * 8 < size /\ size > ShrinkAbove
  IN /\ stuck = "no"
     /\ \/ s = NEVER /\ Dies("probing")
        \/ /\ s = NONE
           /\ Returns("remove", i, "unknown", "none")
           /\ UNCHANGED <<entries, count, copies, doubled>>
        \/ /\ s \notin {NONE, NEVER}
           /\ \/ sparse /\ expand(tab, count - 1) = Broken /\ Dies("assert")
              \/ /\ entries' \in {tab} \cup (IF sparse THEN {expand(tab, count - 1)} \ {Broken} ELSE {})
                 /\ count' = count - 1
                 /\ copies' = Outdated(copies, i)
                 /\ Returns("remove", -1, "good", "none")
                 /\ UNCHANGED doubled

StoreNext ==
  \/ InsertNull \/ InsertFails
  \/ \E i \in Ids : Insert(i) \/ Get(i) \/ GetCopy(i) \/ RemoveNode(i)
  \/ \E c \in copies : Replace(c) \/ DeleteNode(c)

StoreSpec == StoreInit /\ [][StoreNext]_storeVars

--------------------------------------------------------------------------------
(* Properties *)

\* What the store holds: the ids that a lookup finds.
Map == INSTANCE NodeMap WITH
  stored <- {i \in Ids : findNode(i, entries) >= 0}, drafts <- copies, reply <- answer,
  holes <- ~NoTombstones, exact <- ~doubled, Keys <- 1..MaxDrafts

\* The hash map implements the map of NodeMap: no step loses, hides or doubles an
\* entry, whatever tombstones and rehashes lie on its way, until an id that is stored is
\* inserted once more while a removed node has left a hole.
ImplementsMap == Map!AbsSpec

================================================================================
