---------------------------- MODULE Nodes_proofs -----------------------------
(***************************************************************************)
(* What the server keeps of its nodes.  The hash map of the node store     *)
(* implements the map of NodeMap, for any set of ids, any hash function    *)
(* and any table of sizes, whatever its callers ask for.  The attributes   *)
(* of a variable agree with each other and with its type, for any data     *)
(* types, values and writes.                                               *)
(***************************************************************************)
EXTENDS NodeStore, VariableAttributes, Numbers_proofs

-----------------------------------------------------------------------------
(* The invariant.                                                          *)

Slots(tab) == 1 .. Len(tab)

\* The ids that some slot of a table holds.
Holding(tab) == {i \in Ids : \E s \in Slots(tab) : tab[s] = i}

Clean(tab) == \A s \in Slots(tab) : tab[s] # Tombstone

Table(tab) == tab \in Seq(Ids \cup {Empty, Tombstone}) /\ Len(tab) \in Sizes

\* No id is held twice.
Once(tab) == \A s, t \in Slots(tab) : tab[s] \in Ids /\ tab[s] = tab[t] => s = t

\* The k-th slot probed for id i is s, and the probing gets there: none of the
\* slots before it has never been used.
Path(i, tab) == ProbePath[i][Len(tab)]
Reaches(i, tab, k, s) ==
  /\ Path(i, tab)[k] = s
  /\ \A j \in 1 .. k-1 : tab[Path(i, tab)[j]] # Empty

\* The probing for every id that is held gets to its slot.
Reached(tab) ==
  \A s \in Slots(tab) : tab[s] \in Ids => \E k \in Slots(tab) : Reaches(tab[s], tab, k, s)

Sound(tab) == Table(tab) /\ Once(tab) /\ Reached(tab)

Copies == [key : 1 .. MaxDrafts, id : Ids, current : BOOLEAN]

\* As long as no stored id has been inserted again.
Intact ==
  /\ doubled = FALSE
  /\ Sound(entries)
  /\ count = Cardinality(Holding(entries))
  /\ copies \in SUBSET Copies /\ IsFiniteSet(copies)

StoreInv == doubled = TRUE \/ Intact

-----------------------------------------------------------------------------
(* Sizes and paths.                                                        *)

\* Ids are numbers, and no number of an id marks a slot as free.
LEMMA IdsAreLive ==
  /\ Ids \subseteq Nat /\ Empty \notin Ids /\ Tombstone \notin Ids /\ Empty # Tombstone
  /\ NONE < 0 /\ NEVER < 0 /\ NONE # NEVER
BY StoreConstants DEF Empty, Tombstone, NONE, NEVER

\* Every size leaves room for the step of the probing.
LEMMA SizesAreNumbers ==
  ASSUME NEW n \in Sizes
  PROVE  n \in Nat /\ n > 2
BY StoreConstants DEF Sizes

\* Every slot probed is a slot of the table.
LEMMA PathsStay ==
  ASSUME NEW tab, Table(tab), NEW i \in Ids, NEW k \in Slots(tab)
  PROVE  Path(i, tab)[k] \in Slots(tab)
<1> DEFINE n == Len(tab)
           h == mod(HashOf[i], n) + (k - 1) * mod2(HashOf[i], n)
<1>1. n \in Nat /\ n > 2 /\ n \in Sizes
  BY SizesAreNumbers DEF Table
<1>2. HashOf[i] \in Nat
  BY StoreConstants
<1>3. mod(HashOf[i], n) \in Nat /\ mod2(HashOf[i], n) \in Nat
  BY <1>1, <1>2 DEF mod, mod2
<1>4. k \in Int
  BY <1>1 DEF Slots
<1>5. (k - 1) * mod2(HashOf[i], n) \in Int
  BY <1>3, <1>4
<1>6. h \in Int
  BY <1>3, <1>5
<1>7. Path(i, tab)[k] = 1 + (h % n)
  BY <1>1 DEF Path, ProbePath, Slots
<1> HIDE DEF h
<1> QED
  BY <1>1, <1>6, <1>7 DEF Slots

\* Of a set of steps there is a first one.
LEMMA FirstOf ==
  ASSUME NEW n \in Nat, NEW Stops \in SUBSET (1 .. n), Stops # {}
  PROVE  \E k \in Stops : \A j \in 1 .. k-1 : j \notin Stops
<1>1. Stops \in SUBSET (0 .. n)
  OBVIOUS
<1>2. PICK k \in Stops : \A j \in Stops : k <= j
  BY <1>1, LeastNumber
<1>3. \A j \in 1 .. k-1 : ~(k <= j)
  BY <1>1, SMT
<1> QED
  BY <1>2, <1>3

\* Least(S) of a set of numbers up to a bound is one of them.
LEMMA LeastIsMember ==
  ASSUME NEW n \in Nat, NEW S \in SUBSET (0 .. n), S # {}
  PROVE  Least(S) \in S
BY LeastNumber DEF Least

\* higher_prime finds a size as long as there is one that is large enough.
LEMMA HigherPrime ==
  ASSUME NEW m \in Nat, m <= MinSize \/ m <= 2 * Cardinality(Ids)
  PROVE  higher_prime(m) \in Sizes
<1> DEFINE fits == {k \in 1 .. Len(Primes) : Primes[k] >= m}
<1>1. Len(Primes) \in Nat /\ \A k \in 1 .. Len(Primes) : Primes[k] \in Nat
  BY StoreConstants
<1>2. Cardinality(Ids) \in Nat /\ MinSize \in Nat
  BY StoreConstants, FS_CardinalityType
<1>3. fits # {}
  BY <1>1, <1>2, SizesSuffice
<1>4. fits \in SUBSET (0 .. Len(Primes))
  OBVIOUS
<1>5. Least(fits) \in fits
  BY <1>1, <1>3, <1>4, LeastIsMember
<1> QED
  BY <1>5 DEF higher_prime, Sizes

-----------------------------------------------------------------------------
(* Finding.                                                                *)

\* A lookup finds the slot of an id that is held, and otherwise no slot.
LEMMA Finding ==
  ASSUME NEW tab, Sound(tab), NEW i \in Ids
  PROVE  \/ findNode(i, tab) \in Slots(tab) /\ tab[findNode(i, tab)] = i
         \/ findNode(i, tab) \in {NONE, NEVER} /\ i \notin Holding(tab)
<1> DEFINE n == Len(tab)
           p == Path(i, tab)
           Stop(k) == tab[p[k]] = Empty \/ tab[p[k]] = i
           Stops == {k \in 1 .. n : Stop(k)}
           c == CHOOSE k \in 1 .. n : Stop(k) /\ \A j \in 1 .. k-1 : ~Stop(j)
<1>1. n \in Nat /\ \A k \in 1 .. n : p[k] \in Slots(tab)
  BY SizesAreNumbers, PathsStay DEF Sound, Table, Slots
<1>2. findNode(i, tab) =
        LET s == IF \E k \in 1 .. n : Stop(k) THEN p[c] ELSE NEVER
        IN IF s # NEVER /\ tab[s] = Empty THEN NONE ELSE s
  BY DEF findNode, FirstStop, Path, Holds
<1>3. ASSUME NEW s \in Slots(tab), tab[s] = i
      PROVE  \E k \in Stops : p[k] = s /\ \A j \in 1 .. k-1 : tab[p[j]] # Empty
  BY <1>3 DEF Sound, Reached, Reaches, Slots
<1>4. CASE Stops = {}
  <2>1. i \notin Holding(tab)
    BY <1>3, <1>4 DEF Holding
  <2>2. findNode(i, tab) = NEVER
    BY <1>2, <1>4
  <2> QED
    BY <2>1, <2>2
<1>5. CASE Stops # {}
  <2>1. \E k \in Stops : \A j \in 1 .. k-1 : j \notin Stops
    <3>1. Stops \in SUBSET (1 .. n)
      OBVIOUS
    <3> HIDE DEF Stops
    <3> QED
      BY <1>1, <1>5, <3>1, FirstOf
  <2>2. \E k \in 1 .. n : Stop(k) /\ \A j \in 1 .. k-1 : ~Stop(j)
    BY <1>1, <2>1
  <2>3. c \in 1 .. n /\ Stop(c) /\ \A j \in 1 .. c-1 : ~Stop(j)
    BY <2>2
  <2>4. p[c] \in Slots(tab) /\ p[c] # NEVER
    BY <1>1, <2>3, IdsAreLive DEF Slots
  <2>5. findNode(i, tab) = IF tab[p[c]] = Empty THEN NONE ELSE p[c]
    BY <1>2, <2>3, <2>4
  <2> HIDE DEF c
  <2>6. CASE tab[p[c]] # Empty
    BY <2>3, <2>4, <2>5, <2>6
  <2>7. CASE tab[p[c]] = Empty
    <3>1. ASSUME NEW s \in Slots(tab), tab[s] = i PROVE FALSE
      <4>1. PICK k \in Stops : p[k] = s /\ \A j \in 1 .. k-1 : tab[p[j]] # Empty
        BY <1>3, <3>1
      <4>2. k # c /\ k \in 1 .. n
        BY <2>7, <3>1, <4>1, IdsAreLive
      <4>3. c \in 1 .. k-1 \/ k \in 1 .. c-1
        BY <1>1, <2>3, <4>2, SMT
      <4> QED
        BY <2>3, <2>7, <4>1, <4>3
    <3> QED
      BY <2>5, <2>7, <3>1 DEF Holding
  <2> QED
    BY <2>6, <2>7
<1> QED
  BY <1>4, <1>5

\* The slot s is the first on the path of id i that holds no entry, and i has not
\* been met before it.
Vacant(i, tab, s) ==
  /\ s \in Slots(tab) /\ tab[s] \notin Ids
  /\ \E k \in Slots(tab) :
       /\ Path(i, tab)[k] = s
       /\ \A j \in 1 .. k-1 : tab[Path(i, tab)[j]] \in Ids

\* An insertion finds that the id is held, or a vacant slot; in a table without
\* tombstones the latter only if the id is not held.
LEMMA FindingASlot ==
  ASSUME NEW tab, Sound(tab), NEW i \in Ids
  PROVE  \/ findSlot(i, tab) = NEVER
         \/ findSlot(i, tab) = NONE /\ i \in Holding(tab)
         \/ /\ Vacant(i, tab, findSlot(i, tab))
            /\ Clean(tab) => i \notin Holding(tab)
<1> DEFINE n == Len(tab)
           p == Path(i, tab)
           Stop(k) == ~Live(tab, p[k]) \/ tab[p[k]] = i
           Stops == {k \in 1 .. n : Stop(k)}
           c == CHOOSE k \in 1 .. n : Stop(k) /\ \A j \in 1 .. k-1 : ~Stop(j)
<1>1. n \in Nat /\ \A k \in 1 .. n : p[k] \in Slots(tab)
  BY SizesAreNumbers, PathsStay DEF Sound, Table, Slots
<1>2. findSlot(i, tab) =
        LET s == IF \E k \in 1 .. n : Stop(k) THEN p[c] ELSE NEVER
        IN IF s # NEVER /\ Live(tab, s) THEN NONE ELSE s
  BY DEF findSlot, FirstStop, Path, Holds
<1>3. \A s \in Slots(tab) : Live(tab, s) <=> tab[s] \in Ids
  <2>1. \A s \in Slots(tab) : tab[s] \in Ids \cup {Empty, Tombstone}
    BY DEF Sound, Table, Slots
  <2> QED
    BY <2>1, StoreConstants DEF Live, Empty, Tombstone
<1>4. CASE Stops = {}
  BY <1>2, <1>4
<1>5. CASE Stops # {}
  <2>1. \E k \in Stops : \A j \in 1 .. k-1 : j \notin Stops
    <3>1. Stops \in SUBSET (1 .. n)
      OBVIOUS
    <3> HIDE DEF Stops
    <3> QED
      BY <1>1, <1>5, <3>1, FirstOf
  <2>2. \E k \in 1 .. n : Stop(k) /\ \A j \in 1 .. k-1 : ~Stop(j)
    BY <1>1, <2>1
  <2>3. c \in 1 .. n /\ Stop(c) /\ \A j \in 1 .. c-1 : ~Stop(j)
    BY <2>2
  <2>4. p[c] \in Slots(tab) /\ p[c] # NEVER
    BY <1>1, <2>3, IdsAreLive DEF Slots
  <2>5. findSlot(i, tab) = IF Live(tab, p[c]) THEN NONE ELSE p[c]
    BY <1>2, <2>3, <2>4
  <2> HIDE DEF c
  <2>6. CASE Live(tab, p[c])
    <3>1. tab[p[c]] = i
      BY <2>3, <2>6
    <3> QED
      BY <2>4, <2>5, <2>6, <3>1 DEF Holding
  <2>7. CASE ~Live(tab, p[c])
    <3>1. \A j \in 1 .. c-1 : tab[p[j]] \in Ids /\ tab[p[j]] # i
      BY <1>1, <1>3, <2>3
    <3>2. Vacant(i, tab, p[c])
      BY <1>3, <2>3, <2>4, <2>7, <3>1 DEF Vacant, Slots
    <3>3. ASSUME Clean(tab), NEW s \in Slots(tab), tab[s] = i PROVE FALSE
      <4>1. PICK k \in Slots(tab) : p[k] = s /\ \A j \in 1 .. k-1 : tab[p[j]] # Empty
        BY <3>3 DEF Sound, Reached, Reaches
      <4>2. tab[p[c]] \notin Ids
        BY <1>3, <2>4, <2>7
      <4>3. tab[p[c]] = Empty
        BY <2>4, <3>3, <4>2 DEF Sound, Table, Clean, Slots
      <4>4. k # c /\ k \in 1 .. n
        BY <3>3, <4>1, <4>2 DEF Slots
      <4>5. c \in 1 .. k-1 \/ k \in 1 .. c-1
        BY <1>1, <2>3, <4>4, SMT
      <4> QED
        BY <3>1, <3>3, <4>1, <4>3, <4>5
    <3> QED
      BY <2>5, <2>7, <3>2, <3>3 DEF Holding
  <2> QED
    BY <2>6, <2>7
<1> QED
  BY <1>4, <1>5

\* An id is refused only if it is held.
LEMMA Refusing ==
  ASSUME NEW tab, Sound(tab), NEW i \in Ids, findSlot(i, tab) = NONE
  PROVE  i \in Holding(tab)
<1>1. NONE \notin Slots(tab)
  BY SizesAreNumbers DEF Sound, Table, Slots, NONE
<1> QED
  BY <1>1, FindingASlot, IdsAreLive DEF Vacant

-----------------------------------------------------------------------------
(* Changing a table.                                                       *)

\* A table with another value at one slot is a table of the same size.
LEMMA Changing ==
  ASSUME NEW tab, Table(tab), NEW s \in Slots(tab), NEW v \in Ids \cup {Empty, Tombstone}
  PROVE  LET new == [tab EXCEPT ![s] = v]
         IN  /\ Table(new) /\ Len(new) = Len(tab)
             /\ new[s] = v /\ \A t \in Slots(tab) : t # s => new[t] = tab[t]
BY SizesAreNumbers DEF Table, Slots

\* An id that is not held is placed at its vacant slot: it is held from then on,
\* and the paths to the others are as they were.
LEMMA Placing ==
  ASSUME NEW tab, Sound(tab), NEW i \in Ids, i \notin Holding(tab),
         NEW slot, Vacant(i, tab, slot)
  PROVE  LET new == [tab EXCEPT ![slot] = i]
         IN  /\ Sound(new) /\ Len(new) = Len(tab)
             /\ Holding(new) = Holding(tab) \cup {i}
             /\ Clean(tab) => Clean(new)
<1> DEFINE new == [tab EXCEPT ![slot] = i]
<1>1. slot \in Slots(tab) /\ tab[slot] \notin Ids
  BY DEF Vacant
<1>2. /\ Table(new) /\ Len(new) = Len(tab) /\ Slots(new) = Slots(tab)
      /\ new[slot] = i /\ \A t \in Slots(tab) : t # slot => new[t] = tab[t]
  BY <1>1, Changing DEF Sound, Slots
<1>3. \A j \in Ids : Path(j, new) = Path(j, tab)
  BY <1>2 DEF Path
<1> HIDE DEF new
<1>4. Holding(new) = Holding(tab) \cup {i}
  BY <1>1, <1>2 DEF Holding
<1>5. Once(new)
  BY <1>1, <1>2 DEF Sound, Once, Holding
<1>6. Reached(new)
  <2> SUFFICES ASSUME NEW s \in Slots(tab), new[s] \in Ids
               PROVE  \E k \in Slots(tab) : Reaches(new[s], new, k, s)
    BY <1>2 DEF Reached
  <2>1. \A j \in Ids, k \in Slots(tab) : \A m \in 1 .. k-1 : Path(j, tab)[m] \in Slots(tab)
    BY SizesAreNumbers, PathsStay DEF Sound, Table, Slots
  <2>2. CASE s = slot
    <3>1. PICK k \in Slots(tab) : Path(i, tab)[k] = slot /\ \A j \in 1 .. k-1 : tab[Path(i, tab)[j]] \in Ids
      BY DEF Vacant
    <3>2. \A j \in 1 .. k-1 : new[Path(i, tab)[j]] # Empty
      BY <1>1, <1>2, <2>1, <3>1, IdsAreLive
    <3> QED
      BY <1>2, <1>3, <2>2, <3>1, <3>2 DEF Reaches
  <2>3. CASE s # slot
    <3>1. new[s] = tab[s]
      BY <1>2, <2>3
    <3>2. PICK k \in Slots(tab) : Path(tab[s], tab)[k] = s /\ \A j \in 1 .. k-1 : tab[Path(tab[s], tab)[j]] # Empty
      BY <3>1 DEF Sound, Reached, Reaches
    <3>3. \A j \in 1 .. k-1 : new[Path(tab[s], tab)[j]] # Empty
      BY <1>2, <2>1, <3>1, <3>2, IdsAreLive
    <3> QED
      BY <1>3, <3>1, <3>2, <3>3 DEF Reaches
  <2> QED
    BY <2>2, <2>3
<1>7. Clean(tab) => Clean(new)
  BY <1>2, IdsAreLive DEF Clean
<1> QED
  BY <1>2, <1>4, <1>5, <1>6, <1>7 DEF Sound, new

\* A tombstone takes the place of an id: no other id loses its path.
LEMMA Vacating ==
  ASSUME NEW tab, Sound(tab), NEW i \in Ids, NEW slot \in Slots(tab), tab[slot] = i
  PROVE  LET new == Vacated(tab, slot)
         IN  Sound(new) /\ Len(new) = Len(tab) /\ Holding(new) = Holding(tab) \ {i}
<1> DEFINE new == Vacated(tab, slot)
<1>1. /\ Table(new) /\ Len(new) = Len(tab) /\ Slots(new) = Slots(tab)
      /\ new[slot] = Tombstone /\ \A t \in Slots(tab) : t # slot => new[t] = tab[t]
  BY Changing DEF Sound, Slots, Vacated
<1>2. \A j \in Ids : Path(j, new) = Path(j, tab)
  BY <1>1 DEF Path
<1> HIDE DEF new
<1>3. Holding(new) = Holding(tab) \ {i}
  BY <1>1, IdsAreLive DEF Holding, Sound, Once
<1>4. Once(new)
  BY <1>1, IdsAreLive DEF Sound, Once
<1>5. Reached(new)
  <2> SUFFICES ASSUME NEW s \in Slots(tab), new[s] \in Ids
               PROVE  \E k \in Slots(tab) : Reaches(new[s], new, k, s)
    BY <1>1 DEF Reached
  <2>1. \A j \in Ids, k \in Slots(tab) : \A m \in 1 .. k-1 : Path(j, tab)[m] \in Slots(tab)
    BY SizesAreNumbers, PathsStay DEF Sound, Table, Slots
  <2>2. new[s] = tab[s]
    BY <1>1, IdsAreLive
  <2>3. PICK k \in Slots(tab) : Path(tab[s], tab)[k] = s /\ \A j \in 1 .. k-1 : tab[Path(tab[s], tab)[j]] # Empty
    BY <2>2 DEF Sound, Reached, Reaches
  <2>4. \A j \in 1 .. k-1 : new[Path(tab[s], tab)[j]] # Empty
    BY <1>1, <2>1, <2>2, <2>3, IdsAreLive
  <2> QED
    BY <1>2, <2>2, <2>3, <2>4 DEF Reaches
<1> QED
  BY <1>1, <1>3, <1>4, <1>5 DEF Sound, new

\* A new table holds nothing.
LEMMA EmptyTables ==
  ASSUME NEW n \in Sizes
  PROVE  LET tab == EmptyTable(n)
         IN  Sound(tab) /\ Len(tab) = n /\ Clean(tab) /\ Holding(tab) = {}
<1> DEFINE tab == EmptyTable(n)
<1>1. Table(tab) /\ Len(tab) = n /\ \A s \in Slots(tab) : tab[s] = Empty
  BY SizesAreNumbers DEF EmptyTable, Table, Slots
<1> HIDE DEF tab
<1> QED
  BY <1>1, IdsAreLive DEF Sound, Once, Reached, Clean, Holding, tab

-----------------------------------------------------------------------------
(* Resizing.                                                               *)

\* The ids among the first k slots.
HoldingUpTo(tab, k) == {i \in Ids : \E s \in 1 .. k : tab[s] = i}

\* The new table once the first k slots of the old one have been moved to it.
MovedUpTo(tab, n, k, t) ==
  t # Broken => Sound(t) /\ Len(t) = n /\ Clean(t) /\ Holding(t) = HoldingUpTo(tab, k)

Tables(n) == {t \in Seq(Ids \cup {Empty, Tombstone}) : Len(t) = n} \cup {Broken}

\* A sound table has slots.
LEMMA SoundIsNotBroken ==
  ASSUME NEW tab, Sound(tab)
  PROVE  tab # Broken
<1>1. Len(tab) > 2
  BY SizesAreNumbers DEF Sound, Table
<1> QED
  BY <1>1 DEF Broken

\* Moving a slot yields a table of the new size, or none.
LEMMA MovingTyped ==
  ASSUME NEW tab, Sound(tab), NEW n \in Sizes, NEW k \in Slots(tab), NEW t \in Tables(n)
  PROVE  Moved(tab, k, t) \in Tables(n)
<1>1. CASE t = Broken \/ ~Live(tab, k) \/ findSlot(tab[k], t) \in {NONE, NEVER}
  BY <1>1 DEF Moved, Tables
<1>2. CASE t # Broken /\ Live(tab, k) /\ findSlot(tab[k], t) \notin {NONE, NEVER}
  <2>1. tab[k] \in Ids \cup {Empty, Tombstone}
    BY DEF Sound, Table, Slots
  <2> DEFINE slot == findSlot(tab[k], t)
  <2>2. Moved(tab, k, t) = [t EXCEPT ![slot] = tab[k]]
    BY <1>2 DEF Moved
  <2> HIDE DEF slot
  <2>3. t \in Seq(Ids \cup {Empty, Tombstone}) /\ Len(t) = n
    BY <1>2 DEF Tables
  <2>4. CASE slot \in Slots(t)
    <3>1. Table(t)
      BY <2>3 DEF Table
    <3> DEFINE new == [t EXCEPT ![slot] = tab[k]]
    <3>2. Table(new) /\ Len(new) = Len(t)
      BY <2>1, <2>4, <3>1, Changing
    <3> HIDE DEF new
    <3>3. Table(Moved(tab, k, t)) /\ Len(Moved(tab, k, t)) = n
      BY <2>2, <2>3, <3>2 DEF new
    <3> QED
      BY <3>3 DEF Table, Tables
  <2>5. CASE slot \notin Slots(t)
    <3>1. slot \notin DOMAIN t
      BY <2>3, <2>5 DEF Slots
    <3>2. [t EXCEPT ![slot] = tab[k]] = t
      BY <2>3, <3>1
    <3> QED
      BY <2>2, <3>2
  <2> QED
    BY <2>4, <2>5
<1> QED
  BY <1>1, <1>2

\* One more slot moved: an id that has not been moved before finds a vacant slot, so
\* the loop only ends early if it would probe forever.
LEMMA MovingASlot ==
  ASSUME NEW tab, Sound(tab), NEW n \in Sizes, NEW k \in Slots(tab),
         NEW t \in Tables(n), MovedUpTo(tab, n, k - 1, t)
  PROVE  MovedUpTo(tab, n, k, Moved(tab, k, t))
<1> SUFFICES ASSUME Moved(tab, k, t) # Broken
             PROVE  /\ Sound(Moved(tab, k, t)) /\ Len(Moved(tab, k, t)) = n
                    /\ Clean(Moved(tab, k, t)) /\ Holding(Moved(tab, k, t)) = HoldingUpTo(tab, k)
  BY DEF MovedUpTo
<1>1. t # Broken
  BY DEF Moved
<1>2. Sound(t) /\ Len(t) = n /\ Clean(t) /\ Holding(t) = HoldingUpTo(tab, k - 1)
  BY <1>1 DEF MovedUpTo
<1>3. /\ tab[k] \in Ids \cup {Empty, Tombstone}
      /\ k \in 1 .. k /\ 1 .. k-1 \subseteq 1 .. k /\ \A s \in 1 .. k : s = k \/ s \in 1 .. k-1
  BY SizesAreNumbers DEF Sound, Table, Slots
<1>4. CASE ~Live(tab, k)
  <2>1. tab[k] \notin Ids
    <3>1. ASSUME tab[k] \in Ids PROVE Live(tab, k)
      <4>1. tab[k] \in Nat
        BY <3>1, IdsAreLive
      <4> QED
        BY <4>1 DEF Live
    <3> QED
      BY <1>4, <3>1
  <2>2. HoldingUpTo(tab, k) = HoldingUpTo(tab, k - 1)
    BY <1>3, <2>1 DEF HoldingUpTo
  <2> QED
    BY <1>2, <1>4, <2>2 DEF Moved
<1>5. CASE Live(tab, k)
  <2>1. tab[k] \in Ids
    BY <1>3, <1>5 DEF Live, Empty, Tombstone
  <2>2. tab[k] \notin Holding(t)
    <3>1. ASSUME NEW s \in 1 .. k-1, tab[s] = tab[k] PROVE FALSE
      <4>1. s \in Slots(tab) /\ s # k
        BY SizesAreNumbers DEF Sound, Table, Slots
      <4> QED
        BY <2>1, <3>1, <4>1 DEF Sound, Once
    <3> QED
      BY <1>2, <3>1 DEF HoldingUpTo
  <2> DEFINE slot == findSlot(tab[k], t)
  <2>3. slot \notin {NONE, NEVER} /\ Moved(tab, k, t) = [t EXCEPT ![slot] = tab[k]]
    BY <1>1, <1>5 DEF Moved
  <2>4. Vacant(tab[k], t, slot)
    BY <1>2, <2>1, <2>3, FindingASlot
  <2> HIDE DEF slot
  <2> DEFINE new == [t EXCEPT ![slot] = tab[k]]
  <2>5. Sound(new) /\ Len(new) = Len(t) /\ Holding(new) = Holding(t) \cup {tab[k]} /\ Clean(new)
    BY <1>2, <2>1, <2>2, <2>4, Placing
  <2> HIDE DEF new
  <2>6. HoldingUpTo(tab, k) = HoldingUpTo(tab, k - 1) \cup {tab[k]}
    BY <1>3, <2>1 DEF HoldingUpTo
  <2> QED
    BY <1>2, <2>3, <2>5, <2>6 DEF new
<1> QED
  BY <1>4, <1>5

\* Rehashing keeps the ids that are held and leaves no tombstone.
LEMMA Rehashing ==
  ASSUME NEW tab, Sound(tab), NEW n \in Sizes, Rehashed(tab, n) # Broken
  PROVE  /\ Sound(Rehashed(tab, n)) /\ Clean(Rehashed(tab, n))
         /\ Holding(Rehashed(tab, n)) = Holding(tab)
<1> DEFINE old == Len(tab)
           Rounds(g) == g = [k \in 0 .. old |-> IF k = 0 THEN EmptyTable(n) ELSE Moved(tab, k, g[k-1])]
           upto == CHOOSE g : Rounds(g)
<1>1. old \in Nat /\ \A k \in 1 .. old : k \in Slots(tab)
  BY SizesAreNumbers DEF Sound, Table, Slots
<1>2. Rehashed(tab, n) = upto[old]
  BY DEF Rehashed
<1>3. EmptyTable(n) \in Tables(n) /\ MovedUpTo(tab, n, 0, EmptyTable(n))
  <2>1. HoldingUpTo(tab, 0) = {}
    BY DEF HoldingUpTo
  <2> QED
    BY <2>1, EmptyTables DEF Tables, MovedUpTo, Sound, Table
<1>4. \E g \in [0 .. old -> Tables(n)] : Rounds(g)
  <2> DEFINE F == [k \in 1 .. old |-> [t \in Tables(n) |-> Moved(tab, k, t)]]
  <2>1. F \in [1 .. old -> [Tables(n) -> Tables(n)]]
    BY <1>1, MovingTyped
  <2>2. PICK g \in [0 .. old -> Tables(n)] : g[0] = EmptyTable(n) /\ \A k \in 1 .. old : g[k] = F[k][g[k-1]]
    <3> DEFINE S == Tables(n)
               a == EmptyTable(n)
               m == old
    <3>1. m \in Nat /\ a \in S /\ F \in Bodies(m, S)
      BY <1>1, <1>3, <2>1 DEF Bodies
    <3> HIDE DEF S, a, m, F
    <3>2. \E g : Computes(g, m, S, a, F)
      BY <3>1, Looped
    <3> QED
      BY <3>2 DEF S, a, m, Computes
  <2> HIDE DEF F
  <2>3. \A k \in 1 .. old : k - 1 \in 0 .. old
    BY <1>1
  <2>4. \A k \in 1 .. old : g[k] = Moved(tab, k, g[k-1])
    BY <2>2, <2>3 DEF F
  <2>5. \A k \in 0 .. old : k = 0 \/ k \in 1 .. old
    BY <1>1
  <2>6. Rounds(g)
    BY <2>2, <2>4, <2>5
  <2> QED
    BY <2>6
<1>5. Rounds(upto)
  BY <1>4
<1> HIDE DEF upto
<1> DEFINE P == {k \in 0 .. old : upto[k] \in Tables(n) /\ MovedUpTo(tab, n, k, upto[k])}
<1>6. 0 \in P
  BY <1>1, <1>3, <1>5
<1>7. ASSUME NEW k \in 1 .. old, k - 1 \in P PROVE k \in P
  <2>1. k \in 0 .. old /\ k # 0
    BY <1>1
  <2>2. upto[k] = Moved(tab, k, upto[k-1])
    BY <1>5, <2>1
  <2> QED
    BY <1>1, <1>7, <2>1, <2>2, MovingTyped, MovingASlot
<1>8. P = 0 .. old
  <2>1. P \in SUBSET (0 .. old)
    OBVIOUS
  <2> HIDE DEF P
  <2> QED
    BY <1>1, <1>6, <1>7, <2>1, UpTo
<1>9. MovedUpTo(tab, n, old, upto[old])
  <2>1. old \in 0 .. old
    BY <1>1
  <2> QED
    BY <1>8, <2>1
<1>10. HoldingUpTo(tab, old) = Holding(tab)
  BY DEF HoldingUpTo, Holding, Slots
<1> QED
  BY <1>2, <1>9, <1>10 DEF MovedUpTo

\* So does expand(), which leaves the tombstones only if it keeps the table.
LEMMA Expanding ==
  ASSUME NEW tab, Sound(tab), NEW c \in Nat, c <= Cardinality(Ids), expand(tab, c) # Broken
  PROVE  /\ Sound(expand(tab, c)) /\ Holding(expand(tab, c)) = Holding(tab)
         /\ Clean(tab) => Clean(expand(tab, c))
<1>1. CASE KeepsSize(c, Len(tab))
  BY <1>1 DEF expand
<1>2. CASE ~KeepsSize(c, Len(tab))
  <2>1. Cardinality(Ids) \in Nat
    BY StoreConstants, FS_CardinalityType
  <2>2. higher_prime(c * 2) \in Sizes
    BY <2>1, HigherPrime
  <2>3. expand(tab, c) = Rehashed(tab, higher_prime(c * 2))
    BY <1>2 DEF expand
  <2> QED
    BY <2>2, <2>3, Rehashing
<1> QED
  BY <1>1, <1>2

-----------------------------------------------------------------------------
(* The steps.                                                              *)

Held == Holding(entries)

\* The abstract map stores what the table holds.
StoredIds(tab) == {i \in Ids : findNode(i, tab) >= 0}

\* The ids a lookup finds are the ids in the table.
LEMMA StoredIsHeld ==
  ASSUME NEW tab, Sound(tab)
  PROVE  StoredIds(tab) = Holding(tab)
<1> SUFFICES ASSUME NEW i \in Ids PROVE findNode(i, tab) >= 0 <=> i \in Holding(tab)
  BY DEF StoredIds, Holding
<1>1. Slots(tab) \subseteq Nat
  BY SizesAreNumbers DEF Sound, Table, Slots
<1>2. findNode(i, tab) \in Slots(tab) => findNode(i, tab) >= 0
  BY <1>1, SMT
<1>3. findNode(i, tab) \in {NONE, NEVER} => ~(findNode(i, tab) >= 0)
  BY DEF NONE, NEVER
<1>4. findNode(i, tab) \in Slots(tab) /\ tab[findNode(i, tab)] = i => i \in Holding(tab)
  BY DEF Holding
<1> QED
  BY <1>2, <1>3, <1>4, Finding

\* There are no more of them than ids.
LEMMA HeldIsFinite ==
  ASSUME NEW tab
  PROVE  /\ IsFiniteSet(Holding(tab)) /\ Cardinality(Holding(tab)) \in Nat
         /\ Cardinality(Ids) \in Nat /\ Cardinality(Holding(tab)) <= Cardinality(Ids)
<1>1. Holding(tab) \in SUBSET Ids /\ IsFiniteSet(Ids)
  BY StoreConstants DEF Holding
<1> QED
  BY <1>1, FS_Subset, FS_CardinalityType

\* No tombstone in the table of the store, before a step and after it.
LEMMA CleanTable ==
  ASSUME NEW tab, Sound(tab)
  PROVE  (\A s \in DOMAIN tab : tab[s] # Tombstone) <=> Clean(tab)
<1>1. DOMAIN tab = Slots(tab)
  BY DEF Sound, Table, Slots
<1> QED
  BY <1>1 DEF Clean

LEMMA NoTombstonesIsClean ==
  /\ Intact => (NoTombstones <=> Clean(entries))
  /\ Intact' => (NoTombstones' <=> Clean(entries'))
BY CleanTable DEF NoTombstones, Intact

\* The table that an insertion starts with.
LEMMA Grown ==
  ASSUME Intact, NEW tab, tab = (IF TooFull THEN expand(entries, count) ELSE entries), tab # Broken
  PROVE  Sound(tab) /\ Holding(tab) = Held /\ (NoTombstones => Clean(tab))
<1>1. count \in Nat /\ count <= Cardinality(Ids) /\ Sound(entries)
  BY HeldIsFinite DEF Intact
<1> QED
  BY <1>1, NoTombstonesIsClean, Expanding DEF Held

\* Outdating changes no copy but for its flag.
LEMMA Outdating ==
  ASSUME NEW cs \in SUBSET Copies, IsFiniteSet(cs), NEW i
  PROVE  Outdated(cs, i) \in SUBSET Copies /\ IsFiniteSet(Outdated(cs, i))
<1> DEFINE aged(c) == IF c.id = i THEN [c EXCEPT !.current = FALSE] ELSE c
           f == [c \in cs |-> aged(c)]
<1>1. \A c \in cs : aged(c) \in Copies
  BY DEF Copies
<1>2. Outdated(cs, i) = {aged(c) : c \in cs}
  BY DEF Outdated
<1> HIDE DEF aged
<1>3. f \in Surjection(cs, Outdated(cs, i))
  BY <1>2 DEF Surjection
<1>4. IsFiniteSet(Outdated(cs, i))
  <2> HIDE DEF f
  <2> QED
    BY <1>3, FS_Surjection
<1> QED
  BY <1>1, <1>2, <1>4

\* New addresses change no copy but for its flag.
LEMMA Readdressing ==
  ASSUME NEW cs \in SUBSET Copies, IsFiniteSet(cs), NEW i, NEW new \in Readdressed(cs, i)
  PROVE  new \in SUBSET Copies /\ IsFiniteSet(new)
<1>1. PICK again \in SUBSET cs :
        new = Outdated(cs \ again, i) \cup {[c EXCEPT !.current = TRUE] : c \in again}
  BY DEF Readdressed
<1> DEFINE revived == {[c EXCEPT !.current = TRUE] : c \in again}
           f == [c \in again |-> [c EXCEPT !.current = TRUE]]
<1>2. f \in Surjection(again, revived) /\ revived \in SUBSET Copies
  BY DEF Surjection, Copies
<1>3. IsFiniteSet(again) /\ cs \ again \in SUBSET Copies /\ IsFiniteSet(cs \ again)
  BY FS_Subset
<1> HIDE DEF f, revived
<1>4. IsFiniteSet(revived)
  BY <1>2, <1>3, FS_Surjection
<1>5. Outdated(cs \ again, i) \in SUBSET Copies /\ IsFiniteSet(Outdated(cs \ again, i))
  BY <1>3, Outdating
<1>6. new = Outdated(cs \ again, i) \cup revived
  BY <1>1 DEF revived
<1> QED
  BY <1>2, <1>4, <1>5, <1>6, FS_Union

\* A new entry at the slot that findSlot gave for an id that is not held.
LEMMA Putting ==
  ASSUME Intact, NEW i \in Ids, i \notin Held, NEW cs \in SUBSET copies,
         NEW tab, Sound(tab), Holding(tab) = Held, NoTombstones => Clean(tab),
         findSlot(i, tab) # NEVER, PutAt(tab, findSlot(i, tab), i, cs)
  PROVE  Intact' /\ Held' = Held \cup {i} /\ (NoTombstones => NoTombstones')
<1> DEFINE slot == findSlot(i, tab)
           new == [tab EXCEPT ![slot] = i]
<1>1. Vacant(i, tab, slot)
  BY FindingASlot
<1>2. /\ entries' = new /\ count' = count + 1 /\ copies' \in Readdressed(cs, i)
      /\ doubled' = (doubled \/ \E s \in DOMAIN entries : Holds(entries, s, i))
  BY DEF PutAt
<1>3. Sound(new) /\ Holding(new) = Held \cup {i} /\ (Clean(tab) => Clean(new))
  <2> HIDE DEF slot
  <2> QED
    BY <1>1, Placing
<1> HIDE DEF new, slot
<1>4. copies' \in SUBSET Copies /\ IsFiniteSet(copies')
  <2>1. cs \in SUBSET Copies /\ IsFiniteSet(cs)
    BY FS_Subset DEF Intact
  <2> QED
    BY <1>2, <2>1, Readdressing
<1>5. Held' = Held \cup {i}
  BY <1>2, <1>3 DEF Held
<1>6. Cardinality(Held \cup {i}) = Cardinality(Held) + 1
  BY HeldIsFinite, FS_AddElement DEF Held
<1>7. count' = Cardinality(Held')
  BY <1>2, <1>5, <1>6 DEF Intact, Held
<1>8. \A s \in DOMAIN entries : ~Holds(entries, s, i)
  BY DEF Held, Holding, Holds, Intact, Sound, Table, Slots
<1>9. doubled' = FALSE
  BY <1>2, <1>8 DEF Intact
<1>10. Intact'
  BY <1>2, <1>3, <1>4, <1>5, <1>7, <1>9 DEF Intact, Held
<1>11. NoTombstones' <=> Clean(entries')
  BY <1>10, NoTombstonesIsClean
<1> QED
  BY <1>2, <1>3, <1>5, <1>10, <1>11

\* A slot for an id that is held: its entry lies behind a tombstone.
LEMMA Doubling ==
  ASSUME Intact, NEW i \in Held, NEW cs \in SUBSET copies,
         NEW tab, Sound(tab), Holding(tab) = Held, NoTombstones => Clean(tab),
         findSlot(i, tab) \notin {NONE, NEVER}, PutAt(tab, findSlot(i, tab), i, cs)
  PROVE  doubled' = TRUE /\ ~NoTombstones
<1>1. i \in Ids
  BY DEF Held, Holding
<1>2. ~Clean(tab)
  BY <1>1, FindingASlot
<1>3. \E s \in DOMAIN entries : Holds(entries, s, i)
  BY DEF Held, Holding, Holds, Intact, Sound, Table, Slots
<1> QED
  BY <1>2, <1>3 DEF PutAt

Stutters == UNCHANGED <<entries, count, copies, answer, doubled>>

\* A step of the map, or none.
Refines == Map!AbsNext \/ UNCHANGED Map!mapVars

\* What is shown of every step of an intact store.
Steps == StoreInv' /\ Refines

\* A step that changes nothing.
LEMMA Stuttering ==
  ASSUME Intact, Stutters
  PROVE  Steps
BY DEF Intact, StoreInv, Stutters, Steps, Refines, Map!mapVars, NoTombstones

\* What the map stores before and after a step.
LEMMA MapIsTable ==
  ASSUME Intact, Intact'
  PROVE  StoredIds(entries) = Held /\ StoredIds(entries)' = Held'
BY StoredIsHeld DEF Intact, Held

\* The copies that remain once one may have been given to an insertion.
LEMMA GivenLeaves ==
  ASSUME NEW g \in Given
  PROVE  copies \ g \in SUBSET copies
OBVIOUS

\* An insertion that found a slot is one of the map: of an id not in use, or of one
\* that a hole hides.
LEMMA Placed ==
  ASSUME Intact, NEW i \in Ids, NEW op, NEW cs \in SUBSET copies,
         NEW tab, tab = (IF TooFull THEN expand(entries, count) ELSE entries), tab # Broken,
         findSlot(i, tab) \notin {NONE, NEVER}, PutAt(tab, findSlot(i, tab), i, cs),
         Returns(op, -1, "good", "stored")
  PROVE  StoreInv' /\ (Map!AbsPlaced(op, i, cs) \/ Map!AbsDoubled(op, i))
<1>1. Sound(tab) /\ Holding(tab) = Held /\ (NoTombstones => Clean(tab))
  BY Grown
<1>2. CASE i \notin Held
  <2>1. Intact' /\ Held' = Held \cup {i} /\ (NoTombstones => NoTombstones')
    BY <1>1, <1>2, Putting
  <2>2. copies' \in Readdressed(cs, i)
    BY DEF PutAt
  <2>3. StoredIds(entries) = Held /\ StoredIds(entries)' = Held'
    BY <2>1, MapIsTable
  <2>4. ~doubled'
    BY <2>1 DEF Intact
  <2>5. Map!Sweeps
    BY <2>1 DEF Map!Sweeps
  <2>6. Map!AbsPlaced(op, i, cs)
    BY <1>2, <2>1, <2>2, <2>3, <2>4, <2>5
    DEF Map!AbsPlaced, Map!Answer, Map!Resettled, Map!Outdate, Readdressed, Outdated, Returns, StoredIds
  <2> QED
    BY <2>1, <2>6 DEF StoreInv
<1>3. CASE i \in Held
  <2>1. doubled' = TRUE /\ ~NoTombstones
    BY <1>1, <1>3, Doubling
  <2>2. StoredIds(entries) = Held
    BY StoredIsHeld DEF Intact, Held
  <2>3. Map!AbsDoubled(op, i)
    BY <1>3, <2>1, <2>2 DEF Map!AbsDoubled, Map!Answer, Returns, StoredIds
  <2> QED
    BY <2>1, <2>3 DEF StoreInv
<1> QED
  BY <1>2, <1>3

\* An insertion under an id refuses only an id that is held.
LEMMA Inserting ==
  ASSUME Intact, NEW i \in Ids, Insert(i)
  PROVE  Steps
<1> DEFINE tab == IF TooFull THEN expand(entries, count) ELSE entries
           slot == IF tab = Broken THEN NEVER ELSE findSlot(i, tab)
<1>1. \/ Stutters
      \/ slot = NONE /\ entries' = tab /\ Returns("insert", i, "exists", "deleted") /\ UNCHANGED <<count, copies, doubled>>
      \/ slot \notin {NONE, NEVER} /\ PutAt(tab, slot, i, copies) /\ Returns("insert", -1, "good", "stored")
  BY DEF Insert, Dies, Stutters
<1>2. tab # Broken => Sound(tab) /\ Holding(tab) = Held /\ (NoTombstones => Clean(tab))
  BY Grown
<1>3. CASE Stutters
  BY <1>3, Stuttering
<1>4. CASE slot \notin {NONE, NEVER} /\ PutAt(tab, slot, i, copies) /\ Returns("insert", -1, "good", "stored")
  <2>1. tab # Broken /\ slot = findSlot(i, tab)
    BY <1>4
  <2>2. tab = (IF TooFull THEN expand(entries, count) ELSE entries) /\ copies \in SUBSET copies
    OBVIOUS
  <2> HIDE DEF tab, slot
  <2>3. StoreInv' /\ (Map!AbsPlaced("insert", i, copies) \/ Map!AbsDoubled("insert", i))
    BY <1>4, <2>1, <2>2, Placed
  <2>4. ~doubled
    BY DEF Intact
  <2> QED
    BY <2>3, <2>4 DEF Steps, Refines, Map!AbsNext, Map!AbsInsert
<1>5. CASE slot = NONE /\ entries' = tab /\ Returns("insert", i, "exists", "deleted") /\ UNCHANGED <<count, copies, doubled>>
  <2>1. tab # Broken /\ slot = findSlot(i, tab)
    BY <1>5, IdsAreLive
  <2> HIDE DEF tab, slot
  <2>2. i \in Held
    BY <1>2, <1>5, <2>1, Refusing
  <2>3. Held' = Held
    BY <1>2, <1>5, <2>1 DEF Held
  <2>4. Intact'
    BY <1>2, <1>5, <2>1, <2>3 DEF Intact, Held
  <2>5. NoTombstones => NoTombstones'
    <3>1. NoTombstones' <=> Clean(entries')
      BY <2>4, NoTombstonesIsClean
    <3> QED
      BY <1>2, <1>5, <2>1, <3>1
  <2>6. Map!Sweeps
    BY <2>5 DEF Map!Sweeps
  <2>7. StoredIds(entries) = Held /\ StoredIds(entries)' = Held'
    BY <2>4, MapIsTable
  <2>8. Map!AbsInsert(i)
    BY <1>5, <2>2, <2>3, <2>6, <2>7 DEF Map!AbsInsert, Map!Answer, Returns, StoredIds
  <2>9. ~doubled
    BY DEF Intact
  <2> QED
    BY <2>4, <2>8, <2>9 DEF Steps, StoreInv, Refines, Map!AbsNext
<1> QED
  BY <1>1, <1>3, <1>4, <1>5

\* A number that is tried and for which there is a slot is one that is not held, or
\* one that a tombstone hides.
LEMMA InsertingUnnamed ==
  ASSUME Intact, InsertNull
  PROVE  Steps
<1> DEFINE tab == IF TooFull THEN expand(entries, count) ELSE entries
           n == Len(tab)
           tried == {k \in 0 .. n : Candidate(n, k) \in Ids => findSlot(Candidate(n, k), tab) # NONE}
           i == Candidate(n, Least(tried))
<1>1. \/ Stutters
      \/ /\ tab # Broken /\ tried # {} /\ i \in Ids /\ findSlot(i, tab) # NEVER
         /\ \E g \in Given : PutAt(tab, findSlot(i, tab), i, copies \ g)
         /\ Returns("insertNull", -1, "good", "stored")
  BY DEF InsertNull, Dies, Stutters
<1>2. tab # Broken => Sound(tab)
  BY Grown
<1>3. CASE Stutters
  BY <1>3, Stuttering
<1>4. CASE /\ tab # Broken /\ tried # {} /\ i \in Ids /\ findSlot(i, tab) # NEVER
           /\ \E g \in Given : PutAt(tab, findSlot(i, tab), i, copies \ g)
           /\ Returns("insertNull", -1, "good", "stored")
  <2>0. tab = (IF TooFull THEN expand(entries, count) ELSE entries)
    OBVIOUS
  <2> HIDE DEF tab
  <2>1. n \in Nat
    BY <1>2, <1>4, SizesAreNumbers DEF Sound, Table
  <2>2. Least(tried) \in tried
    <3> DEFINE some == tried
    <3>1. some \in SUBSET (0 .. n) /\ some # {}
      BY <1>4
    <3> HIDE DEF some
    <3>2. Least(some) \in some
      BY <2>1, <3>1, LeastIsMember
    <3> QED
      BY <3>2 DEF some
  <2>3. findSlot(i, tab) \notin {NONE, NEVER}
    BY <1>4, <2>2
  <2> HIDE DEF n, tried, i
  <2>4. PICK g \in Given : PutAt(tab, findSlot(i, tab), i, copies \ g)
    BY <1>4
  <2>5. StoreInv' /\ (Map!AbsPlaced("insertNull", i, copies \ g) \/ Map!AbsDoubled("insertNull", i))
    BY <1>4, <2>0, <2>3, <2>4, GivenLeaves, Placed
  <2>6. ~doubled /\ i \in Ids
    BY <1>4 DEF Intact
  <2> QED
    BY <2>5, <2>6 DEF Steps, Refines, Map!AbsNext, Map!AbsInsertNull, Map!Handed, Given
<1> QED
  BY <1>1, <1>3, <1>4

\* What the map sees of a step that leaves the table alone.
LEMMA TableStays ==
  ASSUME Intact, UNCHANGED <<entries, count, doubled>>, copies' \in SUBSET Copies, IsFiniteSet(copies')
  PROVE  /\ StoreInv' /\ Held' = Held /\ ~doubled /\ UNCHANGED ~NoTombstones
         /\ StoredIds(entries) = Held /\ StoredIds(entries)' = Held
<1>1. Intact' /\ Held' = Held
  BY DEF Intact, Held
<1>2. UNCHANGED ~NoTombstones /\ ~doubled
  BY DEF NoTombstones, Intact
<1> QED
  BY <1>1, <1>2, MapIsTable DEF StoreInv

\* insert without memory for the larger table.
LEMMA InsertingWithoutMemory ==
  ASSUME Intact, InsertFails
  PROVE  Steps
<1>1. copies' \in SUBSET copies
  BY DEF InsertFails
<1>2. copies' \in SUBSET Copies /\ IsFiniteSet(copies')
  BY <1>1, FS_Subset DEF Intact
<1>3. /\ StoreInv' /\ Held' = Held /\ ~doubled /\ UNCHANGED ~NoTombstones
      /\ StoredIds(entries) = Held /\ StoredIds(entries)' = Held
  BY <1>2, TableStays DEF InsertFails
<1>4. UNCHANGED ~doubled
  BY DEF InsertFails
<1>5. Map!AbsInsertFails
  BY <1>3, <1>4 DEF InsertFails, Returns, Map!AbsInsertFails, Map!Answer, Map!Handed, Given, StoredIds
<1> QED
  BY <1>3, <1>5 DEF Steps, Refines, Map!AbsNext

\* What a lookup in the table says of the map.
LEMMA LookingUp ==
  ASSUME Intact, NEW i \in Ids
  PROVE  /\ findNode(i, entries) = NONE => i \notin Held
         /\ findNode(i, entries) \notin {NONE, NEVER} =>
              /\ i \in Held
              /\ findNode(i, entries) \in Slots(entries) /\ entries[findNode(i, entries)] = i
<1>1. NONE \notin Slots(entries)
  BY SizesAreNumbers DEF Intact, Sound, Table, Slots, NONE
<1> QED
  BY <1>1, Finding DEF Intact, Held, Holding

\* A lookup answers by what the map stores.
LEMMA Getting ==
  ASSUME Intact, NEW i \in Ids, Get(i)
  PROVE  Steps
<1>1. CASE Stutters
  BY <1>1, Stuttering
<1>2. CASE ~Stutters
  <2>1. /\ findNode(i, entries) # NEVER
        /\ IF findNode(i, entries) = NONE THEN Returns("get", i, "null", "none") ELSE Returns("get", -1, "good", "none")
        /\ UNCHANGED <<entries, count, copies, doubled>>
    BY <1>2 DEF Get, Dies, Stutters
  <2>2. /\ StoreInv' /\ Held' = Held /\ ~doubled /\ UNCHANGED ~NoTombstones
        /\ StoredIds(entries) = Held /\ StoredIds(entries)' = Held
    BY <2>1, TableStays DEF Intact
  <2>3. Map!AbsGet(i)
    BY <2>1, <2>2, LookingUp DEF Map!AbsGet, Map!Answer, Returns, StoredIds
  <2> QED
    BY <2>2, <2>3 DEF Steps, Refines, Map!AbsNext
<1> QED
  BY <1>1, <1>2

\* As long as there are fewer copies than keys a key is free, and Least chooses one.
LEMMA AKeyIsFree ==
  ASSUME copies \in SUBSET Copies, IsFiniteSet(copies), Cardinality(copies) < MaxDrafts
  PROVE  LET key == Least((1 .. MaxDrafts) \ {c.key : c \in copies})
         IN  key \in 1 .. MaxDrafts /\ \A c \in copies : c.key # key
<1> DEFINE used == {c.key : c \in copies}
           free == (1 .. MaxDrafts) \ used
<1>1. MaxDrafts \in Nat /\ Cardinality(copies) \in Nat
  BY StoreConstants, FS_CardinalityType
<1>2. IsFiniteSet(used) /\ Cardinality(used) <= Cardinality(copies)
  <2> DEFINE f == [c \in copies |-> c.key]
  <2>1. f \in Surjection(copies, used)
    BY DEF Surjection
  <2> HIDE DEF f, used
  <2> QED
    BY <2>1, FS_Surjection
<1>3. used # 1 .. MaxDrafts
  <2>1. Cardinality(1 .. MaxDrafts) = MaxDrafts
    BY <1>1, FS_Interval
  <2> HIDE DEF used
  <2> QED
    BY <1>1, <1>2, <2>1
<1>4. used \in SUBSET (1 .. MaxDrafts)
  BY DEF Copies
<1>5. free \in SUBSET (0 .. MaxDrafts) /\ free # {}
  BY <1>3, <1>4
<1>6. Least(free) \in free
  <2> HIDE DEF free
  <2> QED
    BY <1>1, <1>5, LeastIsMember
<1> QED
  BY <1>6

\* A copy is made of a node that is stored.
LEMMA GettingACopy ==
  ASSUME Intact, NEW i \in Ids, GetCopy(i)
  PROVE  Steps
<1> DEFINE s == findNode(i, entries)
           key == Least((1 .. MaxDrafts) \ {c.key : c \in copies})
           copy == [key |-> key, id |-> i, current |-> TRUE]
<1>1. /\ Cardinality(copies) < MaxDrafts
      /\ \/ Stutters
         \/ Returns("getCopy", i, "null", "none") /\ UNCHANGED <<entries, count, copies, doubled>>
         \/ /\ s \notin {NONE, NEVER} /\ copies' = copies \cup {copy}
            /\ Returns("getCopy", -1, "good", "none") /\ UNCHANGED <<entries, count, doubled>>
  BY DEF GetCopy, Dies, Stutters
<1>2. key \in 1 .. MaxDrafts /\ \A c \in copies : c.key # key
  BY <1>1, AKeyIsFree DEF Intact
<1> HIDE DEF key, s
<1>3. CASE Stutters
  BY <1>3, Stuttering
<1>4. CASE Returns("getCopy", i, "null", "none") /\ UNCHANGED <<entries, count, copies, doubled>>
  <2>1. /\ StoreInv' /\ Held' = Held /\ ~doubled /\ UNCHANGED ~NoTombstones
        /\ StoredIds(entries) = Held /\ StoredIds(entries)' = Held
    BY <1>4, TableStays DEF Intact
  <2>2. Map!AbsGetCopy(i)
    BY <1>4, <2>1 DEF Map!AbsGetCopy, Map!Answer, Returns, StoredIds
  <2> QED
    BY <2>1, <2>2 DEF Steps, Refines, Map!AbsNext
<1>5. CASE /\ s \notin {NONE, NEVER} /\ copies' = copies \cup {copy}
           /\ Returns("getCopy", -1, "good", "none") /\ UNCHANGED <<entries, count, doubled>>
  <2>1. i \in Held
    BY <1>5, LookingUp DEF s
  <2>2. copy \in Copies
    BY <1>2 DEF Copies
  <2>3. copies' \in SUBSET Copies /\ IsFiniteSet(copies')
    <3> HIDE DEF copy
    <3> QED
      BY <1>5, <2>2, FS_AddElement DEF Intact
  <2>4. /\ StoreInv' /\ Held' = Held /\ ~doubled /\ UNCHANGED ~NoTombstones
        /\ StoredIds(entries) = Held /\ StoredIds(entries)' = Held
    BY <1>5, <2>3, TableStays
  <2>5. Map!AbsGetCopy(i)
    BY <1>2, <1>5, <2>1, <2>4 DEF Map!AbsGetCopy, Map!Answer, Returns, StoredIds
  <2> QED
    BY <2>4, <2>5 DEF Steps, Refines, Map!AbsNext
<1> QED
  BY <1>1, <1>3, <1>4, <1>5

\* An edited copy takes the place of its node, unless that has changed.
LEMMA Replacing ==
  ASSUME Intact, NEW c \in copies, Replace(c)
  PROVE  Steps
<1> DEFINE s == findNode(c.id, entries)
           rest == copies \ {c}
<1>1. \/ Stutters
      \/ s = NONE /\ copies' = rest /\ Returns("replace", c.id, "unknown", "kept") /\ UNCHANGED <<entries, count, doubled>>
      \/ /\ s \notin {NONE, NEVER} /\ (~c.current \/ doubled) /\ copies' = rest
         /\ Returns("replace", c.id, "stale", "deleted") /\ UNCHANGED <<entries, count, doubled>>
      \/ /\ s \notin {NONE, NEVER} /\ (c.current \/ doubled) /\ copies' \in Readdressed(rest, c.id)
         /\ Returns("replace", -1, "good", "stored") /\ UNCHANGED <<entries, count, doubled>>
  BY DEF Replace, Dies, Stutters
<1>2. c.id \in Ids
  BY DEF Intact, Copies
<1>3. rest \in SUBSET Copies /\ IsFiniteSet(rest)
  BY FS_RemoveElement DEF Intact
<1>4. CASE Stutters
  BY <1>4, Stuttering
<1>5. CASE ~Stutters
  <2>1. (copies' = rest \/ copies' \in Readdressed(rest, c.id)) /\ UNCHANGED <<entries, count, doubled>>
    BY <1>1, <1>5
  <2>2. copies' \in SUBSET Copies /\ IsFiniteSet(copies')
    <3> HIDE DEF rest
    <3> QED
      BY <1>3, <2>1, Readdressing
  <2>3. /\ StoreInv' /\ Held' = Held /\ ~doubled /\ UNCHANGED ~NoTombstones
        /\ StoredIds(entries) = Held /\ StoredIds(entries)' = Held
    BY <2>1, <2>2, TableStays
  <2>4. s = NONE => c.id \notin Held
    BY <1>2, LookingUp
  <2>5. s \notin {NONE, NEVER} => c.id \in Held
    BY <1>2, LookingUp
  <2>6. UNCHANGED ~doubled
    BY <2>1
  <2> HIDE DEF s
  <2>7. Map!AbsReplace(c)
    BY <1>1, <1>5, <2>3, <2>4, <2>5, <2>6
    DEF Map!AbsReplace, Map!Answer, Map!Resettled, Map!Outdate, Readdressed, Outdated, Returns, StoredIds
  <2> QED
    BY <2>3, <2>7 DEF Steps, Refines, Map!AbsNext
<1> QED
  BY <1>4, <1>5

\* A copy is given up.
LEMMA Discarding ==
  ASSUME Intact, NEW c \in copies, DeleteNode(c)
  PROVE  Steps
<1>1. copies' \in SUBSET Copies /\ IsFiniteSet(copies')
  BY FS_RemoveElement DEF Intact, DeleteNode
<1>2. /\ StoreInv' /\ Held' = Held /\ ~doubled /\ UNCHANGED ~NoTombstones
      /\ StoredIds(entries) = Held /\ StoredIds(entries)' = Held
  BY <1>1, TableStays DEF DeleteNode
<1>3. Map!AbsDiscard(c)
  BY <1>2 DEF DeleteNode, Map!AbsDiscard, Map!Answer, Returns, StoredIds
<1> QED
  BY <1>2, <1>3 DEF Steps, Refines, Map!AbsNext

\* The tombstone, and the smaller table if there is one, hold the other ids.
LEMMA Removing ==
  ASSUME Intact, NEW i \in Ids, RemoveNode(i)
  PROVE  Steps
<1> DEFINE s == findNode(i, entries)
           tab == Vacated(entries, s)
<1>1. \/ Stutters
      \/ s = NONE /\ Returns("remove", i, "unknown", "none") /\ UNCHANGED <<entries, count, copies, doubled>>
      \/ /\ s \notin {NONE, NEVER}
         /\ entries' = tab \/ (entries' = expand(tab, count - 1) /\ entries' # Broken)
         /\ count' = count - 1 /\ copies' = Outdated(copies, i) /\ Returns("remove", -1, "good", "none")
         /\ UNCHANGED doubled
  BY DEF RemoveNode, Dies, Stutters
<1>2. CASE Stutters
  BY <1>2, Stuttering
<1>3. CASE s = NONE /\ Returns("remove", i, "unknown", "none") /\ UNCHANGED <<entries, count, copies, doubled>>
  <2>1. /\ StoreInv' /\ Held' = Held /\ ~doubled /\ UNCHANGED ~NoTombstones
        /\ StoredIds(entries) = Held /\ StoredIds(entries)' = Held
    BY <1>3, TableStays DEF Intact
  <2>2. Map!AbsRemove(i)
    BY <1>3, <2>1, LookingUp DEF Map!AbsRemove, Map!Answer, Returns, StoredIds
  <2> QED
    BY <2>1, <2>2 DEF Steps, Refines, Map!AbsNext
<1>4. CASE /\ s \notin {NONE, NEVER}
           /\ entries' = tab \/ (entries' = expand(tab, count - 1) /\ entries' # Broken)
           /\ count' = count - 1 /\ copies' = Outdated(copies, i) /\ Returns("remove", -1, "good", "none")
           /\ UNCHANGED doubled
  <2>1. i \in Held /\ s \in Slots(entries) /\ entries[s] = i
    BY <1>4, LookingUp
  <2>2. Sound(tab) /\ Holding(tab) = Held \ {i}
    BY <2>1, Vacating DEF Intact, Held
  <2>3. /\ Cardinality(Held \ {i}) = Cardinality(Held) - 1
        /\ Cardinality(Held) \in Nat /\ Cardinality(Held \ {i}) \in Nat
        /\ Cardinality(Held) <= Cardinality(Ids) /\ Cardinality(Ids) \in Nat
    <3>1. IsFiniteSet(Held \ {i}) /\ Cardinality(Held \ {i}) = Cardinality(Held) - 1
      BY <2>1, HeldIsFinite, FS_RemoveElement DEF Held
    <3> QED
      BY <3>1, HeldIsFinite, FS_CardinalityType DEF Held
  <2>4. count - 1 \in Nat /\ count - 1 <= Cardinality(Ids) /\ count - 1 = Cardinality(Held \ {i})
    BY <2>3 DEF Intact, Held
  <2> HIDE DEF tab, s
  <2>5. Sound(entries') /\ Held' = Held \ {i}
    <3>1. CASE entries' = tab
      BY <2>2, <3>1 DEF Held
    <3>2. CASE entries' = expand(tab, count - 1) /\ entries' # Broken
      BY <2>2, <2>4, <3>2, Expanding DEF Held
    <3> QED
      BY <1>4, <3>1, <3>2
  <2>6. copies' \in SUBSET Copies /\ IsFiniteSet(copies')
    BY <1>4, Outdating DEF Intact
  <2>7. Intact'
    BY <1>4, <2>4, <2>5, <2>6 DEF Intact, Held
  <2>8. StoredIds(entries) = Held /\ StoredIds(entries)' = Held'
    BY <2>7, MapIsTable
  <2>9. ~doubled /\ UNCHANGED ~doubled
    BY <1>4 DEF Intact
  <2>10. Map!AbsRemove(i)
    BY <1>4, <2>1, <2>5, <2>8, <2>9 DEF Map!AbsRemove, Map!Answer, Map!Outdate, Outdated, Returns, StoredIds
  <2> QED
    BY <2>7, <2>9, <2>10 DEF Steps, StoreInv, Refines, Map!AbsNext
<1> QED
  BY <1>1, <1>2, <1>3, <1>4

-----------------------------------------------------------------------------
(* The theorems.                                                           *)

\* A new table is empty, and so is the map.
LEMMA Starting ==
  ASSUME StoreInit
  PROVE  StoreInv /\ Map!AbsInit
<1> DEFINE n == higher_prime(MinSize)
<1>1. n \in Sizes
  BY StoreConstants, HigherPrime
<1> HIDE DEF n
<1>2. Sound(entries) /\ Holding(entries) = {} /\ Clean(entries)
  BY <1>1, EmptyTables DEF StoreInit, n
<1>3. Intact
  BY <1>2, FS_EmptySet DEF StoreInit, Intact
<1>4. StoredIds(entries) = {} /\ NoTombstones
  BY <1>2, <1>3, StoredIsHeld, NoTombstonesIsClean
<1> QED
  BY <1>3, <1>4 DEF StoreInit, StoreInv, Map!AbsInit, StoredIds

\* Once an id has been doubled the map promises nothing more.
LEMMA DoubledStays ==
  ASSUME doubled = TRUE, [StoreNext]_storeVars
  PROVE  Steps
<1>1. doubled' = TRUE
  BY DEF StoreNext, storeVars, Insert, InsertNull, InsertFails, Get, GetCopy, Replace, DeleteNode, RemoveNode, PutAt, Dies
<1> QED
  BY <1>1 DEF Steps, StoreInv, Refines, Map!AbsNext

\* Every step keeps the invariant and is one of the map or none.
LEMMA Stepping ==
  ASSUME StoreInv, [StoreNext]_storeVars
  PROVE  StoreInv' /\ Refines
<1>1. CASE doubled = TRUE
  BY <1>1, DoubledStays DEF Steps
<1>2. CASE Intact
  <2>1. CASE UNCHANGED storeVars
    BY <1>2, <2>1, Stuttering DEF storeVars, Stutters, Steps
  <2>2. CASE InsertNull \/ InsertFails
    BY <1>2, <2>2, InsertingUnnamed, InsertingWithoutMemory DEF Steps
  <2>3. CASE \E i \in Ids : Insert(i) \/ Get(i) \/ GetCopy(i) \/ RemoveNode(i)
    BY <1>2, <2>3, Inserting, Getting, GettingACopy, Removing DEF Steps
  <2>4. CASE \E c \in copies : Replace(c) \/ DeleteNode(c)
    BY <1>2, <2>4, Replacing, Discarding DEF Steps
  <2> QED
    BY <2>1, <2>2, <2>3, <2>4 DEF StoreNext
<1> QED
  BY <1>1, <1>2 DEF StoreInv

\* Whatever is asked of the store: until an id that is stored is inserted again, every
\* id that is held is held once, the probing for it never meets an unused slot first,
\* and ns->count is the number of entries.
THEOREM StoreInvariance == StoreSpec => []StoreInv
<1>1. StoreInit => StoreInv
  BY Starting
<1>2. StoreInv /\ [StoreNext]_storeVars => StoreInv'
  BY Stepping
<1> QED
  BY <1>1, <1>2, PTL DEF StoreSpec

\* The hash map implements the map of NodeMap: whatever tombstones lie on the paths,
\* whatever sizes the table takes and whatever ids collide, no step of the store loses,
\* hides or doubles an entry, and every call answers as the map, until an id that is
\* stored is inserted again; and that happens only while a removed node has left a
\* tombstone.
THEOREM StoreImplementsMap == StoreSpec => ImplementsMap
<1>1. StoreInit => StoreInv /\ Map!AbsInit
  BY Starting
<1>2. StoreInv /\ [StoreNext]_storeVars => StoreInv' /\ [Map!AbsNext]_(Map!mapVars)
  BY Stepping DEF Refines
<1> QED
  BY <1>1, <1>2, PTL DEF StoreSpec, ImplementsMap, Map!AbsSpec

-----------------------------------------------------------------------------
(* The attributes of a variable and its type: the invariant.               *)

\* What the nodes can be; data types are any.
IsNode(n) ==
  /\ n = [class |-> n.class, dataType |-> n.dataType, rank |-> n.rank, dims |-> n.dims,
          val |-> n.val, src |-> n.src, access |-> n.access, mask |-> n.mask, abstract |-> n.abstract]
  /\ n.rank \in Int /\ n.dims \in Seq(Int) /\ n.val \in DataValue

IsWorld(ns) ==
  /\ T \in DOMAIN ns /\ DOMAIN ns \subseteq {T, V} /\ ns = [id \in DOMAIN ns |-> ns[id]]
  /\ \A id \in DOMAIN ns : IsNode(ns[id])

\* The value fits, whatever is known of the rank.
Fits(n) ==
  n.src = "data" /\ n.val.has /\ n.val.v.type # NoType =>
    compatibleDataType(n.val.v.type, n.dataType) /\ ShapeFits(n, n.val.v)

Agree(ns) == V \in DOMAIN ns => Describes(ns[V], ns[T]) /\ Fits(ns[V])

AttrInv == IsWorld(nodes) /\ source \in Variant /\ Agree(nodes)

\* A write answers with the nodes it was given, or with one of them changed.
Answers(ns, id, r) ==
  /\ r.st # "Good" => r.ns = ns
  /\ IsWorld(r.ns) /\ DOMAIN r.ns = DOMAIN ns
  /\ \A o \in DOMAIN ns : o # id => r.ns[o] = ns[o]
  /\ r.ns[id].src = ns[id].src

-----------------------------------------------------------------------------
(* Variants.                                                               *)

\* The parts of a variant.
LEMMA VariantParts ==
  ASSUME NEW v \in Variant
  PROVE  /\ v.type \in Known \cup {NoType} /\ v.kind \in {"none", "null", "scalar", "array"}
         /\ v.elems \in Seq(Seq(Int)) /\ v.dims \in Seq(Int)
         /\ (v.kind = "none" <=> v.type = NoType)
         /\ v.kind = "scalar" => v.dims = <<>> /\ Len(v.elems) = 1
BY DEF Variant

\* The empty variant is one.
LEMMA EmptyIsVariant == EmptyVariant \in Variant /\ EmptyVariant.type = NoType
BY DEF EmptyVariant, Variant

\* A conversion gives a variant again.
LEMMA Converting ==
  ASSUME NEW v \in Variant, v.type # NoType, NEW target
  PROVE  convertToMatchingValue(v, target) \in Variant
<1> DEFINE c == convertToMatchingValue(v, target)
<1>1. CASE target \notin Known
  BY <1>1, EmptyIsVariant DEF convertToMatchingValue
<1>2. CASE target = "Byte" /\ v.type = "ByteString" /\ UA_Variant_isScalar(v) /\ target \in Known
  <2> DEFINE str == v.elems[1]
             cells == [k \in DOMAIN str |-> <<str[k]>>]
  <2>1. str \in Seq(Int)
    BY <1>2, VariantParts DEF UA_Variant_isScalar
  <2>2. cells \in Seq(Seq(Int))
    <3> HIDE DEF str
    <3>1. DOMAIN str = 1 .. Len(str) /\ Len(str) \in Nat /\ \A k \in 1 .. Len(str) : str[k] \in Int
      BY <2>1
    <3>2. \A x \in Int : <<x>> \in Seq(Int)
      OBVIOUS
    <3>3. cells = [k \in 1 .. Len(str) |-> <<str[k]>>]
      BY <3>1
    <3>4. cells \in [1 .. Len(str) -> Seq(Int)]
      BY <3>1, <3>2, <3>3
    <3> HIDE DEF cells
    <3> QED
      BY <3>1, <3>4
  <2>3. c = Array("Byte", cells, <<>>)
    BY <1>2 DEF convertToMatchingValue
  <2> HIDE DEF cells
  <2>4. "Byte" \in Known /\ "Byte" # NoType /\ <<>> \in Seq(Int)
    BY AttributeConstants
  <2> QED
    BY <2>2, <2>3, <2>4 DEF Array, Variant
<1>3. CASE target \in Known /\ c = [v EXCEPT !.type = target]
  <2>1. target # NoType
    BY <1>3, AttributeConstants
  <2>2. v \in [type : Known \cup {NoType}, kind : {"none", "null", "scalar", "array"},
               elems : Seq(Seq(Int)), dims : Seq(Int)]
    BY DEF Variant
  <2>3. /\ c \in [type : Known \cup {NoType}, kind : {"none", "null", "scalar", "array"},
                  elems : Seq(Seq(Int)), dims : Seq(Int)]
        /\ c.type = target /\ c.kind = v.kind /\ c.elems = v.elems /\ c.dims = v.dims
    <3> HIDE DEF c
    <3> QED
      BY <1>3, <2>2
  <2> HIDE DEF c
  <2>4. c \in Variant
    BY <2>1, <2>3, VariantParts DEF Variant
  <2> QED
    BY <2>4 DEF c
<1>4. c = EmptyVariant => c \in Variant
  <2> HIDE DEF c
  <2> QED
    BY EmptyIsVariant
<1>5. target \in Known => \/ target = "Byte" /\ v.type = "ByteString" /\ UA_Variant_isScalar(v)
                          \/ c = [v EXCEPT !.type = target]
                          \/ c = EmptyVariant
  BY DEF convertToMatchingValue
<1> HIDE DEF c
<1> QED
  BY <1>1, <1>2, <1>3, <1>4, <1>5 DEF c

\* What is stored is a variant.
LEMMA Fitting ==
  ASSUME NEW d, NEW v \in Variant
  PROVE  Fitted(d, v) \in Variant
BY Converting DEF Fitted

\* A range write changes elements only: not their number, and nothing around them.
LEMMA WritingARange ==
  ASSUME NEW v \in Variant, NEW w \in Variant, NEW range,
         Variant_setRange(v, w.elems, range).st = "Good"
  PROVE  LET x == Variant_setRange(v, w.elems, range).v
         IN x \in Variant /\ x.type = v.type /\ x.kind = v.kind /\ x.dims = v.dims /\ Len(x.elems) = Len(v.elems)
<1> DEFINE s == computeStrides(v, range, IF v.kind = "array" THEN Len(v.elems) ELSE 0)
           elems == w.elems
           x == Variant_setRange(v, elems, range).v
           es == [p \in DOMAIN v.elems |->
                    IF \E i \in 1..s.total : Position(s, i) = p THEN elems[CHOOSE i \in 1..s.total : Position(s, i) = p] ELSE v.elems[p]]
<1> HIDE DEF s
<1>1. s.total = Len(elems) /\ x = Written(v, s, elems)
  BY DEF Variant_setRange, SetAt, s
<1>2. x = [v EXCEPT !.elems = es]
  BY <1>1 DEF Written
<1>3. /\ elems \in Seq(Seq(Int)) /\ v.elems \in Seq(Seq(Int))
  BY VariantParts
<1>4. es \in Seq(Seq(Int)) /\ Len(es) = Len(v.elems)
  <2>1. ASSUME NEW p \in DOMAIN v.elems PROVE es[p] \in Seq(Int)
    <3>1. CASE \E i \in 1..s.total : Position(s, i) = p
      <4> DEFINE j == CHOOSE i \in 1..s.total : Position(s, i) = p
      <4>1. j \in 1..s.total
        BY <3>1
      <4>2. es[p] = elems[j]
        BY <3>1
      <4> HIDE DEF j
      <4> QED
        BY <1>1, <1>3, <4>1, <4>2
    <3>2. CASE ~\E i \in 1..s.total : Position(s, i) = p
      BY <1>3, <3>2
    <3> QED
      BY <3>1, <3>2
  <2>2. DOMAIN es = DOMAIN v.elems /\ es = [p \in DOMAIN v.elems |-> es[p]]
    OBVIOUS
  <2> HIDE DEF es
  <2>3. DOMAIN v.elems = 1 .. Len(v.elems) /\ Len(v.elems) \in Nat
    BY <1>3
  <2>4. es \in [1 .. Len(v.elems) -> Seq(Int)]
    BY <2>1, <2>2, <2>3
  <2> QED
    BY <2>3, <2>4
<1> HIDE DEF es
<1>5. v \in [type : Known \cup {NoType}, kind : {"none", "null", "scalar", "array"},
             elems : Seq(Seq(Int)), dims : Seq(Int)]
  BY DEF Variant
<1> HIDE DEF x
<1>6. /\ x \in [type : Known \cup {NoType}, kind : {"none", "null", "scalar", "array"},
                elems : Seq(Seq(Int)), dims : Seq(Int)]
      /\ x.type = v.type /\ x.kind = v.kind /\ x.dims = v.dims /\ x.elems = es
  BY <1>2, <1>4, <1>5
<1>7. x \in Variant
  BY <1>4, <1>6, VariantParts DEF Variant
<1> QED
  BY <1>4, <1>6, <1>7 DEF x

-----------------------------------------------------------------------------
(* Writing.                                                                *)

\* A node with one attribute changed is a node.
LEMMA ChangedIsNode ==
  ASSUME NEW n, IsNode(n)
  PROVE  /\ \A d : IsNode([n EXCEPT !.dataType = d])
         /\ \A d : IsNode([n EXCEPT !.access = d])
         /\ \A d : IsNode([n EXCEPT !.mask = d])
         /\ \A d : IsNode([n EXCEPT !.abstract = d])
         /\ \A d \in Int : IsNode([n EXCEPT !.rank = d])
         /\ \A d \in Seq(Int) : IsNode([n EXCEPT !.dims = d])
         /\ \A d \in DataValue : IsNode([n EXCEPT !.val = d])
<1>1. ASSUME NEW d PROVE IsNode([n EXCEPT !.dataType = d])
  BY DEF IsNode
<1>2. ASSUME NEW d PROVE IsNode([n EXCEPT !.access = d])
  BY DEF IsNode
<1>3. ASSUME NEW d PROVE IsNode([n EXCEPT !.mask = d])
  BY DEF IsNode
<1>4. ASSUME NEW d PROVE IsNode([n EXCEPT !.abstract = d])
  BY DEF IsNode
<1>5. ASSUME NEW d \in Int PROVE IsNode([n EXCEPT !.rank = d])
  BY DEF IsNode
<1>6. ASSUME NEW d \in Seq(Int) PROVE IsNode([n EXCEPT !.dims = d])
  <2> DEFINE m == [n EXCEPT !.dims = d]
  <2>1. ASSUME NEW x, NEW y, y = [n EXCEPT !.dims = x]
        PROVE  /\ y = [class |-> y.class, dataType |-> y.dataType, rank |-> y.rank, dims |-> y.dims,
                       val |-> y.val, src |-> y.src, access |-> y.access, mask |-> y.mask, abstract |-> y.abstract]
               /\ y.rank = n.rank /\ y.dims = x /\ y.val = n.val
    BY <2>1 DEF IsNode
  <2>2. /\ m = [class |-> m.class, dataType |-> m.dataType, rank |-> m.rank, dims |-> m.dims,
               val |-> m.val, src |-> m.src, access |-> m.access, mask |-> m.mask, abstract |-> m.abstract]
        /\ m.rank = n.rank /\ m.dims = d /\ m.val = n.val
    <3> HIDE DEF m
    <3>1. ASSUME NEW y, y = [n EXCEPT !.dims = d]
          PROVE  /\ y = [class |-> y.class, dataType |-> y.dataType, rank |-> y.rank, dims |-> y.dims,
                       val |-> y.val, src |-> y.src, access |-> y.access, mask |-> y.mask, abstract |-> y.abstract]
                 /\ y.rank = n.rank /\ y.dims = d /\ y.val = n.val
      BY <2>1, <3>1
    <3>2. m = [n EXCEPT !.dims = d]
      BY DEF m
    <3> QED
      BY <3>1, <3>2
  <2> HIDE DEF m
  <2>3. IsNode(m)
    BY <2>2 DEF IsNode
  <2> QED
    BY <2>3 DEF m
<1>7. ASSUME NEW d \in DataValue PROVE IsNode([n EXCEPT !.val = d])
  BY DEF IsNode
<1> QED
  BY <1>1, <1>2, <1>3, <1>4, <1>5, <1>6, <1>7

\* What the changed node has.
LEMMA WhatChanged ==
  ASSUME NEW n, IsNode(n), NEW d
  PROVE  /\ LET m == [n EXCEPT !.dataType = d] IN m.dataType = d /\ m.rank = n.rank /\ m.dims = n.dims /\ m.val = n.val /\ m.src = n.src
         /\ LET m == [n EXCEPT !.rank = d] IN m.dataType = n.dataType /\ m.rank = d /\ m.dims = n.dims /\ m.val = n.val /\ m.src = n.src
         /\ LET m == [n EXCEPT !.dims = d] IN m.dataType = n.dataType /\ m.rank = n.rank /\ m.dims = d /\ m.val = n.val /\ m.src = n.src
         /\ LET m == [n EXCEPT !.val = d] IN m.dataType = n.dataType /\ m.rank = n.rank /\ m.dims = n.dims /\ m.val = d /\ m.src = n.src
         /\ LET m == [n EXCEPT !.access = d] IN m.dataType = n.dataType /\ m.rank = n.rank /\ m.dims = n.dims /\ m.val = n.val /\ m.src = n.src
         /\ LET m == [n EXCEPT !.mask = d] IN m.dataType = n.dataType /\ m.rank = n.rank /\ m.dims = n.dims /\ m.val = n.val /\ m.src = n.src
         /\ LET m == [n EXCEPT !.abstract = d] IN m.dataType = n.dataType /\ m.rank = n.rank /\ m.dims = n.dims /\ m.val = n.val /\ m.src = n.src
BY DEF IsNode

\* A write that is refused answers with the nodes it was given.
LEMMA RefusedAnswers ==
  ASSUME NEW ns, IsWorld(ns), NEW id, NEW st
  PROVE  Answers(ns, id, Denied(ns, st))
BY DEF Answers, Denied

\* A write that changes one node keeps the others.
LEMMA DoneAnswers ==
  ASSUME NEW ns, IsWorld(ns), NEW id \in DOMAIN ns, NEW m, IsNode(m), m.src = ns[id].src
  PROVE  Answers(ns, id, Done([ns EXCEPT ![id] = m])) /\ Done([ns EXCEPT ![id] = m]).ns[id] = m
BY DEF Answers, Done, IsWorld

\* The whole contract of a write: it answers, and what agreed still agrees.
Behaves(ns, id, r) == Answers(ns, id, r) /\ (Agree(ns) => Agree(r.ns))

\* What is refused leaves the nodes as they are.
LEMMA RefusedBehaves ==
  ASSUME NEW ns, IsWorld(ns), NEW id, NEW st
  PROVE  Behaves(ns, id, Denied(ns, st))
<1>1. Denied(ns, st).ns = ns
  BY DEF Denied
<1> QED
  BY <1>1, RefusedAnswers DEF Behaves

\* What is done agrees, when the changed variable does and the description of a
\* type with a variable is the old one.
LEMMA DoneBehaves ==
  ASSUME NEW ns, IsWorld(ns), NEW id \in DOMAIN ns, NEW m, IsNode(m), m.src = ns[id].src,
         id = V /\ Agree(ns) => Describes(m, ns[T]) /\ Fits(m),
         id = T /\ V \in DOMAIN ns => m.dataType = ns[T].dataType /\ m.rank = ns[T].rank /\ m.dims = ns[T].dims
  PROVE  Behaves(ns, id, Done([ns EXCEPT ![id] = m])) /\ Done([ns EXCEPT ![id] = m]).ns[id] = m
<1> DEFINE new == [ns EXCEPT ![id] = m]
<1>1. Answers(ns, id, Done(new)) /\ Done(new).ns = new /\ Done(new).ns[id] = m
  BY DoneAnswers DEF Done
<1>2. DOMAIN new = DOMAIN ns /\ new[id] = m /\ T \in DOMAIN ns /\ id \in {T, V} /\ T # V
      /\ \A o \in DOMAIN ns : o # id => new[o] = ns[o]
  BY DEF IsWorld, T, V
<1> HIDE DEF new
<1>3. ASSUME Agree(ns), V \in DOMAIN new PROVE Describes(new[V], new[T]) /\ Fits(new[V])
  <2>1. CASE id = V
    BY <1>2, <1>3, <2>1
  <2>2. CASE id = T
    BY <1>2, <1>3, <2>2 DEF Agree, Describes
  <2> QED
    BY <1>2, <2>1, <2>2
<1>4. Agree(ns) => Agree(new)
  BY <1>3 DEF Agree
<1> QED
  BY <1>1, <1>4 DEF Behaves, new

\* The value a write looks at is a data value.
LEMMA ReadIsValue ==
  ASSUME NEW n, IsNode(n)
  PROVE  n.src = "data" => readValueAttribute(n) = n.val /\ n.val \in DataValue
                           /\ n.val.has \in BOOLEAN /\ n.val.v \in Variant
BY DEF readValueAttribute, IsNode, DataValue

\* The array dimensions match the rank and the dimensions the value has.
LEMMA WritingDims ==
  ASSUME NEW ns, IsWorld(ns), NEW id \in DOMAIN ns, NEW dims \in Seq(Int)
  PROVE  Behaves(ns, id, writeArrayDimensionsAttribute(ns, id, dims))
<1> DEFINE n == ns[id]
           m == [n EXCEPT !.dims = dims]
           val == readValueAttribute(n)
           r == writeArrayDimensionsAttribute(ns, id, dims)
<1>1. IsNode(n) /\ id \in {T, V} /\ T # V /\ T \in DOMAIN ns
  BY DEF IsWorld, T, V
<1>2. IsNode(m) /\ m.dataType = n.dataType /\ m.rank = n.rank /\ m.dims = dims /\ m.val = n.val /\ m.src = n.src
  <2> HIDE DEF n
  <2> QED
    BY <1>1, ChangedIsNode, WhatChanged
<1>3. \/ \E st : r = Denied(ns, st)
      \/ /\ ~UA_Node_hasSubTypeOrInstances(ns, id)
         /\ compatibleValueRankArrayDimensions(n.rank, Len(dims))
         /\ compatibleArrayDimensions(getVariableNodeType(ns, id).dims, dims)
         /\ val.has => compatibleArrayDimensions(dims, val.v.dims)
         /\ r = Done([ns EXCEPT ![id] = m])
  <2> HIDE DEF val
  <2>1. [ns EXCEPT ![id].dims = dims] = [ns EXCEPT ![id] = m]
    OBVIOUS
  <2> HIDE DEF m
  <2> QED
    BY <2>1 DEF writeArrayDimensionsAttribute, val
<1> HIDE DEF m, r
<1>4. CASE \E st : r = Denied(ns, st)
  BY <1>4, RefusedBehaves DEF r
<1>5. CASE /\ ~UA_Node_hasSubTypeOrInstances(ns, id)
           /\ compatibleValueRankArrayDimensions(n.rank, Len(dims))
           /\ compatibleArrayDimensions(getVariableNodeType(ns, id).dims, dims)
           /\ val.has => compatibleArrayDimensions(dims, val.v.dims)
           /\ r = Done([ns EXCEPT ![id] = m])
  <2>1. ASSUME id = V, Agree(ns) PROVE Describes(m, ns[T]) /\ Fits(m)
    <3>1. Describes(n, ns[T]) /\ Fits(n)
      BY <2>1 DEF Agree
    <3>2. Describes(m, ns[T])
      BY <1>2, <1>5, <2>1, <3>1 DEF Describes, getVariableNodeType
    <3>3. ASSUME m.src = "data", m.val.has, m.val.v.type # NoType
          PROVE  compatibleDataType(m.val.v.type, m.dataType) /\ ShapeFits(m, m.val.v)
      <4> DEFINE v == n.val.v
      <4>1. /\ compatibleDataType(v.type, n.dataType) /\ ShapeFits(n, v)
            /\ compatibleArrayDimensions(dims, v.dims) /\ val.v = v
            /\ v \in Variant /\ n.rank \in Int /\ n.dims \in Seq(Int)
        BY <1>1, <1>2, <1>5, <3>1, <3>3, ReadIsValue DEF Fits, IsNode
      <4>2. v.dims \in Seq(Int) /\ Len(v.dims) \in Nat /\ Len(dims) \in Nat /\ Len(n.dims) \in Nat
            /\ (dims # <<>> => Len(dims) # 0) /\ (n.dims # <<>> => Len(n.dims) # 0) /\ (v.dims = <<>> => Len(v.dims) = 0)
            /\ Len(<<>>) = 0
        BY <4>1, VariantParts
      <4>3. CASE dims # <<>>
        <5>1. v.dims # <<>>
          BY <4>1, <4>2, <4>3 DEF compatibleArrayDimensions
        <5> QED
          BY <1>2, <4>1, <4>3, <5>1 DEF ShapeFits
      <4>4. CASE dims = <<>> /\ n.dims = <<>>
        <5> QED
          BY <1>2, <4>1, <4>4 DEF ShapeFits
      <4>5. CASE dims = <<>> /\ n.dims # <<>>
        <5>1. compatibleValueRankArrayDimensions(n.rank, Len(n.dims)) /\ compatibleValueRankArrayDimensions(n.rank, 0)
          BY <1>5, <3>1, <4>2, <4>5 DEF Describes
        <5>2. n.rank \in {-3, -2}
          BY <4>1, <4>2, <4>5, <5>1 DEF compatibleValueRankArrayDimensions
        <5>3. v.kind = "scalar" => v.dims = <<>>
          BY <4>1, VariantParts
        <5>4. compatibleValueRankValue(n.rank, v)
          BY <4>2, <5>2, <5>3 DEF compatibleValueRankValue, compatibleValueRankArrayDimensions, UA_Variant_isScalar
        <5> QED
          BY <1>2, <4>1, <4>5, <5>4 DEF ShapeFits
      <4> QED
        BY <4>3, <4>4, <4>5, <1>2, <4>1
    <3> QED
      BY <3>2, <3>3 DEF Fits
  <2>2. ~(id = T /\ V \in DOMAIN ns)
    BY <1>5 DEF UA_Node_hasSubTypeOrInstances
  <2>3. Behaves(ns, id, Done([ns EXCEPT ![id] = m]))
    <3> HIDE DEF n
    <3> QED
      BY <1>2, <2>1, <2>2, DoneBehaves DEF n
  <2> QED
    BY <1>5, <2>3 DEF r
<1> QED
  BY <1>3, <1>4, <1>5

\* The rank matches the dimensions, or the value when there are none.
LEMMA WritingRank ==
  ASSUME NEW ns, IsWorld(ns), NEW id \in DOMAIN ns, NEW rank \in Int
  PROVE  LET r == writeValueRankAttribute(ns, id, rank)
         IN Behaves(ns, id, r) /\ r.ns[id].val = ns[id].val
<1> DEFINE n == ns[id]
           m == [n EXCEPT !.rank = rank]
           val == readValueAttribute(n)
           number == IF n.dims # <<>> THEN Len(n.dims) ELSE IF UA_Variant_isScalar(val.v) THEN 0 ELSE 1
           r == writeValueRankAttribute(ns, id, rank)
           Matched == /\ ~UA_Node_hasSubTypeOrInstances(ns, id)
                      /\ compatibleValueRanks(rank, getVariableNodeType(ns, id).rank)
                      /\ \/ n.dims = <<>> /\ (~val.has \/ val.v.type = NoType)
                         \/ compatibleValueRankArrayDimensions(rank, number)
                      /\ r = Done([ns EXCEPT ![id] = m])
<1>1. IsNode(n) /\ id \in {T, V} /\ T # V /\ T \in DOMAIN ns
  BY DEF IsWorld, T, V
<1>2. IsNode(m) /\ m.dataType = n.dataType /\ m.rank = rank /\ m.dims = n.dims /\ m.val = n.val /\ m.src = n.src
  <2> HIDE DEF n
  <2> QED
    BY <1>1, ChangedIsNode, WhatChanged
<1>3. (\E st : r = Denied(ns, st)) \/ Matched
  <2> HIDE DEF val
  <2>1. [ns EXCEPT ![id].rank = rank] = [ns EXCEPT ![id] = m]
    OBVIOUS
  <2> HIDE DEF m
  <2> QED
    BY <2>1 DEF writeValueRankAttribute, val
<1> HIDE DEF m, r
<1>4. CASE \E st : r = Denied(ns, st)
  BY <1>4, RefusedBehaves DEF r, Denied
<1>5. CASE Matched
  <2>1. ASSUME id = V, Agree(ns) PROVE Describes(m, ns[T]) /\ Fits(m)
    <3>1. Describes(n, ns[T]) /\ Fits(n)
      BY <2>1 DEF Agree
    <3>2. Describes(m, ns[T])
      BY <1>2, <1>5, <2>1, <3>1 DEF Describes, getVariableNodeType
    <3>3. ASSUME m.src = "data", m.val.has, m.val.v.type # NoType
          PROVE  compatibleDataType(m.val.v.type, m.dataType) /\ ShapeFits(m, m.val.v)
      <4> DEFINE v == n.val.v
      <4>1. /\ compatibleDataType(v.type, n.dataType) /\ ShapeFits(n, v)
            /\ val = n.val /\ v \in Variant
        BY <1>1, <1>2, <3>1, <3>3, ReadIsValue DEF Fits
      <4>2. CASE n.dims # <<>>
        BY <1>2, <4>1, <4>2 DEF ShapeFits
      <4>3. CASE n.dims = <<>>
        <5>1. compatibleValueRankArrayDimensions(rank, IF UA_Variant_isScalar(v) THEN 0 ELSE 1)
          BY <1>2, <1>5, <3>3, <4>1, <4>3
        <5>2. UA_Variant_isScalar(v) => Len(v.dims) = 0
          BY <4>1, VariantParts DEF UA_Variant_isScalar
        <5>3. compatibleValueRankValue(rank, v)
          BY <5>1, <5>2 DEF compatibleValueRankValue
        <5> QED
          BY <1>2, <4>1, <4>3, <5>3 DEF ShapeFits
      <4> QED
        BY <4>2, <4>3
    <3> QED
      BY <3>2, <3>3 DEF Fits
  <2>2. ~(id = T /\ V \in DOMAIN ns)
    BY <1>5 DEF UA_Node_hasSubTypeOrInstances
  <2>3. Behaves(ns, id, Done([ns EXCEPT ![id] = m])) /\ Done([ns EXCEPT ![id] = m]).ns[id] = m
    <3> HIDE DEF n
    <3> QED
      BY <1>2, <2>1, <2>2, DoneBehaves DEF n
  <2> QED
    BY <1>2, <1>5, <2>3 DEF r
<1> QED
  BY <1>3, <1>4, <1>5 DEF r

\* The data type is one the value has; whatever was before, it fits now.
LEMMA WritingType ==
  ASSUME NEW ns, IsWorld(ns), NEW id \in DOMAIN ns, NEW type
  PROVE  LET r == writeDataTypeAttribute(ns, id, type)
         IN /\ Behaves(ns, id, r) /\ r.ns[id].val = ns[id].val
            /\ r.st = "Good" => Fits(r.ns[id])
<1> DEFINE n == ns[id]
           m == [n EXCEPT !.dataType = type]
           val == readValueAttribute(n)
           r == writeDataTypeAttribute(ns, id, type)
           Matched == /\ ~UA_Node_hasSubTypeOrInstances(ns, id)
                      /\ compatibleDataType(type, getVariableNodeType(ns, id).dataType)
                      /\ val.has => typeCheckValue(m, val.v, FALSE)
                      /\ r = Done([ns EXCEPT ![id] = m])
<1>1. IsNode(n) /\ id \in {T, V} /\ T # V /\ T \in DOMAIN ns
  BY DEF IsWorld, T, V
<1>2. IsNode(m) /\ m.dataType = type /\ m.rank = n.rank /\ m.dims = n.dims /\ m.val = n.val /\ m.src = n.src
  <2> HIDE DEF n
  <2>1. IsNode([n EXCEPT !.dataType = type])
    BY <1>1, ChangedIsNode
  <2>2. m.dataType = type /\ m.rank = n.rank /\ m.dims = n.dims /\ m.val = n.val /\ m.src = n.src
    BY <1>1, WhatChanged
  <2> QED
    BY <2>1, <2>2
<1>3. (\E st : r = Denied(ns, st) /\ st # "Good") \/ Matched
  <2> HIDE DEF val
  <2>1. [ns EXCEPT ![id].dataType = type] = [ns EXCEPT ![id] = m]
    OBVIOUS
  <2>2. r = IF UA_Node_hasSubTypeOrInstances(ns, id) THEN Denied(ns, "BadInternalError")
            ELSE IF \/ ~compatibleDataType(type, getVariableNodeType(ns, id).dataType)
                    \/ val.has /\ ~typeCheckValue(m, val.v, FALSE)
            THEN Denied(ns, "BadTypeMismatch")
            ELSE Done([ns EXCEPT ![id].dataType = type])
    BY Zenon DEF writeDataTypeAttribute, val
  <2> HIDE DEF m, r
  <2>3. r = Denied(ns, "BadInternalError") \/ r = Denied(ns, "BadTypeMismatch") \/ Matched
    BY <2>1, <2>2
  <2>4. "BadInternalError" # "Good" /\ "BadTypeMismatch" # "Good"
    OBVIOUS
  <2> QED
    BY <2>3, <2>4
<1> HIDE DEF m, r
<1>4. CASE \E st : r = Denied(ns, st) /\ st # "Good"
  BY <1>4, RefusedBehaves DEF r, Denied
<1>5. CASE Matched
  <2>1. Fits(m)
    BY <1>1, <1>2, <1>5, ReadIsValue DEF Fits, typeCheckValue
  <2>2. ASSUME id = V, Agree(ns) PROVE Describes(m, ns[T])
    BY <1>2, <1>5, <2>2 DEF Agree, Describes, getVariableNodeType
  <2>3. ~(id = T /\ V \in DOMAIN ns)
    BY <1>5 DEF UA_Node_hasSubTypeOrInstances
  <2>4. Behaves(ns, id, Done([ns EXCEPT ![id] = m])) /\ Done([ns EXCEPT ![id] = m]).ns[id] = m
    <3> HIDE DEF n
    <3> QED
      BY <1>2, <2>1, <2>2, <2>3, DoneBehaves DEF n
  <2> QED
    BY <1>2, <1>5, <2>1, <2>4 DEF r
<1> QED
  BY <1>3, <1>4, <1>5 DEF r

\* A value is stored when it fits; a whole one fits whatever was before.
LEMMA WritingValue ==
  ASSUME NEW ns, IsWorld(ns), NEW id \in DOMAIN ns, NEW val \in DataValue, NEW text
  PROVE  LET r == writeValueAttribute(ns, id, val, text)
         IN /\ Behaves(ns, id, r)
            /\ r.ns[id].dataType = ns[id].dataType /\ r.ns[id].rank = ns[id].rank /\ r.ns[id].dims = ns[id].dims
            /\ r.st = "Good" /\ text = <<>> => Fits(r.ns[id])
<1> DEFINE n == ns[id]
           fitted == IF val.has THEN Fitted(n, val.v) ELSE val.v
           ranged == text # <<>>
           range == UA_NumericRange_parseFromString(text)
           whole == [has |-> val.has, v |-> fitted]
           set == Variant_setRange(n.val.v, fitted.elems, range)
           part == [n.val EXCEPT !.v = set.v]
           r == writeValueAttribute(ns, id, val, text)
           Whole1 == /\ ~ranged /\ n.src = "data"
                     /\ val.has => typeCheckValue(n, fitted, FALSE)
                     /\ r = Done([ns EXCEPT ![id] = [n EXCEPT !.val = whole]])
           Part1 == /\ ranged /\ n.src = "data" /\ n.val.has /\ set.st = "Good"
                    /\ r = Done([ns EXCEPT ![id] = [n EXCEPT !.val = part]])
<1>1. IsNode(n) /\ id \in {T, V} /\ T # V /\ T \in DOMAIN ns
  BY DEF IsWorld, T, V
<1>2. fitted \in Variant
  BY Fitting DEF DataValue
<1>3. (\E st : r = Denied(ns, st) /\ st # "Good") \/ Whole1 \/ Part1
  <2>1. [ns EXCEPT ![id].val = whole] = [ns EXCEPT ![id] = [n EXCEPT !.val = whole]]
    OBVIOUS
  <2>2. [ns EXCEPT ![id].val.v = set.v] = [ns EXCEPT ![id] = [n EXCEPT !.val = part]]
    OBVIOUS
  <2>3. \/ \E st : r = Denied(ns, st) /\ st # "Good"
        \/ /\ val.has => typeCheckValue(n, fitted, ranged)
           /\ r = Stored(ns, id, fitted, val.has, range, ranged)
    <3> HIDE DEF range
    <3> QED
      BY DEF writeValueAttribute, range
  <2> HIDE DEF r, range, fitted
  <2>4. \/ \E st : Stored(ns, id, fitted, val.has, range, ranged) = Denied(ns, st) /\ st # "Good"
        \/ ~ranged /\ n.src = "data" /\ Stored(ns, id, fitted, val.has, range, ranged) = Done([ns EXCEPT ![id].val = whole])
        \/ /\ ranged /\ n.src = "data" /\ n.val.has /\ set.st = "Good"
           /\ Stored(ns, id, fitted, val.has, range, ranged) = Done([ns EXCEPT ![id].val.v = set.v])
    <3> HIDE DEF ranged
    <3> QED
      BY DEF Stored, WithRange
  <2> QED
    BY <2>1, <2>2, <2>3, <2>4
<1> HIDE DEF r, fitted, range
<1>4. CASE \E st : r = Denied(ns, st) /\ st # "Good"
  BY <1>4, RefusedBehaves DEF r, Denied
<1>5. CASE Whole1
  <2> DEFINE m == [n EXCEPT !.val = whole]
  <2>1. whole \in DataValue /\ whole.has = val.has /\ whole.v = fitted
    BY <1>2 DEF DataValue
  <2> HIDE DEF whole
  <2>2. IsNode(m) /\ m.dataType = n.dataType /\ m.rank = n.rank /\ m.dims = n.dims /\ m.val = whole /\ m.src = n.src
    <3> HIDE DEF n
    <3> QED
      BY <1>1, <2>1, ChangedIsNode, WhatChanged
  <2> HIDE DEF m
  <2>3. Fits(m)
    BY <1>5, <2>1, <2>2 DEF Fits, typeCheckValue, ShapeFits, whole
  <2>4. ASSUME id = V, Agree(ns) PROVE Describes(m, ns[T])
    BY <2>2, <2>4 DEF Agree, Describes
  <2>5. r = Done([ns EXCEPT ![id] = m])
    BY <1>5 DEF m, whole
  <2>6. Behaves(ns, id, Done([ns EXCEPT ![id] = m])) /\ Done([ns EXCEPT ![id] = m]).ns[id] = m
    BY <1>1, <2>2, <2>3, <2>4, DoneBehaves
  <2> QED
    BY <2>2, <2>3, <2>5, <2>6 DEF r
<1>6. CASE Part1
  <2> DEFINE m == [n EXCEPT !.val = part]
  <2>1. /\ n.val \in DataValue /\ n.val.v \in Variant
    BY <1>1 DEF IsNode, DataValue
  <2>2. /\ set.v \in Variant /\ set.v.type = n.val.v.type /\ set.v.kind = n.val.v.kind
        /\ set.v.dims = n.val.v.dims /\ Len(set.v.elems) = Len(n.val.v.elems)
    BY <1>2, <1>6, <2>1, WritingARange
  <2>3. part \in DataValue /\ part.has = n.val.has /\ part.v = set.v
    <3> HIDE DEF set
    <3> QED
      BY <2>1, <2>2 DEF DataValue
  <2> HIDE DEF part
  <2>4. IsNode(m) /\ m.dataType = n.dataType /\ m.rank = n.rank /\ m.dims = n.dims /\ m.val = part /\ m.src = n.src
    <3> HIDE DEF n
    <3> QED
      BY <1>1, <2>3, ChangedIsNode, WhatChanged
  <2> HIDE DEF m, set
  <2>5. ASSUME Fits(n) PROVE Fits(m)
    <3>1. compatibleValueRankValue(n.rank, n.val.v) => compatibleValueRankValue(m.rank, m.val.v)
      BY <2>2, <2>3, <2>4 DEF compatibleValueRankValue, UA_Variant_isScalar
    <3> QED
      BY <2>2, <2>3, <2>4, <2>5, <3>1 DEF Fits, ShapeFits, UA_Variant_isScalar
  <2>6. ASSUME id = V, Agree(ns) PROVE Describes(m, ns[T]) /\ Fits(m)
    BY <2>4, <2>5, <2>6 DEF Agree, Describes
  <2>7. r = Done([ns EXCEPT ![id] = m])
    BY <1>6 DEF m, part, set
  <2>8. Behaves(ns, id, Done([ns EXCEPT ![id] = m])) /\ Done([ns EXCEPT ![id] = m]).ns[id] = m
    BY <1>1, <2>4, <2>6, DoneBehaves
  <2> QED
    BY <1>6, <2>4, <2>7, <2>8 DEF r
<1> QED
  BY <1>3, <1>4, <1>5, <1>6 DEF r

\* The attributes no other depends on.
LEMMA WritingOthers ==
  ASSUME NEW ns, IsWorld(ns), NEW id \in DOMAIN ns, NEW d
  PROVE  /\ Behaves(ns, id, Done([ns EXCEPT ![id].access = d]))
         /\ Behaves(ns, id, Done([ns EXCEPT ![id].mask = d]))
         /\ Behaves(ns, id, Done([ns EXCEPT ![id].abstract = d]))
<1> DEFINE n == ns[id]
<1>1. IsNode(n) /\ id \in {T, V} /\ T # V /\ T \in DOMAIN ns
  BY DEF IsWorld, T, V
<1>2. ASSUME NEW m, IsNode(m), m.dataType = n.dataType, m.rank = n.rank, m.dims = n.dims, m.val = n.val, m.src = n.src
      PROVE  Behaves(ns, id, Done([ns EXCEPT ![id] = m]))
  <2>1. ASSUME id = V, Agree(ns) PROVE Describes(m, ns[T]) /\ Fits(m)
    BY <1>2, <2>1 DEF Agree, Describes, Fits, ShapeFits
  <2> QED
    BY <1>1, <1>2, <2>1, DoneBehaves
<1>3. Behaves(ns, id, Done([ns EXCEPT ![id] = [n EXCEPT !.access = d]]))
  <2> DEFINE m == [n EXCEPT !.access = d]
  <2>1. IsNode(m)
    BY <1>1, ChangedIsNode
  <2>2. m.dataType = n.dataType /\ m.rank = n.rank /\ m.dims = n.dims /\ m.val = n.val /\ m.src = n.src
    BY <1>1, WhatChanged
  <2> HIDE DEF m
  <2>3. Behaves(ns, id, Done([ns EXCEPT ![id] = m]))
    BY <1>2, <2>1, <2>2
  <2> QED
    BY <2>3 DEF m
<1>4. Behaves(ns, id, Done([ns EXCEPT ![id] = [n EXCEPT !.mask = d]]))
  <2> DEFINE m == [n EXCEPT !.mask = d]
  <2>1. IsNode(m)
    BY <1>1, ChangedIsNode
  <2>2. m.dataType = n.dataType /\ m.rank = n.rank /\ m.dims = n.dims /\ m.val = n.val /\ m.src = n.src
    BY <1>1, WhatChanged
  <2> HIDE DEF m
  <2>3. Behaves(ns, id, Done([ns EXCEPT ![id] = m]))
    BY <1>2, <2>1, <2>2
  <2> QED
    BY <2>3 DEF m
<1>5. Behaves(ns, id, Done([ns EXCEPT ![id] = [n EXCEPT !.abstract = d]]))
  <2> DEFINE m == [n EXCEPT !.abstract = d]
  <2>1. IsNode(m)
    BY <1>1, ChangedIsNode
  <2>2. m.dataType = n.dataType /\ m.rank = n.rank /\ m.dims = n.dims /\ m.val = n.val /\ m.src = n.src
    BY <1>1, WhatChanged
  <2> HIDE DEF m
  <2>3. Behaves(ns, id, Done([ns EXCEPT ![id] = m]))
    BY <1>2, <2>1, <2>2
  <2> QED
    BY <2>3 DEF m
<1>6. /\ [ns EXCEPT ![id].access = d] = [ns EXCEPT ![id] = [n EXCEPT !.access = d]]
      /\ [ns EXCEPT ![id].mask = d] = [ns EXCEPT ![id] = [n EXCEPT !.mask = d]]
      /\ [ns EXCEPT ![id].abstract = d] = [ns EXCEPT ![id] = [n EXCEPT !.abstract = d]]
  OBVIOUS
<1> QED
  BY <1>3, <1>4, <1>5, <1>6

\* A write of any attribute to any node.
LEMMA Writing ==
  ASSUME NEW ns, IsWorld(ns), NEW s, NEW id, NEW w,
         w.attr \in Attributes, w.attr # "dataType" => w.to \in Writable[w.attr]
  PROVE  Behaves(ns, id, Service_Write(ns, s, id, w))
<1> DEFINE r == Service_Write(ns, s, id, w)
<1>1. (\E st : r = Denied(ns, st)) \/ (id \in DOMAIN ns /\ r = Applied(ns, id, w))
  BY DEF Service_Write, copyAttributeIntoNode
<1>2. CASE \E st : r = Denied(ns, st)
  BY <1>2, RefusedBehaves
<1>3. ASSUME id \in DOMAIN ns PROVE Behaves(ns, id, Applied(ns, id, w))
  <2> DEFINE a == Applied(ns, id, w)
  <2>1. CASE w.attr = "value"
    <3>1. w.to \in DataValue
      BY <2>1 DEF Writable
    <3>2. a = writeValueAttribute(ns, id, w.to, w.range)
      BY <2>1 DEF Applied
    <3> QED
      BY <1>3, <3>1, <3>2, WritingValue
  <2>2. CASE w.attr = "dataType"
    <3>1. a = writeDataTypeAttribute(ns, id, w.to)
      BY <2>2 DEF Applied
    <3> QED
      BY <1>3, <3>1, WritingType
  <2>3. CASE w.attr = "rank"
    <3>1. w.to \in Int
      BY <2>3 DEF Writable
    <3>2. a = writeValueRankAttribute(ns, id, w.to)
      BY <2>3 DEF Applied
    <3> QED
      BY <1>3, <3>1, <3>2, WritingRank
  <2>4. CASE w.attr = "dims"
    <3>1. w.to \in Seq(Int)
      BY <2>4 DEF Writable
    <3>2. a = writeArrayDimensionsAttribute(ns, id, w.to)
      BY <2>4 DEF Applied
    <3> QED
      BY <1>3, <3>1, <3>2, WritingDims
  <2>5. CASE w.attr = "access"
    <3>1. a = Done([ns EXCEPT ![id].access = w.to])
      BY <2>5 DEF Applied
    <3> QED
      BY <1>3, <3>1, WritingOthers
  <2>6. CASE w.attr = "mask"
    <3>1. a = Done([ns EXCEPT ![id].mask = w.to])
      BY <2>6 DEF Applied
    <3> QED
      BY <1>3, <3>1, WritingOthers
  <2>7. CASE w.attr = "abstract"
    <3>1. a = Done([ns EXCEPT ![id].abstract = w.to])
      BY <2>7 DEF Applied
    <3> QED
      BY <1>3, <3>1, WritingOthers
  <2> QED
    BY <2>1, <2>2, <2>3, <2>4, <2>5, <2>6, <2>7 DEF Attributes
<1> QED
  BY <1>1, <1>2, <1>3

\* A whole value written to the variable fits what the variable was and stays.
LEMMA WritingWhole ==
  ASSUME NEW ns, IsWorld(ns), V \in DOMAIN ns, NEW s, NEW v \in Variant
  PROVE  LET r == Service_Write(ns, s, V, Whole(v))
         IN /\ Answers(ns, V, r)
            /\ r.ns[V].dataType = ns[V].dataType /\ r.ns[V].rank = ns[V].rank /\ r.ns[V].dims = ns[V].dims
            /\ r.st = "Good" => Fits(r.ns[V])
<1> DEFINE w == Whole(v)
           r == Service_Write(ns, s, V, w)
<1>1. w.attr = "value" /\ w.to = [has |-> TRUE, v |-> v] /\ w.range = <<>>
  BY DEF Whole
<1> HIDE DEF w
<1>2. (\E st : r = Denied(ns, st) /\ st # "Good") \/ r = writeValueAttribute(ns, V, w.to, w.range)
  <2>1. r = copyAttributeIntoNode(ns, s, V, w)
    BY DEF Service_Write
  <2>2. Applied(ns, V, w) = writeValueAttribute(ns, V, w.to, w.range)
    BY <1>1 DEF Applied
  <2> HIDE DEF r
  <2>3. r = Denied(ns, "BadNodeClassInvalid") \/ r = Denied(ns, "BadUserAccessDenied") \/ r = Applied(ns, V, w)
    BY <2>1 DEF copyAttributeIntoNode
  <2>4. "BadNodeClassInvalid" # "Good" /\ "BadUserAccessDenied" # "Good"
    OBVIOUS
  <2> QED
    BY <2>2, <2>3, <2>4
<1> HIDE DEF r
<1>3. CASE \E st : r = Denied(ns, st) /\ st # "Good"
  BY <1>3, RefusedBehaves DEF r, w, Behaves, Denied
<1>4. CASE r = writeValueAttribute(ns, V, w.to, w.range)
  <2>1. w.to \in DataValue
    BY <1>1 DEF DataValue
  <2> QED
    BY <1>1, <1>4, <2>1, WritingValue DEF Behaves, r, w
<1> QED
  BY <1>2, <1>3, <1>4 DEF r, w

-----------------------------------------------------------------------------
(* Adding a variable: three repairs, then the check.                       *)

\* The nodes after a part of the check: the type is untouched.
Moves(ns, r) ==
  /\ IsWorld(r.ns) /\ DOMAIN r.ns = DOMAIN ns
  /\ r.ns[T] = ns[T] /\ r.ns[V].src = ns[V].src

\* An answer moves the nodes, and the moves add up.
LEMMA AnswersMove ==
  ASSUME NEW ns, V \in DOMAIN ns, IsWorld(ns), NEW r, Answers(ns, V, r)
  PROVE  Moves(ns, r)
BY DEF Answers, Moves, IsWorld, T, V

\* One part after the other moves the nodes as one.
LEMMA MovesAddUp ==
  ASSUME NEW ns, NEW r, NEW q, Moves(ns, r), Moves(r.ns, q)
  PROVE  Moves(ns, q)
BY DEF Moves

\* A variable that passes the check fits its type, and its value fits it,
\* whatever the repairs wrote to it on the way.
LEMMA Checking ==
  ASSUME NEW ns, IsWorld(ns), V \in DOMAIN ns, source \in Variant, ns[T].src = "data"
  PROVE  LET r == typeCheckVariableNode(ns)
         IN Moves(ns, r) /\ (r.st = "Good" => Agree(r.ns))
<1> DEFINE val == readValueAttribute(ns[V])
           r1 == RankRepaired(ns, val)
           r2 == ValueRepaired(r1, val)
           r3 == TypeRepaired(r2)
           last == IF NoValue(val) THEN ns[T].val ELSE val
           r4 == CheckedAt(r3, last)
           r == typeCheckVariableNode(ns)
<1>1. T \in DOMAIN ns /\ T # V /\ IsNode(ns[T]) /\ IsNode(ns[V])
  BY DEF IsWorld, T, V
<1>2. val \in DataValue /\ ns[T].val \in DataValue /\ last \in DataValue
  BY <1>1 DEF readValueAttribute, IsNode, DataValue
<1>3. r = Denied(ns, "BadTypeDefinitionInvalid") \/ r = r4
  <2> HIDE DEF val
  <2> QED
    BY Zenon DEF typeCheckVariableNode, val
<1> HIDE DEF r, r4
<1>4. Moves(ns, r1) /\ r1.ns[V].val = ns[V].val
  <2>1. Moves(ns, Done(ns)) /\ Done(ns).ns = ns
    BY DEF Moves, Done
  <2>2. -2 \in Int
    OBVIOUS
  <2>3. LET q == writeValueRankAttribute(ns, V, -2) IN Moves(ns, q) /\ q.ns[V].val = ns[V].val
    BY <2>2, WritingRank, AnswersMove DEF Behaves
  <2> HIDE DEF val
  <2> QED
    BY <2>1, <2>3 DEF RankRepaired
<1> HIDE DEF r1
<1>5. /\ Moves(ns, r2)
      /\ r2.st = "Good" /\ NoValue(val) /\ ~NoValue(ns[T].val) => Fits(r2.ns[V])
      /\ ~(NoValue(val) /\ ~NoValue(ns[T].val)) => r2.ns[V].val = ns[V].val
  <2> HIDE DEF val
  <2>1. CASE r1.st = "Good" /\ NoValue(val) /\ ~NoValue(r1.ns[T].val)
    <3> DEFINE v == r1.ns[T].val.v
               q == Service_Write(r1.ns, "admin", V, Whole(v))
    <3>1. v \in Variant /\ IsWorld(r1.ns) /\ V \in DOMAIN r1.ns /\ r1.ns[T] = ns[T]
      BY <1>2, <1>4 DEF Moves, DataValue
    <3>2. Answers(r1.ns, V, q) /\ (q.st = "Good" => Fits(q.ns[V]))
      <4> HIDE DEF v
      <4> QED
        BY <3>1, WritingWhole
    <3>3. r2 = q
      BY <2>1 DEF ValueRepaired
    <3> HIDE DEF q
    <3>4. Moves(ns, q)
      BY <1>4, <3>1, <3>2, AnswersMove, MovesAddUp
    <3> QED
      BY <2>1, <3>1, <3>2, <3>3, <3>4
  <2>2. CASE ~(r1.st = "Good" /\ NoValue(val) /\ ~NoValue(r1.ns[T].val))
    <3>1. r2 = r1 /\ r1.ns[T] = ns[T]
      BY <1>4, <2>2 DEF ValueRepaired, Moves
    <3> HIDE DEF r2
    <3> QED
      BY <1>4, <2>2, <3>1
  <2> QED
    BY <2>1, <2>2
<1> HIDE DEF r2
<1>6. /\ Moves(ns, r3)
      /\ r3.st = "Good" /\ NoValue(val) /\ ~NoValue(ns[T].val) => Fits(r3.ns[V])
      /\ ~(NoValue(val) /\ ~NoValue(ns[T].val)) => r3.ns[V].val = ns[V].val
  <2> HIDE DEF val
  <2>1. CASE r2.st = "Good" /\ r2.ns[V].dataType = NullType
    <3> DEFINE type == r2.ns[T].dataType
               q == writeDataTypeAttribute(r2.ns, V, type)
    <3>1. IsWorld(r2.ns) /\ V \in DOMAIN r2.ns
      BY <1>5 DEF Moves
    <3>2. /\ Answers(r2.ns, V, q) /\ q.ns[V].val = r2.ns[V].val
          /\ (q.st = "Good" => Fits(q.ns[V]))
      <4> HIDE DEF type
      <4> QED
        BY <3>1, WritingType DEF Behaves
    <3>3. r3 = q
      BY <2>1 DEF TypeRepaired
    <3> HIDE DEF q
    <3>4. Moves(ns, q)
      BY <1>5, <3>1, <3>2, AnswersMove, MovesAddUp
    <3> QED
      BY <1>5, <3>2, <3>3, <3>4
  <2>2. CASE ~(r2.st = "Good" /\ r2.ns[V].dataType = NullType)
    <3>1. r3 = r2
      BY <2>2 DEF TypeRepaired
    <3> HIDE DEF r3
    <3> QED
      BY <1>5, <3>1
  <2> QED
    BY <2>1, <2>2
<1> HIDE DEF r3
<1>7. Moves(ns, r4) /\ (r4.st = "Good" => Agree(r4.ns))
  <2>1. CASE r3.st # "Good"
    BY <1>6, <2>1 DEF CheckedAt, r4
  <2>2. CASE r3.st = "Good"
    <3> DEFINE m == r3.ns
               n == m[V]
               vt == m[T]
               plain == n.dims = <<>> /\ last.has /\ last.v.type # NoType /\ ~UA_Variant_isScalar(last.v)
               fails == \/ ~compatibleDataType(n.dataType, vt.dataType)
                        \/ ~compatibleValueRankArrayDimensions(n.rank, IF plain THEN 1 ELSE Len(n.dims))
                        \/ ~compatibleValueRanks(n.rank, vt.rank)
                        \/ ~compatibleArrayDimensions(vt.dims, n.dims)
               q == Service_Write(m, "admin", V, Whole(last.v))
    <3>1. r4 = IF fails THEN Denied(m, "BadTypeMismatch")
               ELSE IF last.has /\ ~typeCheckValue(n, last.v, FALSE) THEN q
               ELSE Done(m)
      <4>1. r4 = typeCheckVariableNodeWithValue(m, last)
        BY <2>2 DEF CheckedAt, r4
      <4> HIDE DEF last, r4
      <4> QED
        BY <4>1, Zenon DEF typeCheckVariableNodeWithValue
    <3>2. IsWorld(m) /\ V \in DOMAIN m /\ T \in DOMAIN m /\ last.v \in Variant
      BY <1>1, <1>2, <1>6 DEF Moves, DataValue
    <3>3. /\ Answers(m, V, q) /\ (q.st = "Good" => Fits(q.ns[V]))
          /\ q.ns[V].dataType = n.dataType /\ q.ns[V].rank = n.rank /\ q.ns[V].dims = n.dims
      <4> HIDE DEF last, m
      <4> QED
        BY <3>2, WritingWhole
    <3>4. Moves(ns, q) /\ q.ns[T] = vt /\ V \in DOMAIN q.ns
      <4> HIDE DEF q
      <4> QED
        BY <1>6, <3>2, <3>3, AnswersMove, MovesAddUp DEF Moves
    <3> HIDE DEF q
    <3>5. ~fails => Describes(n, vt)
      BY DEF Describes
    <3> HIDE DEF fails
    <3>6. CASE fails
      BY <1>6, <3>1, <3>6 DEF Denied, Moves
    <3>7. CASE ~fails /\ last.has /\ ~typeCheckValue(n, last.v, FALSE)
      <4>1. r4 = q
        BY <3>1, <3>7
      <4>2. Describes(q.ns[V], q.ns[T])
        BY <3>3, <3>4, <3>5, <3>7 DEF Describes
      <4> QED
        BY <3>3, <3>4, <4>1, <4>2 DEF Agree
    <3>8. CASE ~fails /\ ~(last.has /\ ~typeCheckValue(n, last.v, FALSE))
      <4>1. r4 = Done(m) /\ Done(m).ns = m
        BY <3>1, <3>8 DEF Done
      <4>2. Fits(n)
        <5>1. CASE NoValue(val) /\ ~NoValue(ns[T].val)
          BY <1>6, <2>2, <5>1
        <5>2. CASE NoValue(val) /\ NoValue(ns[T].val)
          <6>1. n.src = "data" => n.val = val
            BY <1>6, <5>2 DEF Moves, readValueAttribute
          <6> HIDE DEF val
          <6> QED
            BY <5>2, <6>1 DEF Fits, NoValue
        <5>3. CASE ~NoValue(val)
          <6>1. (n.src = "data" => n.val = val) /\ last = val
            BY <1>6, <5>3 DEF Moves, readValueAttribute
          <6> HIDE DEF val, last
          <6> QED
            BY <3>8, <5>3, <6>1 DEF Fits, typeCheckValue, NoValue
        <5> QED
          BY <5>1, <5>2, <5>3
      <4>3. Moves(ns, r4)
        BY <1>6, <4>1 DEF Moves
      <4> QED
        BY <3>5, <3>8, <4>1, <4>2, <4>3 DEF Agree
    <3> QED
      BY <3>6, <3>7, <3>8
  <2> QED
    BY <2>1, <2>2
<1>8. r = Denied(ns, "BadTypeDefinitionInvalid") => Moves(ns, r) /\ r.st # "Good"
  BY DEF Denied, Moves
<1> QED
  BY <1>3, <1>7, <1>8 DEF r

-----------------------------------------------------------------------------
(* The invariant and what it says.                                         *)

\* A value that fits a description that is consistent has the shape it demands.
LEMMA FittingValue ==
  ASSUME NEW ns, IsWorld(ns), Agree(ns), V \in DOMAIN ns
  PROVE  Describes(ns[V], ns[T]) /\ ValueFits(ns[V])
<1> DEFINE n == ns[V]
           v == n.val.v
<1>1. IsNode(n) /\ Describes(n, ns[T]) /\ Fits(n)
  BY DEF IsWorld, Agree
<1> HIDE DEF n
<1>2. ASSUME n.src = "data", n.val.has, v.type # NoType
      PROVE  /\ compatibleDataType(v.type, n.dataType)
             /\ UA_Variant_isScalar(v) => n.rank \in {-3, -2, -1} /\ n.dims = <<>>
             /\ v.kind = "array" => n.rank \in {-3, -2} \cup Nat /\ ShapeFits(n, v)
  <2>1. /\ v \in Variant /\ n.rank \in Int /\ n.dims \in Seq(Int)
        /\ compatibleDataType(v.type, n.dataType) /\ ShapeFits(n, v)
        /\ n.dims # <<>> => compatibleValueRankArrayDimensions(n.rank, Len(n.dims))
    BY <1>1, <1>2 DEF IsNode, DataValue, Fits, Describes
  <2>2. /\ Len(n.dims) \in Nat /\ (n.dims # <<>> => Len(n.dims) # 0) /\ Len(<<>>) = 0
        /\ UA_Variant_isScalar(v) => v.dims = <<>>
    BY <2>1, VariantParts DEF UA_Variant_isScalar
  <2> HIDE DEF v
  <2>3. CASE UA_Variant_isScalar(v)
    <3>1. n.dims = <<>>
      BY <2>1, <2>2, <2>3 DEF ShapeFits, compatibleArrayDimensions
    <3>2. compatibleValueRankArrayDimensions(n.rank, 0)
      BY <2>1, <2>2, <2>3, <3>1 DEF ShapeFits, compatibleValueRankValue, UA_Variant_isScalar
    <3>3. n.rank \in {-3, -2, -1}
      BY <2>1, <3>2 DEF compatibleValueRankArrayDimensions
    <3> QED
      BY <2>1, <2>3, <3>1, <3>3 DEF UA_Variant_isScalar
  <2>4. CASE v.kind = "array"
    <3>1. compatibleValueRankArrayDimensions(n.rank, IF n.dims = <<>> THEN 1 ELSE Len(n.dims))
      BY <2>1, <2>2, <2>4 DEF ShapeFits, compatibleValueRankValue, UA_Variant_isScalar
    <3>2. n.rank \in {-3, -2} \cup Nat
      BY <2>1, <2>2, <3>1 DEF compatibleValueRankArrayDimensions
    <3> QED
      BY <2>1, <2>4, <3>2 DEF UA_Variant_isScalar
  <2> QED
    BY <2>1, <2>3, <2>4
<1> QED
  BY <1>1, <1>2 DEF ValueFits, n

\* A variable that is added is a node, whatever its description is.
LEMMA NewNode ==
  ASSUME NEW item, IsDescription(item)
  PROVE  /\ IsNode(NewVariable(item)) /\ NewVariable(item).src = "data"
         /\ IsNode([NewVariable(item) EXCEPT !.class = "VariableType"])
         /\ [NewVariable(item) EXCEPT !.class = "VariableType"].src = "data"
<1>1. [has |-> TRUE, v |-> item.v] \in DataValue
  BY DEF IsDescription, DataValue
<1> DEFINE val == [has |-> TRUE, v |-> item.v]
           n == NewVariable(item)
<1>2. IsNode(n) /\ n.src = "data"
  <2> HIDE DEF val
  <2>1. n = [class |-> "Variable", dataType |-> item.dataType, rank |-> item.rank, dims |-> item.dims,
             val |-> val, src |-> "data", access |-> item.access, mask |-> item.mask, abstract |-> FALSE]
    BY DEF NewVariable, val
  <2>2. val \in DataValue /\ item.rank \in Int /\ item.dims \in Seq(Int)
    BY <1>1 DEF val, IsDescription
  <2> HIDE DEF n
  <2> QED
    BY <2>1, <2>2 DEF IsNode
<1> HIDE DEF n
<1>3. IsNode([n EXCEPT !.class = "VariableType"]) /\ [n EXCEPT !.class = "VariableType"].src = "data"
  BY <1>2 DEF IsNode
<1> QED
  BY <1>2, <1>3 DEF n

\* A node that is given a data source has no value of its own any more.
LEMMA SettingSource ==
  ASSUME NEW n, IsNode(n)
  PROVE  LET m == setDataSource(n)
         IN /\ IsNode(m) /\ m.src = "source" /\ Fits(m)
            /\ m.dataType = n.dataType /\ m.rank = n.rank /\ m.dims = n.dims
<1>1. [has |-> FALSE, v |-> EmptyVariant] \in DataValue
  BY EmptyIsVariant DEF DataValue
<1> DEFINE m == setDataSource(n)
           none == [has |-> FALSE, v |-> EmptyVariant]
<1> HIDE DEF none
<1>2. m = [n EXCEPT !.src = "source", !.val = none]
  BY DEF setDataSource, none
<1>3. IsNode(m) /\ m.src = "source" /\ m.dataType = n.dataType /\ m.rank = n.rank /\ m.dims = n.dims
  <2> HIDE DEF m
  <2>1. none \in DataValue
    BY <1>1 DEF none
  <2> QED
    BY <1>2, <2>1 DEF IsNode
<1> HIDE DEF m
<1>4. Fits(m)
  BY <1>3 DEF Fits
<1> QED
  BY <1>3, <1>4 DEF m

\* Adding and taking away the variable.
LEMMA AddingAndTaking ==
  ASSUME NEW ns, IsWorld(ns)
  PROVE  /\ IsWorld(Without(ns)) /\ Agree(Without(ns)) /\ Without(ns)[T] = ns[T]
         /\ V \notin DOMAIN ns => Without(ns) = ns
         /\ \A n : IsNode(n) => IsWorld(With(ns, n)) /\ V \in DOMAIN With(ns, n)
                                /\ With(ns, n)[V] = n /\ With(ns, n)[T] = ns[T]
<1>1. T # V /\ T \in DOMAIN ns
  BY DEF IsWorld, T, V
<1>2. IsWorld(Without(ns)) /\ Agree(Without(ns)) /\ Without(ns)[T] = ns[T]
  BY <1>1 DEF IsWorld, Without, Agree
<1>3. ASSUME V \notin DOMAIN ns PROVE Without(ns) = ns
  <2>1. DOMAIN ns = {T}
    BY <1>1, <1>3 DEF IsWorld
  <2> QED
    BY <2>1 DEF IsWorld, Without
<1>4. ASSUME NEW n, IsNode(n)
      PROVE  IsWorld(With(ns, n)) /\ V \in DOMAIN With(ns, n) /\ With(ns, n)[V] = n /\ With(ns, n)[T] = ns[T]
  BY <1>1, <1>4 DEF IsWorld, With
<1> QED
  BY <1>2, <1>3, <1>4

\* The whole invariant: the type keeps its own value.
WholeAttrInv == AttrInv /\ nodes[T].src = "data"

\* An answer with nodes that agree keeps the invariant.
LEMMA Answering ==
  ASSUME NEW r, Answer(r), source \in Variant, IsWorld(r.ns), Agree(r.ns), r.ns[T].src = "data"
  PROVE  WholeAttrInv'
<1>1. source' \in Variant /\ nodes' = r.ns
  BY EmptyIsVariant DEF Answer
<1>2. IsWorld(nodes') /\ Agree(nodes') /\ nodes'[T].src = "data"
  BY <1>1
<1> QED
  BY <1>1, <1>2 DEF WholeAttrInv, AttrInv

\* A variable that is added: what is left, when its check is through.
LEMMA Keeping ==
  ASSUME WholeAttrInv, V \notin DOMAIN nodes, NEW n, IsNode(n)
  PROVE  LET r == Kept(typeCheckVariableNode(With(nodes, n)))
         IN /\ IsWorld(r.ns) /\ Agree(r.ns) /\ r.ns[T].src = "data"
            /\ r.st # "Good" => r.ns = nodes
<1> DEFINE ns == With(nodes, n)
           c == typeCheckVariableNode(ns)
           r == Kept(c)
<1>1. IsWorld(nodes) /\ source \in Variant /\ nodes[T].src = "data" /\ T \in DOMAIN nodes /\ T # V
  BY DEF WholeAttrInv, AttrInv, IsWorld, T, V
<1>2. IsWorld(ns) /\ V \in DOMAIN ns /\ ns[V] = n /\ ns[T] = nodes[T]
  BY <1>1, AddingAndTaking
<1> HIDE DEF ns
<1>3. Moves(ns, c) /\ (c.st = "Good" => Agree(c.ns))
  BY <1>1, <1>2, Checking
<1> HIDE DEF c
<1>4. IsWorld(c.ns) /\ c.ns[T] = nodes[T]
  BY <1>2, <1>3 DEF Moves
<1>5. CASE c.st = "Good"
  BY <1>1, <1>3, <1>4, <1>5 DEF Kept, c, ns
<1>6. CASE c.st # "Good"
  <2>1. r.ns = Without(c.ns) /\ r.st = c.st
    BY <1>6 DEF Kept, Denied
  <2>2. Without(c.ns) = Without(nodes)
    BY <1>4 DEF Without
  <2>3. Without(nodes) = nodes
    BY <1>1, AddingAndTaking
  <2>4. Agree(nodes)
    BY DEF Agree
  <2> HIDE DEF r
  <2>5. IsWorld(r.ns) /\ Agree(r.ns) /\ r.ns[T].src = "data" /\ r.ns = nodes
    BY <1>1, <2>1, <2>2, <2>3, <2>4
  <2> QED
    BY <2>5 DEF r, c, ns
<1> QED
  BY <1>5, <1>6

\* Taking the variable away.
LEMMA Taking ==
  ASSUME WholeAttrInv
  PROVE  IsWorld(Without(nodes)) /\ Agree(Without(nodes)) /\ Without(nodes)[T].src = "data"
BY AddingAndTaking DEF WholeAttrInv, AttrInv

\* The invariant holds at first.
LEMMA AttrStarts == AttrInit => WholeAttrInv
<1> SUFFICES ASSUME AttrInit PROVE WholeAttrInv
  OBVIOUS
<1> DEFINE n == [NewVariable(TypeItem) EXCEPT !.class = "VariableType"]
<1>1. IsNode(n) /\ n.src = "data"
  BY NewNode, AttributeConstants
<1>2. nodes = [id \in {T} |-> n]
  BY DEF AttrInit
<1> HIDE DEF n
<1>3. IsWorld(nodes) /\ nodes[T].src = "data" /\ V \notin DOMAIN nodes
  BY <1>1, <1>2 DEF IsWorld, T, V
<1>4. source \in Variant
  BY EmptyIsVariant DEF AttrInit
<1> QED
  BY <1>3, <1>4 DEF WholeAttrInv, AttrInv, Agree

\* Every step keeps it, and one that reports an error leaves the nodes alone.
LEMMA AttrSteps ==
  ASSUME WholeAttrInv, AttrNext
  PROVE  WholeAttrInv' /\ (result' # "Good" => UNCHANGED nodes)
<1>1. /\ IsWorld(nodes) /\ source \in Variant /\ Agree(nodes) /\ nodes[T].src = "data"
      /\ T \in DOMAIN nodes /\ T # V
  BY DEF WholeAttrInv, AttrInv, IsWorld, T, V
<1>2. CASE AddVariable
  <2>1. PICK item \in Items : V \notin DOMAIN nodes /\ Answer(Kept(typeCheckVariableNode(With(nodes, NewVariable(item)))))
    BY <1>2 DEF AddVariable
  <2> DEFINE n == NewVariable(item)
             r == Kept(typeCheckVariableNode(With(nodes, n)))
  <2>2. IsNode(n)
    BY NewNode, AttributeConstants
  <2> HIDE DEF n
  <2>3. /\ IsWorld(r.ns) /\ Agree(r.ns) /\ r.ns[T].src = "data"
        /\ r.st # "Good" => r.ns = nodes
    BY <2>1, <2>2, Keeping
  <2>4. Answer(r)
    BY <2>1 DEF n
  <2> HIDE DEF r
  <2>5. WholeAttrInv'
    BY <1>1, <2>3, <2>4, Answering
  <2> QED
    BY <2>3, <2>4, <2>5 DEF Answer
<1>3. CASE AddDataSourceVariable
  <2>1. PICK item \in Items : V \notin DOMAIN nodes
          /\ Answer(Done(Kept(typeCheckVariableNode(With(nodes, setDataSource(NewVariable(item))))).ns))
    BY <1>3 DEF AddDataSourceVariable
  <2> DEFINE n == setDataSource(NewVariable(item))
             r == Kept(typeCheckVariableNode(With(nodes, n)))
  <2>2. IsNode(n)
    BY NewNode, SettingSource, AttributeConstants
  <2> HIDE DEF n
  <2>3. IsWorld(r.ns) /\ Agree(r.ns) /\ r.ns[T].src = "data"
    BY <2>1, <2>2, Keeping
  <2>4. Answer(Done(r.ns))
    BY <2>1 DEF n
  <2>5. Done(r.ns).ns = r.ns /\ Done(r.ns).st = "Good"
    BY DEF Done
  <2> HIDE DEF r
  <2>6. WholeAttrInv'
    BY <1>1, <2>3, <2>4, <2>5, Answering
  <2> QED
    BY <2>4, <2>5, <2>6 DEF Answer
<1>4. CASE DeleteVariable
  <2>1. Answer(Done(Without(nodes)))
    BY <1>4 DEF DeleteVariable
  <2>2. Done(Without(nodes)).ns = Without(nodes) /\ Done(Without(nodes)).st = "Good"
    BY DEF Done
  <2>3. WholeAttrInv'
    BY <1>1, <2>1, <2>2, Taking, Answering
  <2> QED
    BY <2>1, <2>2, <2>3 DEF Answer
<1>5. CASE SetDataSource
  <2> DEFINE n == nodes[V]
             m == setDataSource(n)
             ns == [nodes EXCEPT ![V] = m]
  <2>1. V \in DOMAIN nodes /\ Answer(Done(ns))
    BY <1>5 DEF SetDataSource
  <2>2. IsNode(n) /\ Describes(n, nodes[T])
    BY <1>1, <2>1 DEF IsWorld, Agree
  <2>3. IsNode(m) /\ Fits(m) /\ m.dataType = n.dataType /\ m.rank = n.rank /\ m.dims = n.dims
    <3> HIDE DEF n
    <3> QED
      BY <2>2, SettingSource
  <2> HIDE DEF m
  <2>4. Describes(m, nodes[T])
    BY <2>2, <2>3 DEF Describes
  <2>5. DOMAIN ns = DOMAIN nodes /\ ns[V] = m /\ ns[T] = nodes[T] /\ IsWorld(ns)
    BY <1>1, <2>1, <2>3 DEF IsWorld, T, V
  <2>6. Done(ns).ns = ns /\ Done(ns).st = "Good"
    BY DEF Done
  <2> HIDE DEF ns
  <2>7. Agree(ns)
    BY <2>3, <2>4, <2>5 DEF Agree
  <2>8. WholeAttrInv'
    BY <1>1, <2>1, <2>5, <2>6, <2>7, Answering
  <2> QED
    BY <2>1, <2>6, <2>8 DEF Answer
<1>6. CASE SourceChanges
  <2>1. source' \in Variant /\ nodes' = nodes
    BY <1>6, AttributeConstants DEF SourceChanges
  <2> QED
    BY <1>1, <2>1 DEF WholeAttrInv, AttrInv
<1>7. CASE Write
  <2>1. PICK s \in Sessions, id \in {V, T} : \E w \in Writes[id] : Answer(Service_Write(nodes, s, id, w))
    BY <1>7 DEF Write
  <2>2. PICK w \in Writes[id] : Answer(Service_Write(nodes, s, id, w))
    BY <2>1
  <2> DEFINE r == Service_Write(nodes, s, id, w)
  <2>3. w.attr \in Attributes /\ (w.attr # "dataType" => w.to \in Writable[w.attr])
    BY AttributeConstants
  <2>4. Behaves(nodes, id, r)
    BY <1>1, <2>3, Writing
  <2>5. Answer(r)
    BY <2>2
  <2> HIDE DEF r
  <2>6. IsWorld(r.ns) /\ Agree(r.ns) /\ (r.st # "Good" => r.ns = nodes)
    BY <1>1, <2>4 DEF Behaves, Answers
  <2>7. r.ns[T].src = "data"
    BY <1>1, <2>4 DEF Behaves, Answers
  <2>8. WholeAttrInv'
    BY <1>1, <2>5, <2>6, <2>7, Answering
  <2> QED
    BY <2>5, <2>6, <2>8 DEF Answer
<1>8. CASE ReadRequest
  <2>1. UNCHANGED <<nodes, source>>
    BY <1>8 DEF ReadRequest
  <2> QED
    BY <1>1, <2>1 DEF WholeAttrInv, AttrInv
<1> QED
  BY <1>2, <1>3, <1>4, <1>5, <1>6, <1>7, <1>8 DEF AttrNext

-----------------------------------------------------------------------------
(* What is proved of the attributes.                                       *)

\* The invariant holds of the specification.
THEOREM AttributeInvariance == AttrSpec => []WholeAttrInv
<1>1. AttrInit => WholeAttrInv
  BY AttrStarts
<1>2. WholeAttrInv /\ [AttrNext]_attrVars => WholeAttrInv'
  <2>1. ASSUME WholeAttrInv, UNCHANGED attrVars PROVE WholeAttrInv'
    BY <2>1 DEF attrVars, WholeAttrInv, AttrInv
  <2> QED
    BY <2>1, AttrSteps
<1> QED
  BY <1>1, <1>2, PTL DEF AttrSpec

\* The data type, value rank, array dimensions and value of a variable describe each
\* other and stay within what the variable type allows, in whatever order they are
\* written, converted, or repaired by AddNodes, and for any data types and values.
THEOREM DescriptionsAgree == AttrSpec => []AttributesAgree
<1>1. WholeAttrInv => AttributesAgree
  BY FittingValue DEF WholeAttrInv, AttrInv, AttributesAgree
<1> QED
  BY <1>1, AttributeInvariance, PTL

\* An error of a service leaves the nodes as they were, although the type check of
\* AddNodes has written to the node it refuses.
THEOREM FailedServicesChangeNothing == AttrSpec => ErrorsChangeNothing
<1>1. WholeAttrInv /\ [AttrNext]_attrVars => [result' # "Good" => UNCHANGED nodes]_attrVars
  BY AttrSteps
<1> QED
  BY <1>1, AttributeInvariance, PTL DEF AttrSpec, ErrorsChangeNothing
====
