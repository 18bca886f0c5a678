--------------------------- MODULE Numbers_proofs ---------------------------
(***************************************************************************)
(* Least numbers, induction and recursion up to a bound: what the proofs   *)
(* about descriptors, keys and loops over a table rest on.                 *)
(***************************************************************************)
EXTENDS Integers, FiniteSets, FiniteSetTheorems, WellFoundedInduction, TLAPS

\* A set of numbers up to a bound has a least one: among its members take one with
\* the smallest set of members below it.
LEMMA LeastNumber ==
  ASSUME NEW n \in Nat, NEW Free \in SUBSET (0 .. n), Free # {}
  PROVE  \E f \in Free : \A g \in Free : f <= g
<1> DEFINE Below(f) == {g \in Free : g < f}
           Belows == {Below(f) : f \in Free}
<1>1. Free \subseteq Nat /\ IsFiniteSet(Free)
  <2>1. IsFiniteSet(0 .. n)
    BY FS_Interval
  <2>2. Free \subseteq Nat
    OBVIOUS
  <2> QED
    BY <2>1, <2>2, FS_Subset
<1>2. IsWellFoundedOn(StrictSubsetOrdering(Free), SUBSET Free)
  BY <1>1, FS_StrictSubsetOrderingWellFounded, FS_FiniteSubsetsOfFinite
<1>3. PICK B \in Belows : \A C \in Belows : <<C, B>> \notin StrictSubsetOrdering(Free)
  <2>1. Belows \subseteq SUBSET Free /\ Belows # {}
    OBVIOUS
  <2> HIDE DEF Belows
  <2> QED
    BY <1>2, <2>1, WFMin
<1>4. PICK f \in Free : B = Below(f)
  OBVIOUS
<1>5. ASSUME NEW g \in Free, g < f PROVE FALSE
  <2>1. /\ \A h \in Free : h < g => h < f
        /\ g < f /\ ~(g < g)
    BY <1>1, <1>5, SMT
  <2>2. <<Below(g), Below(f)>> \in StrictSubsetOrdering(Free)
    BY <2>1 DEF StrictSubsetOrdering
  <2> QED
    BY <1>3, <1>4, <2>2
<1> QED
  BY <1>1, <1>5

\* Induction: a set of numbers up to n that contains 0 and with every k - 1 also k
\* contains them all, for otherwise there is a least one it lacks.
LEMMA UpTo ==
  ASSUME NEW n \in Nat, NEW P \in SUBSET (0 .. n), 0 \in P,
         \A k \in 1 .. n : k - 1 \in P => k \in P
  PROVE  P = 0 .. n
<1> SUFFICES ASSUME (0 .. n) \ P # {} PROVE FALSE
  OBVIOUS
<1>1. PICK k \in (0 .. n) \ P : \A j \in (0 .. n) \ P : k <= j
  <2> DEFINE Lacks == (0 .. n) \ P
  <2>1. Lacks \in SUBSET (0 .. n) /\ Lacks # {}
    OBVIOUS
  <2> HIDE DEF Lacks
  <2>2. \E k \in Lacks : \A j \in Lacks : k <= j
    BY <2>1, LeastNumber
  <2> QED
    BY <2>2 DEF Lacks
<1>2. k \in 1 .. n /\ k - 1 \in 0 .. n
  BY SMT
<1>3. k - 1 \in P
  BY <1>1, <1>2, SMT
<1> QED
  BY <1>2, <1>3

\* The bodies of a loop of n rounds over S.
Bodies(n, S) == [1 .. n -> [S -> S]]

\* g lists what a loop that starts with a has computed after each of its rounds.
Computes(g, n, S, a, F) ==
  g \in [0 .. n -> S] /\ g[0] = a /\ \A k \in 1 .. n : g[k] = F[k][g[k-1]]

\* Every loop computes something: the rounds before the k-th and the k-th together
\* are the first k rounds.
LEMMA Looped ==
  ASSUME NEW n \in Nat, NEW S, NEW a \in S, NEW F \in Bodies(n, S)
  PROVE  \E g : Computes(g, n, S, a, F)
<1>0. F \in [1 .. n -> [S -> S]]
  BY DEF Bodies
<1> DEFINE Runs(m) == \E g \in [0 .. m -> S] : g[0] = a /\ \A k \in 1 .. m : g[k] = F[k][g[k-1]]
           P == {m \in 0 .. n : Runs(m)}
<1>1. 0 \in P
  <2> DEFINE g == [k \in 0 .. 0 |-> a]
  <2>1. g \in [0 .. 0 -> S] /\ g[0] = a /\ \A k \in 1 .. 0 : g[k] = F[k][g[k-1]]
    OBVIOUS
  <2>2. Runs(0)
    BY <2>1
  <2> QED
    BY <2>2
<1>2. ASSUME NEW k \in 1 .. n, k - 1 \in P PROVE k \in P
  <2>1. k \in 0 .. n /\ k - 1 \in 0 .. n /\ k \in Nat
    OBVIOUS
  <2>2. PICK g \in [0 .. k-1 -> S] : g[0] = a /\ \A j \in 1 .. k-1 : g[j] = F[j][g[j-1]]
    BY <1>2
  <2> DEFINE h == [j \in 0 .. k |-> IF j = k THEN F[k][g[k-1]] ELSE g[j]]
  <2>3. F[k][g[k-1]] \in S
    BY <1>0, <2>1, <2>2
  <2>4. h \in [0 .. k -> S]
    BY <2>1, <2>2, <2>3
  <2>5. h[0] = a /\ h[k] = F[k][h[k-1]]
    BY <2>1, <2>2
  <2>6. ASSUME NEW j \in 1 .. k-1 PROVE h[j] = F[j][h[j-1]]
    <3>1. h[j] = g[j] /\ h[j-1] = g[j-1]
      BY <2>1
    <3> QED
      BY <2>2, <3>1
  <2> HIDE DEF h
  <2>7. \A j \in 1 .. k : j = k \/ j \in 1 .. k-1
    BY <2>1
  <2>8. \A j \in 1 .. k : h[j] = F[j][h[j-1]]
    BY <2>5, <2>6, <2>7
  <2>9. Runs(k)
    BY <2>4, <2>5, <2>8
  <2> QED
    BY <2>1, <2>9
<1> HIDE DEF Runs
<1>3. P = 0 .. n
  <2>1. P \in SUBSET (0 .. n)
    OBVIOUS
  <2> HIDE DEF P
  <2> QED
    BY <1>1, <1>2, <2>1, UpTo
<1>4. Runs(n)
  <2>1. n \in 0 .. n
    OBVIOUS
  <2> QED
    BY <1>3, <2>1
<1> QED
  BY <1>4 DEF Runs, Computes
=============================================================================
