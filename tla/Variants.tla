------------------------------- MODULE Variants --------------------------------
(***************************************************************************)
(* Variants and index ranges: src/ua_types.c and the range parser of       *)
(* src/server/ua_server_utils.c.                                           *)
(*                                                                         *)
(* A variant is a record                                                   *)
(*   type   the type of its elements, NoType when the variant is empty     *)
(*   kind   "none" (empty), "null" (no data), "scalar" or "array"          *)
(*   elems  its elements in memory order, each a sequence of cells: one    *)
(*          cell for a number, the characters of a string-like value       *)
(*   dims   arrayDimensions, <<>> when there are none                      *)
(* A range is a sequence of [min, max], one per dimension.                 *)
(***************************************************************************)
EXTENDS Integers, Sequences, SequencesExt

NoType == "none"
EmptyVariant == [type |-> NoType, kind |-> "none", elems |-> <<>>, dims |-> <<>>]
Scalar(type, elem) == [type |-> type, kind |-> "scalar", elems |-> <<elem>>, dims |-> <<>>]
Array(type, elems, dims) == [type |-> type, kind |-> "array", elems |-> elems, dims |-> dims]

UA_Variant_isScalar(v) == v.kind = "scalar"

Product(s) == FoldLeft(LAMBDA a, b : a * b, 1, s)
Span(d) == d.max - d.min + 1

--------------------------------------------------------------------------------
(* Parsing.  The text is a sequence of digits and of the characters below. *)

COLON == 10
COMMA == 11

\* UA_readNumber: the digits from position i; 32 bits are enough here.
Digits(s, i) ==
  LET after == {j \in i..Len(s) : s[j] > 9}
  IN IF after = {} THEN Len(s) + 1 - i ELSE (CHOOSE j \in after : \A k \in after : j <= k) - i
UA_readNumber(s, i, n) == FoldLeft(LAMBDA a, c : 10 * a + c, 0, SubSeq(s, i, i + n - 1))

\* readDimension at position i: how far it got (0: invalid), and the dimension.
readDimension(s, i) ==
  LET a == Digits(s, i)
      min == UA_readNumber(s, i, a)
      b == Digits(s, i + a + 1)
      max == UA_readNumber(s, i + a + 1, b)
  IN IF a = 0 THEN [progress |-> 0, dim |-> [min |-> 0, max |-> 0]]
     ELSE IF Len(s) + 1 - i <= a + 1 \/ s[i + a] # COLON
     THEN [progress |-> a, dim |-> [min |-> min, max |-> min]]
     ELSE [progress |-> IF b = 0 \/ min >= max THEN 0 ELSE a + 1 + b, dim |-> [min |-> min, max |-> max]]

\* One round of the loop: p is the position, the dimensions so far, the state.
NextDimension(p, s, r) ==
  IF r.progress = 0 THEN [p EXCEPT !.st = "bad"]
  ELSE [at |-> p.at + r.progress + 1,
        dims |-> Append(p.dims, r.dim),
        st |-> IF p.at + r.progress > Len(s) THEN "good"
               ELSE IF s[p.at + r.progress] = COMMA THEN "more" ELSE "bad"]

UA_NumericRange_parseFromString(s) ==
  LET parse[k \in 0..Len(s)] ==
        IF k = 0 THEN [at |-> 1, dims |-> <<>>, st |-> "more"]
        ELSE LET p == parse[k-1]
             IN IF p.st # "more" THEN p ELSE NextDimension(p, s, readDimension(s, p.at))
  IN IF s # <<>> /\ parse[Len(s)].st = "good" THEN parse[Len(s)].dims ELSE <<>>

--------------------------------------------------------------------------------
(* Strides *)

\* The dimensions of an array; a plain array has one.
Dimensions(v, length) == IF v.dims = <<>> THEN <<length>> ELSE v.dims

\* computeStrides: from the last dimension to the first, the block is the part
\* that is contiguous and the stride the distance from block to block.
StridesFrom(dims, range, length) ==
  LET n == Len(dims)
      Inner(k) == Product(SubSeq(dims, k + 1, n))
      partial == {k \in 1..n : Span(range[k]) # dims[k]}
      last == CHOOSE k \in partial : \A j \in partial : j <= k
      total == Product([k \in 1..n |-> Span(range[k])])
  IN [st |-> "Good", total |-> total,
      block |-> IF partial = {} THEN total ELSE Inner(last) * Span(range[last]),
      stride |-> IF partial = {} THEN length ELSE Inner(last) * dims[last],
      first |-> FoldLeft(LAMBDA a, b : a + b, 0, [k \in 1..n |-> Inner(k) * range[k].min])]

NoStrides(st) == [st |-> st, total |-> 0, block |-> 1, stride |-> 0, first |-> 0]

computeStrides(v, range, length) ==
  LET dims == Dimensions(v, length)
  IN IF v.dims # <<>> /\ Product(v.dims) # length THEN NoStrides("BadInternalError")
     ELSE IF Len(range) # Len(dims) THEN NoStrides("BadIndexRangeNoData")
     ELSE IF \E k \in DOMAIN dims : range[k].min > range[k].max THEN NoStrides("BadIndexRangeInvalid")
     ELSE IF \E k \in DOMAIN dims : range[k].max >= dims[k] THEN NoStrides("BadIndexRangeNoData")
     ELSE StridesFrom(dims, range, length)

\* Where the element number i of a range is found: block by block.
Position(s, i) == s.first + ((i - 1) \div s.block) * s.stride + ((i - 1) % s.block) + 1

--------------------------------------------------------------------------------
(* Reading and writing a range *)

StringLike == {"String", "ByteString"}

\* copySubString
copySubString(str, d) ==
  IF d.min > d.max \/ d.max >= Len(str) THEN <<>> ELSE SubSeq(str, d.min + 1, d.max + 1)

\* The rest of a range selects inside the strings; nothing else has an inside
\* (variants in variants are left out).
Inside(type, elems, rest) ==
  IF rest = <<>> THEN [st |-> "Good", elems |-> elems]
  ELSE IF type \notin StringLike \/ Len(rest) # 1 \/ \E k \in DOMAIN elems : copySubString(elems[k], rest[1]) = <<>>
  THEN [st |-> "BadIndexRangeNoData", elems |-> <<>>]
  ELSE [st |-> "Good", elems |-> [k \in DOMAIN elems |-> copySubString(elems[k], rest[1])]]

Copied(v, this, picked) ==
  IF picked.st # "Good" THEN [st |-> picked.st, v |-> EmptyVariant]
  ELSE [st |-> "Good",
        v |-> [v EXCEPT !.elems = picked.elems,
                        !.dims = IF v.dims = <<>> \/ UA_Variant_isScalar(v) THEN <<>> ELSE [k \in DOMAIN this |-> Span(this[k])]]]

CopiedAt(v, s, this, rest) ==
  IF s.st # "Good" THEN [st |-> s.st, v |-> EmptyVariant]
  ELSE Copied(v, this, Inside(v.type, [i \in 1..s.total |-> v.elems[Position(s, i)]], rest))

\* UA_Variant_copyRange: a scalar is an array of one, all of the range is inside.
UA_Variant_copyRange(v, range) ==
  LET n == IF v.dims = <<>> THEN 1 ELSE Len(v.dims)
      one == <<[min |-> 0, max |-> 0]>>
  IN IF UA_Variant_isScalar(v) THEN CopiedAt(v, computeStrides(v, one, 1), one, range)
     ELSE IF n > Len(range) THEN [st |-> "BadIndexRangeInvalid", v |-> EmptyVariant]
     ELSE CopiedAt(v, computeStrides(v, SubSeq(range, 1, n), Len(v.elems)), SubSeq(range, 1, n), SubSeq(range, n + 1, Len(range)))

\* Variant_setRange: the number of elements must match.  The length of a scalar
\* counts as 0, so no range fits one.
Written(v, s, elems) ==
  [v EXCEPT !.elems = [p \in DOMAIN v.elems |->
      IF \E i \in 1..s.total : Position(s, i) = p THEN elems[CHOOSE i \in 1..s.total : Position(s, i) = p] ELSE v.elems[p]]]

SetAt(v, s, elems) ==
  IF s.st # "Good" THEN [st |-> s.st, v |-> v]
  ELSE IF s.total # Len(elems) THEN [st |-> "BadIndexRangeInvalid", v |-> v]
  ELSE [st |-> "Good", v |-> Written(v, s, elems)]

Variant_setRange(v, elems, range) ==
  SetAt(v, computeStrides(v, range, IF v.kind = "array" THEN Len(v.elems) ELSE 0), elems)
================================================================================
