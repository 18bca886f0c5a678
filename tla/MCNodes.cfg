SPECIFICATION Spec
CONSTANTS
  Ids = {0, 1, 2}
  HashOf <- MCHash
  Primes <- MCPrimes
  MinSize = 3
  ShrinkAbove = 4
  MaxDrafts = 2
  Above <- MCAbove
  Known <- MCKnown
  Equivalence <- MCEquivalence
  Items <- MCItems
  TypeItem <- MCTypeItem
  Values <- MCValues
  Writes <- MCWrites
  Ranges <- MCRanges
INVARIANT AttributesAgree
PROPERTIES ImplementsMap ErrorsChangeNothing
CHECK_DEADLOCK FALSE
