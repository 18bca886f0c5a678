INIT RecordsInit
NEXT RecordsNext
CONSTANTS
  Documents <- MCDocuments
  Abbreviations <- MCAbbreviations
  Numeral <- MCNumeral
  Readings <- MCReadings
  IntBits = 2
  MaxRounds = 2
INVARIANT ReadmeExampleLoads
CHECK_DEADLOCK FALSE
