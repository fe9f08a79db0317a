CONSTANTS
  \* SlotInterest
  Wad = 100
  MaxU64 = 200
  MaxU128 = 40000
  MaxU192 = 4000000
  SlotsPerYear = 2
  Bases <- MCBases
  MaxSlots = 40
  \* ProductAttributes
  AttrSize = 9
  MaxValue = 2
  Key <- MCKey
  Products <- MCProducts
  \* AccountCodec
  MaxEntries = 10
  FieldValues = {0, 2}
  EntryValues = {0, 3}
  ListLengths = {0, 1}
  LongLengths = {2, 10, 11}
  \* InstructionCodec
  ArgumentValues = {0, 1, 2}
  Tags = {0, 1, 2, 3, 4, 5, 6, 7, 8, 9}
  Trailing = {1, 8}

SPECIFICATION MCSpec
\* A function ends.
CHECK_DEADLOCK FALSE
INVARIANTS
  NeverOvercharged
  LosesLittle
  InterestGrows
  FailsOnlyWhenLarge
  NothingElseIsRead
  CurrencyIsRead
  ReadsBack
  KindsToldApart
  NothingMadeUp
  WholeOnesAreEntered
PROPERTIES
  ScanEnds
