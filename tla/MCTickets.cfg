CONSTANTS
  a = a
  b = b
  c = c
  Reserves = {a, b, c}
  MaxReserves = 2
  TicketAmounts = {0, 1}
  MaxSlot = 1
  Wad = 100
  MaxU64 = 2
  MaxU128 = 10000
  MaxU192 = 1000000
  OpenedPool <- MCOpenedPool
  SupplyChanges <- MCSupplyChanges
  MintDecimals <- MCMintDecimals

CONSTRAINT OthersSmall
SPECIFICATION Spec
INVARIANTS
  TypeOK
  EntriesBehindPools
  DepositsUniqueAndBounded
  CreditedOnce
