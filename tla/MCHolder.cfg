CONSTANTS
  a = a
  b = b
  Reserves = {a, b}
  MaxReserves = 1
  MaxMiningVolume = 2
  TicketAmounts = {1}
  MiningAmounts = {1}
  MaxSlot = 2
  Wad = 100
  MaxU64 = 1
  MaxU128 = 10000
  MaxU192 = 1000000
  OpenedPool <- MCOpenedPool
  SupplyChanges <- MCSupplyChanges
  MintDecimals <- MCMintDecimals

CONSTRAINT TicketOfA
SPECIFICATION HolderSpec
INVARIANTS
  HolderTypeOK
  MiningUniqueAndBounded
PROPERTIES
  ImplementsEagerMining
  PositionsStay
