CONSTANTS
  alice = alice
  admin = admin
  pda = pda
  pda2 = pda2
  usdc = usdc
  lusdc1 = lusdc1
  lusdc2 = lusdc2
  wallet = wallet
  vault1 = vault1
  vault2 = vault2
  claim1 = claim1
  claim2 = claim2
  parked1 = parked1
  parked2 = parked2
  market = market
  annex = annex
  usd = usd
  main = main
  side = side

  Wad = 100
  MaxU64 = 30
  MaxU128 = 12943
  MaxU192 = 16777215
  TokenLimit = 30
  MaxSlot = 1

  TokenAccounts = {wallet, vault1, vault2, claim1, claim2, parked1, parked2}
  Mints = {usdc, lusdc1, lusdc2}
  Users = {alice, admin}
  Managers = {market, annex}
  ManagerOwners = {admin}
  Currencies = {usd}
  InitAuthority = admin
  Pools = {main, side}
  Amounts = {1, 30}
  Speeds = {1}

  MintOf <- MCMintOf
  OwnerOf <- MCOwnerOf
  MintAuthorityOf <- MCMintAuthorityOf
  Wiring <- MCWiring
  PoolAuthority <- MCPoolAuthority
  AccountLists <- MCAccountLists
  Feeds <- MCFeeds
  InitialBalance <- MCInitialBalance
  InitialSupply <- MCInitialSupply

SPECIFICATION Spec
INVARIANTS
  BooksInOrder
PROPERTIES
  ImplementsParSavings
