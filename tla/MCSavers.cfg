CONSTANTS
  alice = alice
  bob = bob
  admin = admin
  pda = pda
  usdc = usdc
  lusdc = lusdc
  walletA = walletA
  walletB = walletB
  vault = vault
  claimA = claimA
  claimB = claimB
  parked = parked
  market = market
  usd = usd
  eur = eur
  main = main

  Wad = 100
  MaxU64 = 30
  MaxU128 = 12943
  MaxU192 = 16777215
  TokenLimit = 30
  MaxSlot = 3

  TokenAccounts = {walletA, walletB, vault, claimA, claimB, parked}
  Mints = {usdc, lusdc}
  Users = {alice, bob, admin}
  Managers = {market}
  ManagerOwners = {admin}
  Currencies = {usd, eur}
  InitAuthority = admin
  Pools = {main}
  Amounts = {1, 2, 30}
  Speeds = {30}

  MintOf <- MCMintOf
  OwnerOf <- MCOwnerOf
  MintAuthorityOf <- MCMintAuthorityOf
  Wiring <- MCWiring
  PoolAuthority <- MCPoolAuthority
  AccountLists <- MCAccountLists
  Feeds <- MCFeeds
  InitialBalance <- MCInitialBalance
  InitialSupply <- MCInitialSupply

SPECIFICATION Spec
INVARIANTS
  TypeOK
  CollateralAtPar
  BooksInOrder
  Redeemable
  IndexWithinEmission
PROPERTIES
  ImplementsParSavings
  SettledBeforeSupplyChanges
  PoolHistoryKept
