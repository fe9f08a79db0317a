------------------------------ MODULE Processor ------------------------------
(***************************************************************************)
(* The program of src/src/processor.rs: the accounts it owns (pool         *)
(* managers and pools), the token accounts and mints it moves value        *)
(* between, the price feeds it reads and the clock, with one action for    *)
(* each instruction it executes and for each step of its environment.      *)
(*                                                                         *)
(* An instruction is atomic: the runtime rolls back everything it wrote    *)
(* when any of its checks, its arithmetic, its packing or one of its calls *)
(* to the token program fails.  So each handler is one action, enabled     *)
(* when the whole handler succeeds.  Instructions of different users, and  *)
(* the instructions of transactions that refresh a pool first, interleave  *)
(* freely.                                                                 *)
(***************************************************************************)
EXTENDS PoolState, PythOracle, SplToken, PoolManager

CONSTANTS
  Pools,           \* the pool accounts
  Wiring,          \* the keys InitPool copies into each pool
  PoolAuthority,   \* the address derived from each pool manager
  AccountLists,    \* the account lists callers pass to deposit and redeem
  Amounts,         \* the amounts callers ask for, MaxU64 meaning "all"
  Speeds,          \* the values given for total_mining_speed
  Feeds,           \* what the price feeds may show
  InitialBalance,  \* the token balances before the first instruction
  MaxSlot          \* bound on the clock

(***************************************************************************)
(* The account list of a deposit or a redemption, in the order the handler *)
(* reads it.  Program ids, sysvars and account owners are always right.    *)
(***************************************************************************)
AccountList ==
  [ source : TokenAccounts, destination : TokenAccounts, mint : Mints,
    supply : TokenAccounts, manager : Managers,
    authority : Users \cup {PoolAuthority[m] : m \in Managers},
    signer : Users ]

PoolKeys ==
  [ manager : Managers, currency : Currencies,
    liquidity_mint : Mints, liquidity_supply : TokenAccounts,
    collateral_mint : Mints, collateral_supply : TokenAccounts ]

CollateralMint(p) == Wiring[p].collateral_mint
Supply(p)         == Wiring[p].liquidity_supply

ASSUME ProcessorAssumption ==
  /\ Wiring \in [Pools -> PoolKeys]
  /\ DOMAIN PoolAuthority = Managers
  /\ ManagerOwners \subseteq Users /\ InitAuthority \in Users
  /\ AccountLists \subseteq AccountList
  /\ Amounts \subseteq 0..MaxU64 /\ Speeds \subseteq 0..MaxU64
  /\ Feeds \subseteq Feed
  /\ TokenLimit = MaxU64 /\ MaxSlot \in Nat

(***************************************************************************)
(* The discipline of the owner who creates the token accounts and mints of *)
(* a pool.  InitPool checks none of it: that the supply holds the right    *)
(* mint and belongs to the derived authority, that this authority alone    *)
(* mints collateral, that nothing of it was minted before, and that no     *)
(* supply and no collateral mint serves two pools or two purposes.         *)
(***************************************************************************)
ASSUME WiringAssumption ==
  /\ \A p \in Pools :
       LET authority == PoolAuthority[Wiring[p].manager]
       IN  /\ MintOf[Supply(p)] = Wiring[p].liquidity_mint
           /\ OwnerOf[Supply(p)] = authority
           /\ MintAuthorityOf[CollateralMint(p)] = authority
           /\ \A q \in Pools : CollateralMint(p) # Wiring[q].liquidity_mint
  /\ \A p, q \in Pools : p # q => /\ Supply(p) # Supply(q)
                                  /\ CollateralMint(p) # CollateralMint(q)
  /\ \A m \in Managers : PoolAuthority[m] \notin Users
  /\ InitialBalance \in [TokenAccounts -> 0..MaxU64]
  /\ \A a \in TokenAccounts, p \in Pools :
       MintOf[a] = CollateralMint(p) => InitialBalance[a] = 0

CONSTANT InitialSupply   \* the supply of each mint before the first instruction

ASSUME SupplyAssumption ==
  /\ InitialSupply \in [Mints -> 0..MaxU64]
  /\ \A p \in Pools : InitialSupply[CollateralMint(p)] = 0

VARIABLES
  slot,     \* the clock sysvar
  oracle,   \* oracle[p]: what the price feed of pool p shows
  pool      \* pool[p]: the Pool account p

vars == <<slot, oracle, pool, manager, balance, minted>>

TypeOK ==
  /\ slot \in 0..MaxSlot
  /\ oracle \in [Pools -> Feeds]
  /\ pool \in [Pools -> PoolRecord]
  /\ ManagerTypeOK
  /\ TokenTypeOK

Init ==
  /\ slot = 0
  /\ oracle \in [Pools -> Feeds]
  /\ pool = [p \in Pools |-> UninitializedPool]
  /\ ManagerInit
  /\ balance = InitialBalance
  /\ minted = InitialSupply

-----------------------------------------------------------------------------
(***************************************************************************)
(* The environment: time passes, the feeds change, and users move or burn  *)
(* their tokens without this program.                                      *)
(***************************************************************************)

Tick ==
  /\ slot < MaxSlot
  /\ slot' = slot + 1
  /\ UNCHANGED <<oracle, pool, manager, balance, minted>>

OraclePublish(p, feed) ==
  /\ oracle' = [oracle EXCEPT ![p] = feed]
  /\ UNCHANGED <<slot, pool, manager, balance, minted>>

Transfer(user, source, destination, amount) ==
  /\ UserTransfer(user, source, destination, amount)
  /\ UNCHANGED <<slot, oracle, pool, manager>>

Burn(user, source, amount) ==
  /\ UserBurn(user, source, amount)
  /\ UNCHANGED <<slot, oracle, pool, manager>>

-----------------------------------------------------------------------------
(***************************************************************************)
(* Pool managers                                                           *)
(***************************************************************************)

InitManager(m, signer, owner, quote_currency) ==
  /\ InitPoolingManager(m, signer, owner, quote_currency)
  /\ UNCHANGED <<slot, oracle, pool, balance, minted>>

SetManagerOwner(m, new_owner) ==
  /\ SetPoolingManagerOwner(m, new_owner)
  /\ UNCHANGED <<slot, oracle, pool, balance, minted>>

-----------------------------------------------------------------------------
\* A mutation of InitPool: assert_uninitialized is missing.
InitPoolAgain(p, signer, total_mining_speed) ==
  LET keys   == Wiring[p]
      price  == GetPythPrice(oracle[p])
      opened == NewPool(slot, price, total_mining_speed, FALSE)
  IN  /\ ManagerInitialized(keys.manager)
      /\ manager[keys.manager].owner = signer
      /\ price # Err
      /\ CanPack(opened)
      /\ pool' = [pool EXCEPT ![p] = opened]
      /\ UNCHANGED <<slot, oracle, manager, balance, minted>>

(***************************************************************************)
(* process_init_pool                                                       *)
(***************************************************************************)
InitPool(p, signer, total_mining_speed) ==
  LET keys   == Wiring[p]
      price  == GetPythPrice(oracle[p])
      opened == NewPool(slot, price, total_mining_speed, FALSE)
  IN  /\ ManagerInitialized(keys.manager)
      /\ manager[keys.manager].owner = signer
      /\ manager[keys.manager].quote_currency = keys.currency
      /\ price # Err
      /\ ~IsInitialized(pool[p])
      /\ CanPack(opened)
      /\ pool' = [pool EXCEPT ![p] = opened]
      /\ UNCHANGED <<slot, oracle, manager, balance, minted>>

(***************************************************************************)
(* process_refresh_reserve                                                 *)
(***************************************************************************)
Priced(p) == [pool[p] EXCEPT !.market_price = GetPythPrice(oracle[p])]

Refreshed(p) == UpdateSlot(RefreshIndex(Priced(p), slot), slot)

CanRefresh(p) ==
  /\ IsInitialized(pool[p])
  /\ GetPythPrice(oracle[p]) # Err
  /\ CanRefreshIndex(Priced(p), slot)
  /\ CanPack(Refreshed(p))

RefreshPool(p) ==
  /\ CanRefresh(p)
  /\ pool' = [pool EXCEPT ![p] = Refreshed(p)]
  /\ UNCHANGED <<slot, oracle, manager, balance, minted>>

\* Mutations of Accepts: the supply account, the collateral mint or the
\* owner of the destination is not compared.
AcceptsAnySupply(p, pl, a) ==
  /\ IsInitialized(pl) /\ Wiring[p].manager = a.manager
  /\ CollateralMint(p) = a.mint
  /\ Fresh(pl, slot)
  /\ a.authority = PoolAuthority[a.manager]
  /\ OwnerOf[a.destination] = OwnerOf[a.source]

AcceptsAnyMint(p, pl, a) ==
  /\ IsInitialized(pl) /\ Wiring[p].manager = a.manager
  /\ Supply(p) = a.supply
  /\ Fresh(pl, slot)
  /\ a.authority = PoolAuthority[a.manager]
  /\ OwnerOf[a.destination] = OwnerOf[a.source]

AcceptsAnyOwner(p, pl, a) ==
  /\ IsInitialized(pl) /\ Wiring[p].manager = a.manager
  /\ Supply(p) = a.supply /\ CollateralMint(p) = a.mint
  /\ Fresh(pl, slot)
  /\ a.authority = PoolAuthority[a.manager]

(***************************************************************************)
(* What process_deposit_pool_liquidity and process_redeem_pool_collateral  *)
(* check alike of the pool `pl` read from account p and of the accounts a. *)
(***************************************************************************)
Accepts(p, pl, a) ==
  /\ ManagerInitialized(a.manager)
  /\ IsInitialized(pl)
  /\ Wiring[p].manager = a.manager
  /\ Supply(p) = a.supply
  /\ CollateralMint(p) = a.mint
  /\ Fresh(pl, slot)
  /\ ~pl.reentry_lock
  /\ a.authority = PoolAuthority[a.manager]
  /\ OwnerOf[a.destination] = OwnerOf[a.source]

\* The amount u64::MAX stands for everything in the source account.
Requested(a, amount) == IF amount = MaxU64 THEN balance[a.source] ELSE amount

(***************************************************************************)
(* The two handlers, from the pool value pl they unpack, so that the same  *)
(* definition serves an instruction of its own and one that follows a      *)
(* refresh in the same transaction.                                        *)
(***************************************************************************)
DepositFrom(p, pl, a, amount) ==
  LET liquidity  == Requested(a, amount)
      collateral == CollateralFor(pl, liquidity)
      deposited  == MarkStale(DepositLiquidity(pl, liquidity))
  IN  /\ amount # 0
      /\ Accepts(p, pl, a)
      /\ a.source # Supply(p)
      /\ a.destination # Wiring[p].collateral_supply
      /\ ~pl.deposit_paused
      /\ liquidity <= balance[a.source]
      /\ CanDeposit(pl, liquidity)
      /\ CanPack(deposited)
      /\ CanTransfer(a.source, a.supply, a.signer, liquidity)
      /\ CanMintTo(a.mint, a.destination, a.authority, collateral)
      /\ pool' = [pool EXCEPT ![p] = deposited]
      /\ balance' = Credited(Transferred(balance, a.source, a.supply, liquidity),
                             a.destination, collateral)
      /\ minted' = [minted EXCEPT ![a.mint] = @ + collateral]
      /\ UNCHANGED <<slot, oracle, manager>>

RedeemFrom(p, pl, a, amount) ==
  LET collateral == Requested(a, amount)
      liquidity  == LiquidityFor(pl, collateral)
      redeemed   == MarkStale(RedeemCollateral(pl, collateral))
  IN  /\ amount # 0
      /\ Accepts(p, pl, a)
      /\ a.source # Wiring[p].collateral_supply
      /\ a.destination # Supply(p)
      /\ collateral <= balance[a.source]
      /\ CanRedeem(pl, collateral)
      /\ CanPack(redeemed)
      /\ CanBurn(a.mint, a.source, a.signer, collateral)
      /\ CanTransfer(a.supply, a.destination, a.authority, liquidity)
      /\ pool' = [pool EXCEPT ![p] = redeemed]
      /\ balance' = Transferred(Debited(balance, a.source, collateral),
                                a.supply, a.destination, liquidity)
      /\ minted' = [minted EXCEPT ![a.mint] = @ - collateral]
      /\ UNCHANGED <<slot, oracle, manager>>

DepositPoolLiquidity(p, a, amount)  == DepositFrom(p, pool[p], a, amount)
RedeemPoolCollateral(p, a, amount)  == RedeemFrom(p, pool[p], a, amount)

-----------------------------------------------------------------------------
Next ==
  \/ Tick
  \/ \E p \in Pools, feed \in Feeds : OraclePublish(p, feed)
  \/ \E u \in Users, s, d \in TokenAccounts, n \in Amounts : Transfer(u, s, d, n)
  \/ \E u \in Users, s \in TokenAccounts, n \in Amounts : Burn(u, s, n)
  \/ \E m \in Managers, s \in Users, o \in ManagerOwners, c \in Currencies :
       InitManager(m, s, o, c)
  \/ \E m \in Managers, o \in ManagerOwners : SetManagerOwner(m, o)
  \/ \E p \in Pools, s \in Users, v \in Speeds : InitPool(p, s, v)
  \/ \E p \in Pools : RefreshPool(p)
  \/ \E p \in Pools, a \in AccountLists, n \in Amounts : DepositPoolLiquidity(p, a, n)
  \/ \E p \in Pools, a \in AccountLists, n \in Amounts : RedeemPoolCollateral(p, a, n)

Spec == Init /\ [][Next]_vars

-----------------------------------------------------------------------------
(***************************************************************************)
(* Properties                                                              *)
(***************************************************************************)
Open(p) == IsInitialized(pool[p])

(***************************************************************************)
(* Collateral stays at par.  Although deposit and redeem convert through   *)
(* an exchange rate of two independent roundings, no interleaving of them  *)
(* with refreshes, transfers and burns moves the rate away from one: the   *)
(* recorded supply of collateral equals the recorded liquidity.            *)
(***************************************************************************)
CollateralAtPar ==
  \A p \in Pools : Open(p) =>
    /\ pool[p].available_amount = pool[p].mint_total_supply
    /\ CollateralExchangeRate(pool[p]) = One

(***************************************************************************)
(* The three books of a pool stay in order: the collateral the token       *)
(* program has outstanding never exceeds what the pool account records,    *)
(* and the liquidity the pool account records never exceeds what is in its *)
(* supply account.  They may drift apart, by burns and by donations made   *)
(* behind the back of the program, but only in this direction.             *)
(***************************************************************************)
BooksInOrder ==
  \A p \in Pools :
    /\ minted[CollateralMint(p)] <= pool[p].mint_total_supply
    /\ pool[p].available_amount <= balance[Supply(p)]

(***************************************************************************)
(* No saver is locked in.  In every reachable state, if the feed shows a   *)
(* usable price, a refresh succeeds, and after it any part of the          *)
(* outstanding collateral can be redeemed for as much liquidity, which is  *)
(* there.  It holds for as long as the mining index cannot have outgrown   *)
(* the 128 bits it is packed into: after that Pool::pack panics in every   *)
(* refresh.                                                                *)
(***************************************************************************)
UsablePrice(p)   == ToScaledVal(GetPythPrice(oracle[p])) # Err
WithinHorizon(p) == 2 * pool[p].total_mining_speed * Wad * slot <= MaxU128

Redeemable ==
  \A p \in Pools : Open(p) /\ UsablePrice(p) /\ WithinHorizon(p) =>
    /\ CanRefresh(p)
    /\ \A n \in 1..minted[CollateralMint(p)] :
         /\ CanRedeem(Refreshed(p), n)
         /\ LiquidityFor(Refreshed(p), n) = n
         /\ n <= balance[Supply(p)]

(***************************************************************************)
(* Mining is settled before the supply it is shared by changes: a deposit  *)
(* or a redemption alters mint_total_supply only in the slot up to which   *)
(* the index has been advanced, so no slot is ever shared by a supply      *)
(* that was not the supply of that slot.                                   *)
(***************************************************************************)
SettledBeforeSupplyChanges ==
  [][\A p \in Pools :
       pool'[p].mint_total_supply # pool[p].mint_total_supply
         => pool[p].slot = slot]_vars

(***************************************************************************)
(* Over the whole life of a pool its lender index never exceeds what was   *)
(* emitted (twice the mining speed for each slot) had it gone to a single  *)
(* token: no slot is counted twice, in whatever order refreshes, deposits  *)
(* and attempts to initialise the pool again arrive.                       *)
(***************************************************************************)
IndexWithinEmission ==
  \A p \in Pools :
    /\ pool[p].slot <= slot
    /\ pool[p].l_token_mining_index
         <= 2 * pool[p].total_mining_speed * Wad * pool[p].slot

(***************************************************************************)
(* What a pool has once recorded is not forgotten: it stays initialised,   *)
(* with its mining speed, its indices never fall and its slot never goes   *)
(* back.  A second InitPool on the same account would break all of it.     *)
(***************************************************************************)
PoolHistoryKept ==
  [][\A p \in Pools : Open(p) =>
       /\ IsInitialized(pool'[p])
       /\ pool'[p].total_mining_speed = pool[p].total_mining_speed
       /\ pool'[p].l_token_mining_index >= pool[p].l_token_mining_index
       /\ pool'[p].borrow_mining_index >= pool[p].borrow_mining_index
       /\ pool'[p].slot >= pool[p].slot]_vars

(***************************************************************************)
(* The program implements ParSavings: deposits and redemptions are at par, *)
(* within the accounts of one owner, each changes the supply account and   *)
(* the collateral mint of its own pool alone, and refreshes, prices, time  *)
(* and pool managers touch no tokens.                                      *)
(***************************************************************************)
SaverAccounts == TokenAccounts \ {Supply(p) : p \in Pools}

Savings == INSTANCE ParSavings WITH
  Accounts <- SaverAccounts,
  Owner    <- OwnerOf,
  Token    <- MintOf,
  Asset    <- [p \in Pools |-> Wiring[p].liquidity_mint],
  Claim    <- [p \in Pools |-> CollateralMint(p)],
  Limit    <- MaxU64,
  holding  <- [a \in SaverAccounts |-> balance[a]],
  vault    <- [p \in Pools |-> balance[Supply(p)]],
  claims   <- [p \in Pools |-> minted[CollateralMint(p)]]

ImplementsParSavings == Savings!Spec

=============================================================================
