----------------------------- MODULE PoolState ------------------------------
(***************************************************************************)
(* The Pool account of src/src/state/pool.rs with the LastUpdate it embeds *)
(* (src/src/state/last_update.rs): the record and the functions on it that *)
(* the instruction handlers call.  They are pure: each takes the pool a    *)
(* handler unpacked and returns the pool it goes on with, or a number, or  *)
(* Err.  The nested structs of the source are flattened, since their field *)
(* names do not clash.  Public keys are left to the module Processor.      *)
(***************************************************************************)
EXTENDS FixedPoint

StaleAfterSlotsElapsed == 1

\* A mutation: the ratio of five to one that the comment on it names.
FiveToOne == 5

InitialCollateralRatio == 1
InitialCollateralRate  == InitialCollateralRatio * Wad

PoolRecord ==
  [ version                     : {0, 1},
    slot                        : Nat,           \* last_update.slot
    stale                       : BOOLEAN,       \* last_update.stale
    available_amount            : 0..MaxU64,
    borrowed_amount_wads        : 0..MaxU128,
    cumulative_borrow_rate_wads : 0..MaxU128,
    market_price                : 0..MaxU128,
    owner_unclaimed             : 0..MaxU128,
    mint_total_supply           : 0..MaxU64,
    deposit_paused              : BOOLEAN,
    l_token_mining_index        : 0..MaxU128,
    borrow_mining_index         : 0..MaxU128,
    total_mining_speed          : 0..MaxU64,
    reentry_lock                : BOOLEAN ]

\* A pool account before InitPool: a zeroed account of version 0.
UninitializedPool ==
  [ version |-> 0, slot |-> 0, stale |-> FALSE, available_amount |-> 0,
    borrowed_amount_wads |-> 0, cumulative_borrow_rate_wads |-> 0,
    market_price |-> 0, owner_unclaimed |-> 0, mint_total_supply |-> 0,
    deposit_paused |-> FALSE, l_token_mining_index |-> 0,
    borrow_mining_index |-> 0, total_mining_speed |-> 0,
    reentry_lock |-> FALSE ]

\* Pool::init with the ReserveLiquidity, ReserveCollateral and Lottery that
\* process_init_pool builds for it.
NewPool(now, price, speed, paused) ==
  [ version |-> 1, slot |-> now, stale |-> TRUE, available_amount |-> 0,
    borrowed_amount_wads |-> 0, cumulative_borrow_rate_wads |-> One,
    market_price |-> price, owner_unclaimed |-> 0, mint_total_supply |-> 0,
    deposit_paused |-> paused, l_token_mining_index |-> 0,
    borrow_mining_index |-> 0, total_mining_speed |-> speed,
    reentry_lock |-> FALSE ]

IsInitialized(pl) == pl.version # 0

(***************************************************************************)
(* LastUpdate                                                              *)
(***************************************************************************)

\* slots_elapsed: Err when the clock is behind the record.
SlotsElapsed(pl, now) == IF now < pl.slot THEN Err ELSE now - pl.slot

\* A mutation: off by one in the age of a refresh.
FreshOneSlotMore(pl, now) ==
  /\ ~pl.stale
  /\ SlotsElapsed(pl, now) # Err
  /\ SlotsElapsed(pl, now) <= StaleAfterSlotsElapsed

\* is_stale answered "no"; marked stale, too old and Err all reject.
Fresh(pl, now) ==
  /\ ~pl.stale
  /\ SlotsElapsed(pl, now) # Err
  /\ SlotsElapsed(pl, now) < StaleAfterSlotsElapsed

\* A mutation: a refresh that leaves the slot as it was.
UpdateStaleOnly(pl, now) == [pl EXCEPT !.stale = FALSE]

UpdateSlot(pl, now) == [pl EXCEPT !.slot = now, !.stale = FALSE]
MarkStale(pl)       == [pl EXCEPT !.stale = TRUE]

(***************************************************************************)
(* Liquidity, collateral and the exchange rate between them                *)
(***************************************************************************)

\* ReserveLiquidity::total_supply
TotalSupply(pl) ==
  LET all == TryAdd(Decimal(pl.available_amount), pl.borrowed_amount_wads,
                    DecimalMax)
  IN  IF all # Err /\ all < pl.owner_unclaimed
      THEN 0
      ELSE TrySub(all, pl.owner_unclaimed, DecimalMax)

\* Pool::collateral_exchange_rate: collateral per unit of liquidity.
CollateralExchangeRate(pl) ==
  LET total == TotalSupply(pl)
  IN  IF total = Err
      THEN Err
      ELSE IF pl.mint_total_supply = 0 \/ total = 0
           THEN InitialCollateralRate
           ELSE ToScaledVal(TryDiv(Decimal(pl.mint_total_supply), total,
                                   DecimalMax))

CollateralToLiquidity(rate, collateral) ==
  TryFloorU64(TryDiv(Decimal(collateral), rate, DecimalMax))

LiquidityToCollateral(rate, liquidity) ==
  TryRoundU64(TryMulInt(rate, liquidity, RateMax), RateMax)

\* ReserveLiquidity::liquidity_amount: what may leave the pool.
LiquidityAmount(pl) ==
  IF Decimal(pl.available_amount) < pl.owner_unclaimed
  THEN 0
  ELSE IF TryCeilU64(pl.owner_unclaimed) = Err
       THEN Err
       ELSE Checked(pl.available_amount - TryCeilU64(pl.owner_unclaimed), MaxU64)

(***************************************************************************)
(* Pool::deposit_liquidity and Pool::redeem_collateral.  Each has the      *)
(* amount it returns, the condition under which it returns Ok, and the     *)
(* pool it leaves.                                                         *)
(***************************************************************************)
CollateralFor(pl, liquidity) ==
  LiquidityToCollateral(CollateralExchangeRate(pl), liquidity)

CanDeposit(pl, liquidity) ==
  /\ CollateralFor(pl, liquidity) # Err
  /\ pl.available_amount + liquidity <= MaxU64
  /\ pl.mint_total_supply + CollateralFor(pl, liquidity) <= MaxU64

DepositLiquidity(pl, liquidity) ==
  [pl EXCEPT !.available_amount  = @ + liquidity,
             !.mint_total_supply = @ + CollateralFor(pl, liquidity)]

LiquidityFor(pl, collateral) ==
  CollateralToLiquidity(CollateralExchangeRate(pl), collateral)

\* A mutation: the withdrawal must leave something in the pool.
CanRedeemNotAll(pl, collateral) ==
  /\ LiquidityFor(pl, collateral) # Err
  /\ collateral <= pl.mint_total_supply
  /\ LiquidityAmount(pl) # Err
  /\ LiquidityFor(pl, collateral) < LiquidityAmount(pl)

CanRedeem(pl, collateral) ==
  /\ LiquidityFor(pl, collateral) # Err
  /\ collateral <= pl.mint_total_supply
  /\ LiquidityAmount(pl) # Err
  /\ LiquidityFor(pl, collateral) <= LiquidityAmount(pl)
  /\ LiquidityFor(pl, collateral) <= pl.available_amount

\* A mutation: the liquidity paid out is not subtracted.
BurnCollateralOnly(pl, collateral) ==
  [pl EXCEPT !.mint_total_supply = @ - collateral]

RedeemCollateral(pl, collateral) ==
  [pl EXCEPT !.mint_total_supply = @ - collateral,
             !.available_amount  = @ - LiquidityFor(pl, collateral)]

(***************************************************************************)
(* Mining indices (Pool::refresh_index)                                    *)
(***************************************************************************)

\* get_mine_ratio: both sides get one divided by fifty percent.
MineRatio == TryDiv(One, FromPercent(50), RateMax)

\* What the slots since the last refresh add to an index shared by `base`.
Emission(pl, now) ==
  TryMul(TryMulInt(Decimal(pl.total_mining_speed), SlotsElapsed(pl, now),
                   DecimalMax),
         MineRatio, DecimalMax)

LTokenMiningIndex(pl, now) ==
  TryAdd(pl.l_token_mining_index,
         TryDivInt(Emission(pl, now), pl.mint_total_supply), DecimalMax)

OriginalShare(pl) ==
  TryDiv(pl.borrowed_amount_wads, pl.cumulative_borrow_rate_wads, DecimalMax)

BorrowMiningIndex(pl, now) ==
  TryAdd(pl.borrow_mining_index,
         TryDiv(Emission(pl, now), OriginalShare(pl), DecimalMax), DecimalMax)

\* The early returns: nothing without collateral, no borrow index below one
\* borrowed unit.
Mines(pl)        == pl.mint_total_supply # 0
MinesBorrows(pl) == Mines(pl) /\ OriginalShare(pl) >= One

CanRefreshIndex(pl, now) ==
  Mines(pl) =>
    /\ SlotsElapsed(pl, now) # Err
    /\ LTokenMiningIndex(pl, now) # Err
    /\ OriginalShare(pl) # Err
    /\ MinesBorrows(pl) => BorrowMiningIndex(pl, now) # Err

RefreshIndex(pl, now) ==
  [pl EXCEPT
     !.l_token_mining_index = IF Mines(pl) THEN LTokenMiningIndex(pl, now) ELSE @,
     !.borrow_mining_index  = IF MinesBorrows(pl) THEN BorrowMiningIndex(pl, now)
                              ELSE @]

\* A mutation: packing does not look at the width.
PackAnything(pl) == pl.version # 0

\* Pool::pack: pack_decimal panics on a Decimal wider than 128 bits.
CanPack(pl) ==
  \A d \in { pl.borrowed_amount_wads, pl.cumulative_borrow_rate_wads,
             pl.market_price, pl.owner_unclaimed, pl.l_token_mining_index,
             pl.borrow_mining_index } : ToScaledVal(d) # Err

=============================================================================
