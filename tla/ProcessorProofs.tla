--------------------------- MODULE ProcessorProofs ---------------------------
(***************************************************************************)
(* What the program keeps, for every number of pools, managers, users and  *)
(* accounts, every wiring that satisfies the assumptions, and every width. *)
(*                                                                         *)
(* First what the functions on one pool do.  A pool is at par when it has  *)
(* lent nothing, owes its owner nothing and records as much liquidity as   *)
(* collateral; the functions then convert one to one and keep it so, which *)
(* gives the types, the books and the exchange rate.                       *)
(*                                                                         *)
(* Then what it keeps for its savers.  What an instruction may do to the   *)
(* record of a pool gives that mining is settled before supplies change,   *)
(* that histories are kept, that indices stay within what was emitted and  *)
(* that no saver is locked in.  And the program implements ParSavings: a   *)
(* deposit is a Save and a redemption an Exit, because the exchange rate   *)
(* is one; a transfer is a Pay or, to a supply account, a Donate; a burn   *)
(* is a GiveUp; every other step leaves the tokens alone.                  *)
(***************************************************************************)
EXTENDS SavingClient, ArithmeticProofs

AtPar(pl) ==
  /\ pl \in PoolRecord
  /\ pl.available_amount = pl.mint_total_supply
  /\ pl.borrowed_amount_wads = 0
  /\ pl.owner_unclaimed = 0

-----------------------------------------------------------------------------
(***************************************************************************)
(* The exchange rate                                                       *)
(***************************************************************************)

\* With no debts, the total supply is the liquidity on hand.
LEMMA TotalSupplyAtPar ==
  ASSUME NEW pl, AtPar(pl)
  PROVE  TotalSupply(pl) = Decimal(pl.available_amount)
<1> DEFINE n == pl.available_amount
<1>1. n \in 0..MaxU64
  BY DEF AtPar, PoolRecord
<1>2. Decimal(n) \in 0..MaxU192
  BY <1>1, DecimalOfAmount
<1>3. TryAdd(Decimal(n), 0, DecimalMax) = Decimal(n)
  BY <1>2, Widths, CheckedResult DEF TryAdd, DecimalMax, Err
<1>4. TrySub(Decimal(n), 0, DecimalMax) = Decimal(n)
  BY <1>2, Widths, CheckedResult DEF TrySub, DecimalMax, Err
<1> QED
  BY <1>2, <1>3, <1>4 DEF TotalSupply, AtPar, Err

\* At par the exchange rate is exactly one, empty pool or not.
LEMMA RateAtPar ==
  ASSUME NEW pl, AtPar(pl)
  PROVE  CollateralExchangeRate(pl) = One
<1> DEFINE n == pl.mint_total_supply
<1>1. n \in 0..MaxU64 /\ n = pl.available_amount
  BY DEF AtPar, PoolRecord
<1>2. TotalSupply(pl) = Decimal(n) /\ Decimal(n) \in Nat
  BY <1>1, TotalSupplyAtPar, DecimalOfAmount
<1>3. CASE n = 0
  <2>1. InitialCollateralRate = One
    BY Widths DEF InitialCollateralRate, InitialCollateralRatio, One
  <2> QED
    BY <1>2, <1>3, <2>1 DEF CollateralExchangeRate, Err
<1>4. CASE n # 0
  <2>1. TryDiv(Decimal(n), Decimal(n), DecimalMax) = One
    BY <1>1, <1>4, DivideBySelf
  <2>2. ToScaledVal(One) = One
    <3>1. Wad \in 0..MaxU128
      BY FixedPointAssumption, Z3
    <3> QED
      BY <3>1, Widths, CheckedResult DEF ToScaledVal, One, Err
  <2>3. Decimal(n) # 0
    BY <1>1, <1>4, DecimalOfAmount
  <2> QED
    BY <1>2, <1>4, <2>1, <2>2, <2>3 DEF CollateralExchangeRate, Err
<1> QED
  BY <1>3, <1>4

\* At par a deposit is given its own amount in collateral, or an error.
LEMMA CollateralForAtPar ==
  ASSUME NEW pl, AtPar(pl), NEW n \in 0..MaxU64, CollateralFor(pl, n) # Err
  PROVE  CollateralFor(pl, n) = n
<1>1. CollateralFor(pl, n) = LiquidityToCollateral(One, n)
  BY RateAtPar DEF CollateralFor
<1>2. Wad * n = n * Wad /\ n * Wad \in 0..MaxU128
  BY Widths, ScaledAmount
<1>3. TryMulInt(One, n, RateMax) = n * Wad
  BY <1>2, Widths, CheckedResult DEF TryMulInt, One, RateMax, Err
<1>4. (HalfWad + n * Wad) \div Wad = n
  BY Widths, DivideProduct
<1>5. TryRoundU64(n * Wad, RateMax) \in {n, Err}
  BY <1>2, <1>4, Widths, CheckedResult DEF TryRoundU64, Err
<1> QED
  BY <1>1, <1>3, <1>5 DEF LiquidityToCollateral

\* At par a redemption is worth its own amount in liquidity, always.
LEMMA LiquidityForAtPar ==
  ASSUME NEW pl, AtPar(pl), NEW n \in 0..MaxU64
  PROVE  LiquidityFor(pl, n) = n
<1>1. LiquidityFor(pl, n) = CollateralToLiquidity(One, n)
  BY RateAtPar DEF LiquidityFor
<1>2. TryDiv(Decimal(n), One, DecimalMax) = Decimal(n)
  BY DivideByOne
<1>3. Decimal(n) \in Nat /\ Decimal(n) \div Wad = n
  BY DecimalOfAmount
<1> QED
  BY <1>1, <1>2, <1>3, Widths, CheckedResult
     DEF CollateralToLiquidity, TryFloorU64, Err

\* At par everything in the pool may leave it.
LEMMA LiquidityAmountAtPar ==
  ASSUME NEW pl, AtPar(pl)
  PROVE  LiquidityAmount(pl) = pl.available_amount
<1> DEFINE n == pl.available_amount
<1>1. n \in 0..MaxU64 /\ pl.owner_unclaimed = 0
  BY DEF AtPar, PoolRecord
<1>2. Decimal(n) \in Nat
  BY <1>1, DecimalOfAmount
<1>3. TryCeilU64(0) = 0
  <2>1. Wad - 1 \in 0..MaxU192
    BY FixedPointAssumption, Z3
  <2>2. Checked((Wad - 1) + 0, DecimalMax) # Err
    BY <2>1, Widths, CheckedResult DEF DecimalMax
  <2>3. ((Wad - 1) + 0) \div Wad = 0
    BY Widths, Z3
  <2> QED
    BY <2>2, <2>3, Widths, CheckedResult DEF TryCeilU64, Err
<1>4. Checked(n - 0, MaxU64) = n
  BY <1>1, Widths, CheckedResult
<1> QED
  BY <1>1, <1>2, <1>3, <1>4 DEF LiquidityAmount, Err

-----------------------------------------------------------------------------
(***************************************************************************)
(* The functions that change a pool                                        *)
(***************************************************************************)

\* A deposit adds its amount to both sides of the pool and nothing else.
LEMMA DepositAtPar ==
  ASSUME NEW pl, AtPar(pl), NEW n \in 0..MaxU64, CanDeposit(pl, n)
  PROVE  /\ CollateralFor(pl, n) = n
         /\ DepositLiquidity(pl, n) =
              [pl EXCEPT !.available_amount = @ + n, !.mint_total_supply = @ + n]
         /\ LET new == MarkStale(DepositLiquidity(pl, n))
            IN  /\ AtPar(new)
                /\ new.available_amount = pl.available_amount + n
                /\ new.mint_total_supply = pl.mint_total_supply + n
                /\ new.version = pl.version /\ new.slot = pl.slot
                /\ new.l_token_mining_index = pl.l_token_mining_index
                /\ new.borrow_mining_index = pl.borrow_mining_index
                /\ new.total_mining_speed = pl.total_mining_speed
<1>1. CollateralFor(pl, n) = n
  BY CollateralForAtPar DEF CanDeposit
<1>2. DepositLiquidity(pl, n) =
        [pl EXCEPT !.available_amount = @ + n, !.mint_total_supply = @ + n]
  BY <1>1 DEF DepositLiquidity
<1>3. pl.available_amount + n \in 0..MaxU64
  BY DEF CanDeposit, AtPar, PoolRecord
<1> DEFINE new == MarkStale(DepositLiquidity(pl, n))
<1>4. /\ AtPar(new)
      /\ new.available_amount = pl.available_amount + n
      /\ new.mint_total_supply = pl.mint_total_supply + n
      /\ new.version = pl.version /\ new.slot = pl.slot
      /\ new.l_token_mining_index = pl.l_token_mining_index
      /\ new.borrow_mining_index = pl.borrow_mining_index
      /\ new.total_mining_speed = pl.total_mining_speed
  BY <1>2, <1>3, ZenonT(60) DEF AtPar, MarkStale, PoolRecord
<1> QED
  BY <1>1, <1>2, <1>4

\* A redemption takes its amount from both sides of the pool.
LEMMA RedeemAtPar ==
  ASSUME NEW pl, AtPar(pl), NEW n \in 0..MaxU64, CanRedeem(pl, n)
  PROVE  /\ LiquidityFor(pl, n) = n /\ n <= pl.available_amount
         /\ RedeemCollateral(pl, n) =
              [pl EXCEPT !.mint_total_supply = @ - n, !.available_amount = @ - n]
         /\ LET new == MarkStale(RedeemCollateral(pl, n))
            IN  /\ AtPar(new)
                /\ new.available_amount = pl.available_amount - n
                /\ new.mint_total_supply = pl.mint_total_supply - n
                /\ new.version = pl.version /\ new.slot = pl.slot
                /\ new.l_token_mining_index = pl.l_token_mining_index
                /\ new.borrow_mining_index = pl.borrow_mining_index
                /\ new.total_mining_speed = pl.total_mining_speed
<1>1. LiquidityFor(pl, n) = n
  BY LiquidityForAtPar
<1>2. RedeemCollateral(pl, n) =
        [pl EXCEPT !.mint_total_supply = @ - n, !.available_amount = @ - n]
  BY <1>1 DEF RedeemCollateral
<1>3. pl.available_amount - n \in 0..MaxU64 /\ n <= pl.available_amount
  <2>1. pl.available_amount \in 0..MaxU64
    BY DEF AtPar, PoolRecord
  <2>2. n <= pl.available_amount
    BY <1>1 DEF CanRedeem
  <2> QED
    BY <2>1, <2>2, Widths
<1> DEFINE new == MarkStale(RedeemCollateral(pl, n))
<1>4. /\ AtPar(new)
      /\ new.available_amount = pl.available_amount - n
      /\ new.mint_total_supply = pl.mint_total_supply - n
      /\ new.version = pl.version /\ new.slot = pl.slot
      /\ new.l_token_mining_index = pl.l_token_mining_index
      /\ new.borrow_mining_index = pl.borrow_mining_index
      /\ new.total_mining_speed = pl.total_mining_speed
  BY <1>2, <1>3, ZenonT(60) DEF AtPar, MarkStale, PoolRecord
<1> QED
  BY <1>1, <1>2, <1>3, <1>4

\* At par any collateral the pool knows of can be redeemed.
LEMMA CanRedeemAtPar ==
  ASSUME NEW pl, AtPar(pl), NEW n \in 0..pl.mint_total_supply
  PROVE  CanRedeem(pl, n) /\ LiquidityFor(pl, n) = n
<1>1. n \in 0..MaxU64 /\ n \in Nat
  <2>1. pl.mint_total_supply \in 0..MaxU64
    BY DEF AtPar, PoolRecord
  <2> QED
    BY <2>1, Widths
<1>2. LiquidityFor(pl, n) = n
  BY <1>1, LiquidityForAtPar
<1>3. LiquidityAmount(pl) = pl.mint_total_supply /\ n <= pl.mint_total_supply
  BY <1>1, LiquidityAmountAtPar DEF AtPar, PoolRecord
<1> QED
  BY <1>1, <1>2, <1>3 DEF CanRedeem, Err, AtPar, PoolRecord

\* A packed refresh keeps the amounts, and what it writes fits its fields.
LEMMA RefreshAtPar ==
  ASSUME NEW pl, AtPar(pl), NEW now \in Nat, NEW price,
         CanPack(UpdateSlot(RefreshIndex([pl EXCEPT !.market_price = price], now), now)),
         NEW new,
         new = UpdateSlot(RefreshIndex([pl EXCEPT !.market_price = price], now), now)
  PROVE  /\ AtPar(new)
         /\ new.slot = now /\ ~new.stale
         /\ new.version = pl.version
         /\ new.available_amount = pl.available_amount
         /\ new.total_mining_speed = pl.total_mining_speed
         /\ new.reentry_lock = pl.reentry_lock
<1> DEFINE priced == [pl EXCEPT !.market_price = price]
<1>1. PICK x, y :
        new = [pl EXCEPT !.market_price = price, !.l_token_mining_index = x,
                         !.borrow_mining_index = y, !.slot = now, !.stale = FALSE]
  <2> HIDE DEF priced
  <2>1. PICK x, y : RefreshIndex(priced, now) =
          [priced EXCEPT !.l_token_mining_index = x, !.borrow_mining_index = y]
    BY DEF RefreshIndex
  <2> USE DEF priced
  <2> QED
    BY <2>1 DEF UpdateSlot
<1>2. \A d : ToScaledVal(d) # Err => d \in 0..MaxU128
  BY DEF ToScaledVal, Checked
<1>3. pl \in PoolRecord
  BY DEF AtPar
<1>4. /\ new.market_price = price /\ new.l_token_mining_index = x
      /\ new.borrow_mining_index = y
  BY <1>1, <1>3 DEF PoolRecord
<1>5. price \in 0..MaxU128 /\ x \in 0..MaxU128 /\ y \in 0..MaxU128
  BY <1>2, <1>4 DEF CanPack
<1>6. new \in PoolRecord
  BY <1>1, <1>3, <1>5 DEF PoolRecord
<1> QED
  BY <1>1, <1>3, <1>6 DEF AtPar, PoolRecord

-----------------------------------------------------------------------------
(***************************************************************************)
(* Mining                                                                  *)
(***************************************************************************)

\* One divided by fifty percent is two.
LEMMA MineRatioIsTwo == MineRatio = 2 * Wad
<1> DEFINE k == Wad \div 100
<1>1. k \in Nat \ {0} /\ Wad = 100 * k
  BY FixedPointAssumption, Z3
<1>2. FromPercent(50) = 50 * k /\ 50 * k \in Nat \ {0}
  BY <1>1 DEF FromPercent
<1> HIDE DEF k
<1>3. Wad * Wad = (200 * k) * (50 * k)
  BY <1>1, Z3
<1>4. (Wad * Wad) \div (50 * k) = 200 * k
  BY <1>1, <1>2, <1>3, DivideProductExact
<1>5. Checked(Wad * Wad, RateMax) # Err
  BY FixedPointAssumption, CheckedResult DEF RateMax
<1> QED
  BY <1>1, <1>2, <1>4, <1>5, Widths DEF MineRatio, TryDiv, One, Err

\* What a pool mining at speed v emits in n slots, to one side.
Emitted(v, n) == 2 * v * Wad * n

LEMMA EmittedAdds ==
  ASSUME NEW v \in 0..MaxU64, NEW m \in Nat, NEW n \in Nat, m <= n
  PROVE  /\ Emitted(v, m) \in Nat /\ Emitted(v, n) \in Nat /\ Emitted(v, n - m) \in Nat
         /\ Emitted(v, m) + Emitted(v, n - m) = Emitted(v, n)
         /\ Emitted(v, m) <= Emitted(v, n)
<1> DEFINE s == 2 * v * Wad
<1>1. s \in Nat
  BY Widths, Z3
<1>2. n - m \in Nat
  OBVIOUS
<1> HIDE DEF s
<1>3. /\ s * m \in Nat /\ s * n \in Nat /\ s * (n - m) \in Nat
      /\ s * m + s * (n - m) = s * n
  BY <1>1, <1>2, Z3
<1>4. s * m <= s * n
  BY <1>3, Z3
<1> QED
  BY <1>3, <1>4 DEF Emitted, s

\* A refresh emits that for the slots elapsed, or fails; it does not fail
\* while the emission fits 128 bits.
LEMMA EmissionAtPar ==
  ASSUME NEW pl, AtPar(pl), NEW now \in Nat, pl.slot <= now
  PROVE  LET e == Emitted(pl.total_mining_speed, now - pl.slot)
         IN  /\ e \in Nat
             /\ Emission(pl, now) \in {e, Err}
             /\ e <= MaxU128 => Emission(pl, now) = e
<1> DEFINE v == pl.total_mining_speed
           n == now - pl.slot
           e == Emitted(v, n)
           x == v * Wad * n
<1>1. pl.slot \in Nat /\ v \in 0..MaxU64 /\ n \in Nat
  BY DEF AtPar, PoolRecord
<1>2. Decimal(v) = v * Wad /\ v * Wad \in Nat
  BY <1>1, DecimalOfAmount
<1>3. SlotsElapsed(pl, now) = n
  BY <1>1 DEF SlotsElapsed
<1> HIDE DEF v, n
<1>4. x \in Nat /\ e = 2 * x /\ e \in Nat
  <2>1. x \in Nat
    BY <1>1, <1>2, Z3
  <2>2. 2 * v * Wad * n = 2 * (v * Wad * n)
    BY <1>1, Widths, Z3
  <2> QED
    BY <2>1, <2>2 DEF Emitted
<1>5. Decimal(v) # Err
  BY <1>2 DEF Err
<1>6. TryMulInt(Decimal(v), n, DecimalMax) = Checked(x, MaxU192)
  BY <1>2, <1>5 DEF TryMulInt, DecimalMax
<1>7. Emission(pl, now) = TryMul(Checked(x, MaxU192), 2 * Wad, MaxU192)
  BY <1>3, <1>6, MineRatioIsTwo DEF Emission, v, DecimalMax
<1> HIDE DEF x, e
<1>8. (x * (2 * Wad)) \div Wad = e
  <2>1. x * (2 * Wad) = e * Wad
    BY <1>4, Widths, Z3
  <2> QED
    BY <2>1, <1>4, Widths, DivideProductExact
<1>9. 2 * Wad # Err
  BY Widths DEF Err
<1>10. Emission(pl, now) \in {e, Err}
  BY <1>4, <1>7, <1>8, <1>9, Widths, CheckedResult DEF TryMul
<1>11. ASSUME e <= MaxU128 PROVE Emission(pl, now) = e
  <2>1. x * (2 * Wad) = e * Wad /\ e * Wad \in Nat
    BY <1>4, Widths, Z3
  <2>2. e * Wad <= MaxU128 * Wad
    BY <1>4, <1>11, Widths, ProductMonotone
  <2>3. x * (2 * Wad) \in 0..MaxU192
    BY <2>1, <2>2, Widths, FixedPointAssumption
  <2>4. MaxU128 <= MaxU192
    BY FixedPointAssumption, Z3
  <2>5. x \in 0..MaxU192
    BY <1>4, <1>11, <2>4, Widths
  <2>6. Checked(x, MaxU192) = x /\ x # Err
    BY <2>5, <1>4, Widths, CheckedResult DEF Err
  <2>7. Checked(x * (2 * Wad), MaxU192) # Err
    BY <2>3, Widths, CheckedResult
  <2> QED
    BY <1>7, <1>8, <1>9, <2>6, <2>7 DEF TryMul
<1> QED
  BY <1>4, <1>10, <1>11 DEF e, n, v

\* The lender index never falls, never outgrows what was emitted, and can
\* be advanced while that fits 128 bits.
LEMMA IndexAtPar ==
  ASSUME NEW pl, AtPar(pl), NEW now \in Nat, pl.slot <= now, Mines(pl),
         pl.l_token_mining_index <= Emitted(pl.total_mining_speed, pl.slot)
  PROVE  LET index == LTokenMiningIndex(pl, now)
             all   == Emitted(pl.total_mining_speed, now)
         IN  /\ index # Err => /\ index \in Nat
                               /\ pl.l_token_mining_index <= index
                               /\ index <= all
             /\ all <= MaxU128 => index # Err
<1> DEFINE v     == pl.total_mining_speed
           old   == pl.l_token_mining_index
           mts   == pl.mint_total_supply
           e     == Emitted(v, now - pl.slot)
           all   == Emitted(v, now)
           index == LTokenMiningIndex(pl, now)
           em    == Emission(pl, now)
<1>1. /\ pl.slot \in Nat /\ v \in 0..MaxU64 /\ old \in 0..MaxU128
      /\ mts \in Nat /\ mts # 0
  BY Widths DEF AtPar, PoolRecord, Mines
<1>2. old \in Nat /\ old # Err
  BY <1>1, Widths DEF Err
<1>3. /\ e \in Nat /\ all \in Nat /\ e <= all
      /\ Emitted(v, pl.slot) \in Nat /\ Emitted(v, pl.slot) + e = all
  BY <1>1, EmittedAdds, Z3T(30)
<1>4. old + e <= all
  BY <1>2, <1>3
<1>5. em \in {e, Err} /\ (e <= MaxU128 => em = e)
  BY EmissionAtPar
<1>6. index = TryAdd(old, TryDivInt(em, mts), MaxU192)
  BY DEF LTokenMiningIndex, DecimalMax
<1> HIDE DEF v, old, mts, e, all, index, em
<1>7. e \div mts \in Nat /\ e \div mts <= e
  BY <1>1, <1>3, Z3
<1>8. em = e => TryDivInt(em, mts) = e \div mts /\ e \div mts # Err
  BY <1>1, <1>3, <1>7 DEF TryDivInt, Err
<1>9. em = e => index = Checked(old + (e \div mts), MaxU192)
  BY <1>2, <1>6, <1>8 DEF TryAdd
<1>10. em = Err => index = Err
  BY <1>6 DEF TryDivInt, TryAdd
<1>11. old + (e \div mts) \in Nat /\ old <= old + (e \div mts) /\ old + (e \div mts) <= all
  BY <1>2, <1>3, <1>4, <1>7
<1>12. index # Err => index \in Nat /\ old <= index /\ index <= all
  BY <1>5, <1>9, <1>10, <1>11, Widths, CheckedResult
<1>13. ASSUME all <= MaxU128 PROVE index # Err
  <2>1. MaxU128 <= MaxU192
    BY FixedPointAssumption, Z3
  <2>2. em = e
    BY <1>3, <1>5, <1>13, Widths
  <2>3. old + (e \div mts) \in 0..MaxU192
    BY <1>3, <1>11, <1>13, <2>1, Widths
  <2> QED
    BY <1>9, <2>2, <2>3, Widths, CheckedResult
<1> QED
  BY <1>12, <1>13 DEF index, old, all, v

\* Nothing borrowed has no original share of an index.
LEMMA NothingBorrowed ==
  ASSUME NEW pl, AtPar(pl)
  PROVE  /\ ~MinesBorrows(pl)
         /\ pl.cumulative_borrow_rate_wads # 0 => OriginalShare(pl) # Err
<1> DEFINE c == pl.cumulative_borrow_rate_wads
<1>1. c \in 0..MaxU128 /\ pl.borrowed_amount_wads = 0
  BY DEF AtPar, PoolRecord
<1>2. c \in Nat
  BY <1>1, Widths
<1>3. OriginalShare(pl) = TryDiv(0, c, MaxU192)
  BY <1>1 DEF OriginalShare, DecimalMax
<1> HIDE DEF c
<1>4. 0 * Wad = 0 /\ Checked(0, MaxU192) # Err
  BY Widths, CheckedResult
<1>5. c # 0 => 0 \div c = 0
  BY <1>2, Z3
<1>6. /\ c # 0 => OriginalShare(pl) = 0
      /\ c = 0 => OriginalShare(pl) = Err
  BY <1>2, <1>3, <1>4, <1>5 DEF TryDiv, Err
<1> QED
  BY <1>6, Widths DEF MinesBorrows, One, Err, c

\* What a refresh of a pool at par writes.
LEMMA RefreshWrites ==
  ASSUME NEW pl, AtPar(pl), NEW now \in Nat, NEW price
  PROVE  UpdateSlot(RefreshIndex([pl EXCEPT !.market_price = price], now), now)
           = [pl EXCEPT !.market_price = price,
                        !.l_token_mining_index =
                           IF Mines(pl) THEN LTokenMiningIndex(pl, now) ELSE @,
                        !.slot = now, !.stale = FALSE]
<1> DEFINE priced == [pl EXCEPT !.market_price = price]
<1>1. pl \in PoolRecord
  BY DEF AtPar
<1>2. /\ priced.total_mining_speed = pl.total_mining_speed
      /\ priced.slot = pl.slot
      /\ priced.mint_total_supply = pl.mint_total_supply
      /\ priced.l_token_mining_index = pl.l_token_mining_index
      /\ priced.borrow_mining_index = pl.borrow_mining_index
      /\ priced.borrowed_amount_wads = pl.borrowed_amount_wads
      /\ priced.cumulative_borrow_rate_wads = pl.cumulative_borrow_rate_wads
  BY <1>1 DEF PoolRecord
<1> HIDE DEF priced
<1>3. (Mines(priced) <=> Mines(pl)) /\ OriginalShare(priced) = OriginalShare(pl)
  BY <1>2 DEF Mines, OriginalShare
<1>4. ~MinesBorrows(priced)
  BY <1>3, NothingBorrowed DEF MinesBorrows
<1>5. LTokenMiningIndex(priced, now) = LTokenMiningIndex(pl, now)
  BY <1>2 DEF LTokenMiningIndex, Emission, SlotsElapsed
<1>6. RefreshIndex(priced, now) =
        [priced EXCEPT
           !.l_token_mining_index = IF Mines(pl) THEN LTokenMiningIndex(pl, now) ELSE @,
           !.borrow_mining_index = @]
  BY <1>3, <1>4, <1>5 DEF RefreshIndex
<1>7. RefreshIndex(priced, now) =
        [pl EXCEPT
           !.market_price = price,
           !.l_token_mining_index = IF Mines(pl) THEN LTokenMiningIndex(pl, now) ELSE @]
  BY <1>1, <1>6 DEF priced, PoolRecord
<1> QED
  BY <1>1, <1>7 DEF UpdateSlot, PoolRecord, priced

\* A refresh succeeds when the price is usable, the clock is not behind and
\* what could have been emitted fits 128 bits.
LEMMA CanRefreshAtPar ==
  ASSUME NEW pl, AtPar(pl), NEW now \in Nat, NEW price, pl.slot <= now,
         pl.cumulative_borrow_rate_wads = One,
         pl.l_token_mining_index <= Emitted(pl.total_mining_speed, pl.slot),
         Emitted(pl.total_mining_speed, now) <= MaxU128,
         ToScaledVal(price) # Err
  PROVE  LET priced == [pl EXCEPT !.market_price = price]
         IN  /\ CanRefreshIndex(priced, now)
             /\ CanPack(UpdateSlot(RefreshIndex(priced, now), now))
<1> DEFINE priced == [pl EXCEPT !.market_price = price]
           index  == LTokenMiningIndex(pl, now)
           new    == UpdateSlot(RefreshIndex(priced, now), now)
<1>1. pl \in PoolRecord /\ pl.slot \in Nat /\ pl.total_mining_speed \in 0..MaxU64
      /\ pl.l_token_mining_index \in 0..MaxU128
      /\ pl.borrow_mining_index \in 0..MaxU128
  BY DEF AtPar, PoolRecord
<1>2. Emitted(pl.total_mining_speed, now) \in Nat
  BY <1>1, EmittedAdds
<1>3. Mines(pl) => index \in 0..MaxU128 /\ index # Err
  BY <1>2, IndexAtPar, Widths
<1>4. OriginalShare(pl) # Err /\ ~MinesBorrows(pl)
  BY NothingBorrowed, Widths DEF One
<1>5. SlotsElapsed(pl, now) # Err
  BY <1>1 DEF SlotsElapsed, Err
<1>6. CanRefreshIndex(priced, now)
  <2>1. /\ priced.total_mining_speed = pl.total_mining_speed
        /\ priced.slot = pl.slot
        /\ priced.mint_total_supply = pl.mint_total_supply
        /\ priced.l_token_mining_index = pl.l_token_mining_index
        /\ priced.borrowed_amount_wads = pl.borrowed_amount_wads
        /\ priced.cumulative_borrow_rate_wads = pl.cumulative_borrow_rate_wads
    BY <1>1 DEF PoolRecord
  <2> HIDE DEF priced
  <2>2. /\ Mines(priced) <=> Mines(pl)
        /\ OriginalShare(priced) = OriginalShare(pl)
        /\ SlotsElapsed(priced, now) = SlotsElapsed(pl, now)
    BY <2>1 DEF Mines, OriginalShare, SlotsElapsed
  <2>3. LTokenMiningIndex(priced, now) = index
    BY <2>1, <2>2 DEF LTokenMiningIndex, Emission
  <2> QED
    BY <1>3, <1>4, <1>5, <2>2, <2>3 DEF CanRefreshIndex, MinesBorrows
<1>7. /\ new.market_price = price
      /\ new.l_token_mining_index \in 0..MaxU128
      /\ new.borrow_mining_index \in 0..MaxU128
      /\ new.borrowed_amount_wads = 0
      /\ new.cumulative_borrow_rate_wads = One
      /\ new.owner_unclaimed = 0
  <2>1. new = [pl EXCEPT !.market_price = price,
                         !.l_token_mining_index = IF Mines(pl) THEN index ELSE @,
                         !.slot = now, !.stale = FALSE]
    BY RefreshWrites
  <2> HIDE DEF new, index
  <2>2. pl.borrowed_amount_wads = 0 /\ pl.owner_unclaimed = 0
    BY DEF AtPar
  <2> QED
    BY <1>1, <1>3, <2>1, <2>2 DEF PoolRecord
<1> HIDE DEF new
<1>8. \A d \in 0..MaxU128 : ToScaledVal(d) # Err
  BY Widths, CheckedResult DEF ToScaledVal, Err
<1>9. One \in 0..MaxU128 /\ 0 \in 0..MaxU128
  BY FixedPointAssumption, Z3 DEF One
<1>10. CanPack(new)
  BY <1>7, <1>8, <1>9 DEF CanPack
<1> QED
  BY <1>6, <1>10 DEF new

-----------------------------------------------------------------------------
(***************************************************************************)
(* The inductive invariant.  BooksInOrder alone is not inductive: what a   *)
(* deposit mints and a redemption pays depends on the exchange rate, which *)
(* is one only for a pool at par, and InitPool may only reset a pool whose *)
(* collateral was never minted.                                            *)
(***************************************************************************)
PoolsAtPar == \A p \in Pools : AtPar(pool[p])

NothingBeforeInit ==
  \A p \in Pools : ~Open(p) => pool[p].mint_total_supply = 0

IInv == TypeOK /\ PoolsAtPar /\ NothingBeforeInit /\ BooksInOrder

-----------------------------------------------------------------------------
(***************************************************************************)
(* What the wiring says of accounts                                        *)
(***************************************************************************)

\* The keys of a pool are accounts and mints.
LEMMA PoolKeysTyped ==
  ASSUME NEW p \in Pools
  PROVE  /\ Supply(p) \in TokenAccounts
         /\ CollateralMint(p) \in Mints
         /\ Wiring[p].manager \in Managers
         /\ MintOf[Supply(p)] = Wiring[p].liquidity_mint
         /\ OwnerOf[Supply(p)] = PoolAuthority[Wiring[p].manager]
  BY ProcessorAssumption, WiringAssumption DEF PoolKeys, Supply, CollateralMint

\* The fields of an account list are accounts, mints and keys.
LEMMA AccountListTyped ==
  ASSUME NEW a \in AccountLists
  PROVE  /\ a.source \in TokenAccounts /\ a.destination \in TokenAccounts
         /\ a.supply \in TokenAccounts /\ a.mint \in Mints
         /\ a.manager \in Managers /\ a.signer \in Users
  BY ProcessorAssumption DEF AccountList

\* No user owns a supply account.
LEMMA SuppliesAreNotOwnedByUsers ==
  ASSUME NEW t \in TokenAccounts, NEW p \in Pools, OwnerOf[t] \in Users
  PROVE  t # Supply(p)
  BY PoolKeysTyped, WiringAssumption

\* No account of collateral is a supply account.
LEMMA ClaimsAreNotSupplies ==
  ASSUME NEW t \in TokenAccounts, NEW p \in Pools, NEW q \in Pools,
         MintOf[t] = CollateralMint(p)
  PROVE  t # Supply(q)
  BY PoolKeysTyped, WiringAssumption

\* Supply accounts and collateral mints of different pools differ.
LEMMA PoolsAreSeparate ==
  ASSUME NEW p \in Pools, NEW q \in Pools, p # q
  PROVE  Supply(p) # Supply(q) /\ CollateralMint(p) # CollateralMint(q)
  BY WiringAssumption

\* Amounts that a handler works with are token amounts.
LEMMA RequestedTyped ==
  ASSUME TypeOK, NEW a \in AccountLists, NEW amount \in Amounts
  PROVE  Requested(a, amount) \in 0..MaxU64
  BY AccountListTyped, ProcessorAssumption
     DEF Requested, TypeOK, TokenTypeOK

-----------------------------------------------------------------------------
(***************************************************************************)
(* Moving tokens                                                           *)
(***************************************************************************)

\* A transfer between two accounts changes these two.
LEMMA TransferEffect ==
  ASSUME NEW b \in [TokenAccounts -> Int], NEW n \in Int,
         NEW s \in TokenAccounts, NEW d \in TokenAccounts, s # d
  PROVE  /\ Transferred(b, s, d, n) \in [TokenAccounts -> Int]
         /\ \A t \in TokenAccounts :
              Transferred(b, s, d, n)[t] = IF t = s THEN b[t] - n
                                           ELSE IF t = d THEN b[t] + n
                                           ELSE b[t]
  BY DEF Transferred, Credited, Debited

\* So does a credit, to one account, and a debit.
LEMMA CreditEffect ==
  ASSUME NEW b \in [TokenAccounts -> Int], NEW n \in Int, NEW d \in TokenAccounts
  PROVE  /\ Credited(b, d, n) \in [TokenAccounts -> Int]
         /\ Debited(b, d, n) \in [TokenAccounts -> Int]
         /\ \A t \in TokenAccounts :
              /\ Credited(b, d, n)[t] = IF t = d THEN b[t] + n ELSE b[t]
              /\ Debited(b, d, n)[t] = IF t = d THEN b[t] - n ELSE b[t]
  BY DEF Credited, Debited

\* A transfer that the token program allows keeps balances in their width and
\* takes tokens from its source alone.
LEMMA TransferTyped ==
  ASSUME NEW b \in [TokenAccounts -> 0..MaxU64], NEW n \in 0..MaxU64,
         NEW s \in TokenAccounts, NEW d \in TokenAccounts,
         n <= b[s], s # d => b[d] + n <= MaxU64
  PROVE  /\ Transferred(b, s, d, n) \in [TokenAccounts -> 0..MaxU64]
         /\ \A t \in TokenAccounts : t # s => b[t] <= Transferred(b, s, d, n)[t]
<1>1. \A t \in TokenAccounts : b[t] \in 0..MaxU64 /\ b[t] \in Int
  BY Widths
<1>2. CASE s = d
  <2>1. Transferred(b, s, d, n) = [b EXCEPT ![s] = @ - n + n]
    BY <1>2 DEF Transferred, Credited, Debited
  <2>2. b[s] - n + n = b[s]
    BY <1>1
  <2>3. Transferred(b, s, d, n) = b
    BY <2>1, <2>2
  <2> QED
    BY <1>1, <2>3
<1>3. CASE s # d
  <2>1. Transferred(b, s, d, n) = [b EXCEPT ![s] = b[s] - n, ![d] = b[d] + n]
    BY <1>3 DEF Transferred, Credited, Debited
  <2>2. b[s] - n \in 0..MaxU64 /\ b[d] + n \in 0..MaxU64 /\ b[d] <= b[d] + n
    BY <1>1, <1>3, Widths
  <2> QED
    BY <1>1, <2>1, <2>2
<1> QED
  BY <1>2, <1>3

\* The balances after a deposit, by account.
LEMMA DepositBalances ==
  ASSUME IInv, NEW p \in Pools, NEW a \in AccountLists, NEW amount \in Amounts,
         NEW pl, AtPar(pl), DepositFrom(p, pl, a, amount)
  PROVE  LET n == Requested(a, amount)
         IN  /\ n \in 0..MaxU64
             /\ CollateralFor(pl, n) = n
             /\ a.supply = Supply(p) /\ a.mint = CollateralMint(p)
             /\ OwnerOf[a.source] \in Users /\ OwnerOf[a.destination] = OwnerOf[a.source]
             /\ MintOf[a.source] = Wiring[p].liquidity_mint
             /\ MintOf[a.destination] = CollateralMint(p)
             /\ balance' \in [TokenAccounts -> 0..MaxU64]
             /\ minted' \in [Mints -> 0..MaxU64]
             /\ \A t \in TokenAccounts :
                  balance'[t] = IF t = a.source THEN balance[t] - n
                                ELSE IF t \in {Supply(p), a.destination}
                                     THEN balance[t] + n
                                ELSE balance[t]
             /\ minted' = [minted EXCEPT ![CollateralMint(p)] = @ + n]
             /\ n <= balance[a.source]
<1> DEFINE n == Requested(a, amount)
<1>1. n \in 0..MaxU64
  BY RequestedTyped DEF IInv
<1>2. CollateralFor(pl, n) = n
  BY <1>1, DepositAtPar DEF DepositFrom
<1>3. a.supply = Supply(p) /\ a.mint = CollateralMint(p)
      /\ OwnerOf[a.destination] = OwnerOf[a.source]
  BY DEF DepositFrom, Accepts
<1>4. /\ CanTransfer(a.source, Supply(p), a.signer, n)
      /\ CanMintTo(CollateralMint(p), a.destination, a.authority, n)
  BY <1>2, <1>3 DEF DepositFrom
<1>5. /\ OwnerOf[a.source] \in Users
      /\ MintOf[a.source] = Wiring[p].liquidity_mint
      /\ MintOf[a.destination] = CollateralMint(p)
  BY <1>4, AccountListTyped, PoolKeysTyped DEF CanTransfer, CanMintTo
<1>6. /\ a.source \in TokenAccounts /\ a.destination \in TokenAccounts
      /\ Supply(p) \in TokenAccounts /\ CollateralMint(p) \in Mints
  BY AccountListTyped, PoolKeysTyped
<1>7. /\ a.source # Supply(p) /\ a.destination # Supply(p)
      /\ a.source # a.destination
  BY <1>5, <1>6, SuppliesAreNotOwnedByUsers, ClaimsAreNotSupplies, WiringAssumption
<1>8. balance \in [TokenAccounts -> Int] /\ n \in Int
      /\ \A t \in TokenAccounts : balance[t] \in 0..MaxU64
  BY <1>1, ProcessorAssumption, Widths DEF IInv, TypeOK, TokenTypeOK
<1>9. balance' = Credited(Transferred(balance, a.source, Supply(p), n), a.destination, n)
  BY <1>2, <1>3 DEF DepositFrom
<1> DEFINE moved == Transferred(balance, a.source, Supply(p), n)
<1>10. /\ balance' \in [TokenAccounts -> Int]
       /\ \A t \in TokenAccounts :
         balance'[t] = IF t = a.source THEN balance[t] - n
                       ELSE IF t \in {Supply(p), a.destination} THEN balance[t] + n
                       ELSE balance[t]
  <2>1. /\ moved \in [TokenAccounts -> Int]
        /\ \A t \in TokenAccounts :
             moved[t] = IF t = a.source THEN balance[t] - n
                        ELSE IF t = Supply(p) THEN balance[t] + n ELSE balance[t]
    BY <1>6, <1>7, <1>8 DEF Transferred, Credited, Debited
  <2> HIDE DEF moved
  <2>2. /\ balance' \in [TokenAccounts -> Int]
        /\ \A t \in TokenAccounts :
             balance'[t] = IF t = a.destination THEN moved[t] + n ELSE moved[t]
    BY <1>6, <1>8, <1>9, <2>1, CreditEffect DEF moved
  <2> QED
    BY <1>7, <2>1, <2>2
<1>11. n <= balance[a.source] /\ balance[Supply(p)] + n <= MaxU64
       /\ balance[a.destination] + n <= MaxU64
       /\ minted[CollateralMint(p)] + n <= MaxU64
  BY <1>4, <1>7, ProcessorAssumption DEF CanTransfer, CanMintTo
<1>13. \A t \in TokenAccounts : balance'[t] \in 0..MaxU64
  BY <1>1, <1>8, <1>10, <1>11, <1>6, Widths
<1>14. minted' = [minted EXCEPT ![CollateralMint(p)] = @ + n]
  BY <1>2, <1>3 DEF DepositFrom
<1>15. minted' \in [Mints -> 0..MaxU64]
  <2>1. minted \in [Mints -> 0..MaxU64]
    BY ProcessorAssumption DEF IInv, TypeOK, TokenTypeOK
  <2>2. minted[CollateralMint(p)] + n \in 0..MaxU64
    BY <2>1, <1>1, <1>6, <1>11, Widths
  <2> QED
    BY <2>1, <2>2, <1>14, <1>6
<1>16. balance' \in [TokenAccounts -> 0..MaxU64]
  BY <1>10, <1>13
<1> QED
  BY <1>1, <1>2, <1>3, <1>5, <1>10, <1>11, <1>14, <1>15, <1>16

\* The balances after a redemption, by account.
LEMMA RedeemBalances ==
  ASSUME IInv, NEW p \in Pools, NEW a \in AccountLists, NEW amount \in Amounts,
         NEW pl, AtPar(pl), RedeemFrom(p, pl, a, amount)
  PROVE  LET n == Requested(a, amount)
         IN  /\ n \in 0..MaxU64
             /\ LiquidityFor(pl, n) = n
             /\ n <= pl.available_amount
             /\ a.supply = Supply(p) /\ a.mint = CollateralMint(p)
             /\ OwnerOf[a.source] \in Users /\ OwnerOf[a.destination] = OwnerOf[a.source]
             /\ MintOf[a.source] = CollateralMint(p)
             /\ MintOf[a.destination] = Wiring[p].liquidity_mint
             /\ balance' \in [TokenAccounts -> 0..MaxU64]
             /\ minted' \in [Mints -> 0..MaxU64]
             /\ \A t \in TokenAccounts :
                  balance'[t] = IF t \in {Supply(p), a.source} THEN balance[t] - n
                                ELSE IF t = a.destination THEN balance[t] + n
                                ELSE balance[t]
             /\ minted' = [minted EXCEPT ![CollateralMint(p)] = @ - n]
             /\ n <= balance[a.source] /\ n <= minted[CollateralMint(p)]
<1> DEFINE n == Requested(a, amount)
<1>1. n \in 0..MaxU64
  BY RequestedTyped DEF IInv
<1>2. LiquidityFor(pl, n) = n /\ n <= pl.available_amount
  BY <1>1, RedeemAtPar DEF RedeemFrom
<1>3. a.supply = Supply(p) /\ a.mint = CollateralMint(p)
      /\ OwnerOf[a.destination] = OwnerOf[a.source]
  BY DEF RedeemFrom, Accepts
<1>4. /\ CanBurn(CollateralMint(p), a.source, a.signer, n)
      /\ CanTransfer(Supply(p), a.destination, a.authority, n)
  BY <1>2, <1>3 DEF RedeemFrom
<1>5. /\ OwnerOf[a.source] \in Users
      /\ MintOf[a.source] = CollateralMint(p)
      /\ MintOf[a.destination] = Wiring[p].liquidity_mint
  BY <1>4, AccountListTyped, PoolKeysTyped DEF CanTransfer, CanBurn
<1>6. /\ a.source \in TokenAccounts /\ a.destination \in TokenAccounts
      /\ Supply(p) \in TokenAccounts /\ CollateralMint(p) \in Mints
  BY AccountListTyped, PoolKeysTyped
<1>7. /\ a.source # Supply(p) /\ a.destination # Supply(p)
      /\ a.source # a.destination
  <2>1. a.source # Supply(p)
    BY <1>5, <1>6, SuppliesAreNotOwnedByUsers
  <2>2. a.destination # Supply(p)
    BY DEF RedeemFrom
  <2>3. a.source # a.destination
    BY <1>5, <1>6, WiringAssumption
  <2> QED
    BY <2>1, <2>2, <2>3
<1>8. balance \in [TokenAccounts -> Int] /\ n \in Int
      /\ \A t \in TokenAccounts : balance[t] \in 0..MaxU64
  BY <1>1, ProcessorAssumption, Widths DEF IInv, TypeOK, TokenTypeOK
<1>9. balance' = Transferred(Debited(balance, a.source, n), Supply(p), a.destination, n)
  BY <1>2, <1>3 DEF RedeemFrom
<1> DEFINE burnt == Debited(balance, a.source, n)
<1>10. /\ balance' \in [TokenAccounts -> Int]
       /\ \A t \in TokenAccounts :
            balance'[t] = IF t \in {Supply(p), a.source} THEN balance[t] - n
                          ELSE IF t = a.destination THEN balance[t] + n
                          ELSE balance[t]
  <2>1. /\ burnt \in [TokenAccounts -> Int]
        /\ \A t \in TokenAccounts :
             burnt[t] = IF t = a.source THEN balance[t] - n ELSE balance[t]
    BY <1>6, <1>8 DEF Debited
  <2> HIDE DEF burnt
  <2>2. /\ balance' \in [TokenAccounts -> Int]
        /\ \A t \in TokenAccounts :
             balance'[t] = IF t = Supply(p) THEN burnt[t] - n
                           ELSE IF t = a.destination THEN burnt[t] + n
                           ELSE burnt[t]
    BY <1>6, <1>7, <1>8, <1>9, <2>1 DEF burnt, Transferred, Credited, Debited
  <2> QED
    BY <1>7, <2>1, <2>2
<1>11. n <= balance[a.source] /\ n <= balance[Supply(p)]
       /\ balance[a.destination] + n <= MaxU64
       /\ n <= minted[CollateralMint(p)]
  BY <1>4, <1>7, ProcessorAssumption DEF CanTransfer, CanBurn
<1>12. \A t \in TokenAccounts : balance'[t] \in 0..MaxU64
  BY <1>1, <1>8, <1>10, <1>11, <1>6, Widths
<1>13. balance' \in [TokenAccounts -> 0..MaxU64]
  BY <1>10, <1>12
<1>14. minted' = [minted EXCEPT ![CollateralMint(p)] = @ - n]
  BY <1>3 DEF RedeemFrom
<1>15. minted' \in [Mints -> 0..MaxU64]
  <2>1. minted \in [Mints -> 0..MaxU64]
    BY ProcessorAssumption DEF IInv, TypeOK, TokenTypeOK
  <2>2. minted[CollateralMint(p)] - n \in 0..MaxU64
    BY <2>1, <1>1, <1>6, <1>11, Widths
  <2> QED
    BY <2>1, <2>2, <1>14, <1>6
<1> QED
  BY <1>1, <1>2, <1>3, <1>5, <1>10, <1>11, <1>13, <1>14, <1>15

-----------------------------------------------------------------------------
(***************************************************************************)
(* Each step preserves the invariant                                       *)
(***************************************************************************)

\* Storing a pool at par in one account.
LEMMA StorePool ==
  ASSUME IInv, NEW p \in Pools, NEW new, AtPar(new),
         pool' = [pool EXCEPT ![p] = new]
  PROVE  /\ pool' \in [Pools -> PoolRecord]
         /\ pool'[p] = new
         /\ \A q \in Pools : q # p => pool'[q] = pool[q]
         /\ PoolsAtPar'
  BY DEF IInv, TypeOK, PoolsAtPar, AtPar

\* A deposit, whether from the stored pool or from a refreshed one.
LEMMA DepositKeepsIInv ==
  ASSUME IInv, NEW p \in Pools, NEW a \in AccountLists, NEW amount \in Amounts,
         NEW pl, AtPar(pl), pl.available_amount = pool[p].available_amount,
         DepositFrom(p, pl, a, amount)
  PROVE  IInv'
<1> DEFINE n == Requested(a, amount)
           new == MarkStale(DepositLiquidity(pl, n))
<1>1. /\ n \in 0..MaxU64
      /\ OwnerOf[a.source] \in Users
      /\ MintOf[a.destination] = CollateralMint(p)
      /\ balance' \in [TokenAccounts -> 0..MaxU64]
      /\ minted' \in [Mints -> 0..MaxU64]
      /\ \A t \in TokenAccounts :
           balance'[t] = IF t = a.source THEN balance[t] - n
                         ELSE IF t \in {Supply(p), a.destination} THEN balance[t] + n
                         ELSE balance[t]
      /\ minted' = [minted EXCEPT ![CollateralMint(p)] = @ + n]
  BY DepositBalances
<1>2. AtPar(new) /\ new.available_amount = pl.available_amount + n
      /\ new.mint_total_supply = pl.mint_total_supply + n
      /\ new.version = pl.version
  <2>1. n \in 0..MaxU64 /\ CanDeposit(pl, n)
    BY <1>1 DEF DepositFrom
  <2> HIDE DEF n
  <2> QED
    BY <2>1, DepositAtPar
<1>3. pool' = [pool EXCEPT ![p] = new] /\ IsInitialized(pl)
  BY DEF DepositFrom, Accepts
<1> HIDE DEF new
<1>4. /\ pool' \in [Pools -> PoolRecord] /\ PoolsAtPar' /\ pool'[p] = new
      /\ \A q \in Pools : q # p => pool'[q] = pool[q]
  BY <1>2, <1>3, StorePool
<1>5. TypeOK'
  BY <1>1, <1>4, ProcessorAssumption
     DEF IInv, TypeOK, TokenTypeOK, DepositFrom, ManagerTypeOK
<1>6. NothingBeforeInit'
  BY <1>2, <1>3, <1>4 DEF IInv, NothingBeforeInit, Open, IsInitialized
<1>7. ASSUME NEW q \in Pools
      PROVE  /\ minted'[CollateralMint(q)] <= pool'[q].mint_total_supply
             /\ pool'[q].available_amount <= balance'[Supply(q)]
  <2>1. /\ Supply(q) \in TokenAccounts /\ CollateralMint(q) \in Mints
        /\ a.source # Supply(q) /\ a.destination # Supply(q)
    BY <1>1, PoolKeysTyped, AccountListTyped, SuppliesAreNotOwnedByUsers,
       ClaimsAreNotSupplies
  <2>2. /\ minted[CollateralMint(q)] <= pool[q].mint_total_supply
        /\ pool[q].available_amount <= balance[Supply(q)]
        /\ minted \in [Mints -> 0..MaxU64] /\ balance[Supply(q)] \in Int
        /\ pool[q].mint_total_supply \in Int /\ pool[q].available_amount \in Int
        /\ pool[q].mint_total_supply = pool[q].available_amount
    BY <2>1, ProcessorAssumption
       DEF IInv, BooksInOrder, TypeOK, TokenTypeOK, PoolRecord, PoolsAtPar, AtPar
  <2>3. CASE q = p
    BY <1>1, <1>2, <1>4, <2>1, <2>2, <2>3 DEF AtPar
  <2>4. CASE q # p
    BY <1>1, <1>4, <2>1, <2>2, <2>4, PoolsAreSeparate
  <2> QED
    BY <2>3, <2>4
<1> QED
  BY <1>4, <1>5, <1>6, <1>7 DEF IInv, BooksInOrder

\* A redemption likewise.
LEMMA RedeemKeepsIInv ==
  ASSUME IInv, NEW p \in Pools, NEW a \in AccountLists, NEW amount \in Amounts,
         NEW pl, AtPar(pl), pl.available_amount = pool[p].available_amount,
         RedeemFrom(p, pl, a, amount)
  PROVE  IInv'
<1> DEFINE n == Requested(a, amount)
           new == MarkStale(RedeemCollateral(pl, n))
<1>1. /\ n \in 0..MaxU64
      /\ OwnerOf[a.source] \in Users
      /\ OwnerOf[a.destination] = OwnerOf[a.source]
      /\ balance' \in [TokenAccounts -> 0..MaxU64]
      /\ minted' \in [Mints -> 0..MaxU64]
      /\ \A t \in TokenAccounts :
           balance'[t] = IF t \in {Supply(p), a.source} THEN balance[t] - n
                         ELSE IF t = a.destination THEN balance[t] + n
                         ELSE balance[t]
      /\ minted' = [minted EXCEPT ![CollateralMint(p)] = @ - n]
  BY RedeemBalances
<1>2. AtPar(new) /\ new.available_amount = pl.available_amount - n
      /\ new.mint_total_supply = pl.mint_total_supply - n
      /\ new.version = pl.version
  <2>1. n \in 0..MaxU64 /\ CanRedeem(pl, n)
    BY <1>1 DEF RedeemFrom
  <2> HIDE DEF n
  <2> QED
    BY <2>1, RedeemAtPar
<1>3. pool' = [pool EXCEPT ![p] = new] /\ IsInitialized(pl)
  BY DEF RedeemFrom, Accepts
<1> HIDE DEF new
<1>4. /\ pool' \in [Pools -> PoolRecord] /\ PoolsAtPar' /\ pool'[p] = new
      /\ \A q \in Pools : q # p => pool'[q] = pool[q]
  BY <1>2, <1>3, StorePool
<1>5. TypeOK'
  BY <1>1, <1>4, ProcessorAssumption
     DEF IInv, TypeOK, TokenTypeOK, RedeemFrom, ManagerTypeOK
<1>6. NothingBeforeInit'
  BY <1>2, <1>3, <1>4 DEF IInv, NothingBeforeInit, Open, IsInitialized
<1>7. ASSUME NEW q \in Pools
      PROVE  /\ minted'[CollateralMint(q)] <= pool'[q].mint_total_supply
             /\ pool'[q].available_amount <= balance'[Supply(q)]
  <2>1. /\ Supply(q) \in TokenAccounts /\ CollateralMint(q) \in Mints
        /\ a.source # Supply(q) /\ a.destination # Supply(q)
    BY <1>1, PoolKeysTyped, AccountListTyped, SuppliesAreNotOwnedByUsers
  <2>2. /\ minted[CollateralMint(q)] <= pool[q].mint_total_supply
        /\ pool[q].available_amount <= balance[Supply(q)]
        /\ minted \in [Mints -> 0..MaxU64] /\ balance[Supply(q)] \in Int
        /\ pool[q].mint_total_supply \in Int /\ pool[q].available_amount \in Int
        /\ pool[q].mint_total_supply = pool[q].available_amount
    BY <2>1, ProcessorAssumption
       DEF IInv, BooksInOrder, TypeOK, TokenTypeOK, PoolRecord, PoolsAtPar, AtPar
  <2>3. CASE q = p
    BY <1>1, <1>2, <1>4, <2>1, <2>2, <2>3 DEF AtPar
  <2>4. CASE q # p
    BY <1>1, <1>4, <2>1, <2>2, <2>4, PoolsAreSeparate
  <2> QED
    BY <2>3, <2>4
<1> QED
  BY <1>4, <1>5, <1>6, <1>7 DEF IInv, BooksInOrder

\* Tokens that move or burn behind the back of the program: accounts of
\* users lose them, and supply accounts can only gain.
LEMMA UserStepKeepsIInv ==
  ASSUME IInv, UNCHANGED <<slot, oracle, pool, manager>>,
         balance' \in [TokenAccounts -> 0..MaxU64],
         minted' \in [Mints -> 0..MaxU64],
         \A p \in Pools : /\ balance[Supply(p)] <= balance'[Supply(p)]
                          /\ minted'[CollateralMint(p)] <= minted[CollateralMint(p)]
  PROVE  IInv'
<1>1. TypeOK' /\ PoolsAtPar' /\ NothingBeforeInit'
  BY ProcessorAssumption
     DEF IInv, TypeOK, TokenTypeOK, ManagerTypeOK, PoolsAtPar, NothingBeforeInit, Open
<1>2. BooksInOrder'
  <2> SUFFICES ASSUME NEW p \in Pools
               PROVE  /\ minted'[CollateralMint(p)] <= pool[p].mint_total_supply
                      /\ pool[p].available_amount <= balance'[Supply(p)]
    BY DEF BooksInOrder
  <2>1. /\ Supply(p) \in TokenAccounts /\ CollateralMint(p) \in Mints
        /\ balance[Supply(p)] \in Int /\ balance'[Supply(p)] \in Int
        /\ minted[CollateralMint(p)] \in Int /\ minted'[CollateralMint(p)] \in Int
        /\ pool[p].mint_total_supply \in Int /\ pool[p].available_amount \in Int
    BY PoolKeysTyped, ProcessorAssumption, Widths
       DEF IInv, TypeOK, TokenTypeOK, PoolRecord
  <2> QED
    BY <2>1 DEF IInv, BooksInOrder
<1> QED
  BY <1>1, <1>2 DEF IInv

LEMMA TransferKeepsIInv ==
  ASSUME IInv, NEW u \in Users, NEW s \in TokenAccounts, NEW d \in TokenAccounts,
         NEW n \in Amounts, Transfer(u, s, d, n)
  PROVE  IInv'
<1>1. n \in 0..MaxU64 /\ balance \in [TokenAccounts -> 0..MaxU64]
  BY ProcessorAssumption DEF IInv, TypeOK, TokenTypeOK
<1>2. /\ OwnerOf[s] = u /\ n <= balance[s]
      /\ s # d => balance[d] + n <= MaxU64
      /\ balance' = Transferred(balance, s, d, n)
      /\ minted' = minted
  BY ProcessorAssumption DEF Transfer, UserTransfer, CanTransfer
<1>4. /\ balance' \in [TokenAccounts -> 0..MaxU64]
      /\ \A t \in TokenAccounts : t # s => balance[t] <= balance'[t]
  BY <1>1, <1>2, TransferTyped
<1>5. ASSUME NEW p \in Pools
      PROVE  /\ balance[Supply(p)] <= balance'[Supply(p)]
             /\ minted'[CollateralMint(p)] <= minted[CollateralMint(p)]
  <2>1. Supply(p) \in TokenAccounts /\ Supply(p) # s /\ CollateralMint(p) \in Mints
    BY <1>2, PoolKeysTyped, SuppliesAreNotOwnedByUsers
  <2>2. minted[CollateralMint(p)] \in Int
    BY <2>1, ProcessorAssumption, Widths DEF IInv, TypeOK, TokenTypeOK
  <2> QED
    BY <1>2, <1>4, <2>1, <2>2
<1>6. minted' \in [Mints -> 0..MaxU64]
  BY <1>2, ProcessorAssumption DEF IInv, TypeOK, TokenTypeOK
<1> QED
  BY <1>4, <1>5, <1>6, UserStepKeepsIInv DEF Transfer

LEMMA BurnKeepsIInv ==
  ASSUME IInv, NEW u \in Users, NEW s \in TokenAccounts,
         NEW n \in Amounts, Burn(u, s, n)
  PROVE  IInv'
<1>1. /\ n \in 0..MaxU64 /\ balance \in [TokenAccounts -> 0..MaxU64]
      /\ minted \in [Mints -> 0..MaxU64] /\ MintOf[s] \in Mints
  BY ProcessorAssumption, TokenAssumption DEF IInv, TypeOK, TokenTypeOK
<1>2. /\ OwnerOf[s] = u /\ n <= balance[s] /\ n <= minted[MintOf[s]]
      /\ balance' = [balance EXCEPT ![s] = @ - n]
      /\ minted' = [minted EXCEPT ![MintOf[s]] = @ - n]
  BY DEF Burn, UserBurn, CanBurn, Debited
<1>3. /\ balance' \in [TokenAccounts -> 0..MaxU64]
      /\ minted' \in [Mints -> 0..MaxU64]
      /\ \A m \in Mints : minted'[m] <= minted[m]
  <2>1. balance[s] - n \in 0..MaxU64 /\ minted[MintOf[s]] - n \in 0..MaxU64
        /\ minted[MintOf[s]] - n <= minted[MintOf[s]]
    BY <1>1, <1>2, Widths
  <2>2. \A m \in Mints : minted[m] \in Int
    BY <1>1, Widths
  <2> QED
    BY <1>1, <1>2, <2>1, <2>2
<1>4. ASSUME NEW p \in Pools
      PROVE  /\ balance[Supply(p)] <= balance'[Supply(p)]
             /\ minted'[CollateralMint(p)] <= minted[CollateralMint(p)]
  <2>1. Supply(p) \in TokenAccounts /\ Supply(p) # s /\ CollateralMint(p) \in Mints
    BY <1>2, PoolKeysTyped, SuppliesAreNotOwnedByUsers
  <2>2. balance[Supply(p)] \in Int
    BY <1>1, <2>1, Widths
  <2> QED
    BY <1>1, <1>2, <1>3, <2>1, <2>2
<1> QED
  BY <1>3, <1>4, UserStepKeepsIInv DEF Burn

\* A new pool that can be packed is at par.
LEMMA NewPoolAtPar ==
  ASSUME NEW now \in Nat, NEW price, NEW v \in 0..MaxU64,
         CanPack(NewPool(now, price, v, FALSE))
  PROVE  AtPar(NewPool(now, price, v, FALSE))
<1> DEFINE new == NewPool(now, price, v, FALSE)
<1>1. \A d : ToScaledVal(d) # Err => d \in 0..MaxU128
  BY DEF ToScaledVal, Checked
<1>2. /\ ToScaledVal(new.market_price) # Err
      /\ ToScaledVal(new.cumulative_borrow_rate_wads) # Err
  BY DEF CanPack
<1>3. /\ new.market_price \in 0..MaxU128
      /\ new.cumulative_borrow_rate_wads \in 0..MaxU128
  BY <1>1, <1>2
<1> QED
  BY <1>3, Widths DEF NewPool, AtPar, PoolRecord

\* A new pool is at par, and nothing of its collateral exists yet.
LEMMA InitPoolKeepsIInv ==
  ASSUME IInv, NEW p \in Pools, NEW s \in Users, NEW v \in Speeds,
         InitPool(p, s, v)
  PROVE  IInv'
<1> DEFINE new == NewPool(slot, GetPythPrice(oracle[p]), v, FALSE)
<1>1. AtPar(new) /\ new.version = 1 /\ new.mint_total_supply = 0
      /\ new.available_amount = 0
  <2>1. slot \in Nat /\ v \in 0..MaxU64
    BY ProcessorAssumption DEF IInv, TypeOK
  <2>2. CanPack(new)
    BY DEF InitPool
  <2> QED
    BY <2>1, <2>2, NewPoolAtPar DEF NewPool
<1>2. pool' = [pool EXCEPT ![p] = new] /\ ~Open(p)
  BY DEF InitPool, Open
<1> HIDE DEF new
<1>3. /\ pool' \in [Pools -> PoolRecord] /\ PoolsAtPar' /\ pool'[p] = new
      /\ \A q \in Pools : q # p => pool'[q] = pool[q]
  BY <1>1, <1>2, StorePool
<1>4. UNCHANGED <<slot, oracle, manager, balance, minted>>
  BY DEF InitPool
<1>5. TypeOK'
  BY <1>3, <1>4, ProcessorAssumption DEF IInv, TypeOK, TokenTypeOK, ManagerTypeOK
<1>6. NothingBeforeInit'
  BY <1>1, <1>3 DEF IInv, NothingBeforeInit, Open, IsInitialized
<1>7. BooksInOrder'
  <2> SUFFICES ASSUME NEW q \in Pools
               PROVE  /\ minted[CollateralMint(q)] <= pool'[q].mint_total_supply
                      /\ pool'[q].available_amount <= balance[Supply(q)]
    BY <1>4 DEF BooksInOrder
  <2>1. CASE q = p
    <3>1. minted[CollateralMint(p)] <= 0
      BY <1>2 DEF IInv, BooksInOrder, NothingBeforeInit
    <3>2. balance[Supply(p)] \in 0..MaxU64
      BY PoolKeysTyped, ProcessorAssumption DEF IInv, TypeOK, TokenTypeOK
    <3> QED
      BY <1>1, <1>3, <2>1, <3>1, <3>2, Widths
  <2>2. CASE q # p
    BY <1>3, <2>2 DEF IInv, BooksInOrder
  <2> QED
    BY <2>1, <2>2
<1> QED
  BY <1>3, <1>5, <1>6, <1>7 DEF IInv

\* A refresh writes the slot, the price and the indices only.
LEMMA RefreshedAtPar ==
  ASSUME IInv, NEW p \in Pools, CanRefresh(p)
  PROVE  /\ AtPar(Refreshed(p))
         /\ Refreshed(p).slot = slot
         /\ Refreshed(p).version = pool[p].version
         /\ Refreshed(p).available_amount = pool[p].available_amount
         /\ Refreshed(p).total_mining_speed = pool[p].total_mining_speed
         /\ Refreshed(p).reentry_lock = pool[p].reentry_lock
         /\ ~Refreshed(p).stale
<1>1. AtPar(pool[p]) /\ slot \in Nat /\ CanPack(Refreshed(p))
  BY ProcessorAssumption DEF IInv, PoolsAtPar, TypeOK, CanRefresh
<1> QED
  BY <1>1, RefreshAtPar DEF Refreshed, Priced

LEMMA RefreshKeepsIInv ==
  ASSUME IInv, NEW p \in Pools, RefreshPool(p)
  PROVE  IInv'
<1> DEFINE new == Refreshed(p)
<1>1. AtPar(new) /\ new.version = pool[p].version
      /\ new.available_amount = pool[p].available_amount
  BY RefreshedAtPar DEF RefreshPool
<1>2. pool' = [pool EXCEPT ![p] = new]
  BY DEF RefreshPool
<1> HIDE DEF new
<1>3. /\ pool' \in [Pools -> PoolRecord] /\ PoolsAtPar' /\ pool'[p] = new
      /\ \A q \in Pools : q # p => pool'[q] = pool[q]
  BY <1>1, <1>2, StorePool
<1>4. UNCHANGED <<slot, oracle, manager, balance, minted>>
  BY DEF RefreshPool
<1>5. TypeOK'
  BY <1>3, <1>4, ProcessorAssumption DEF IInv, TypeOK, TokenTypeOK, ManagerTypeOK
<1>6. \A q \in Pools : /\ pool'[q].available_amount = pool[q].available_amount
                       /\ pool'[q].mint_total_supply = pool[q].mint_total_supply
                       /\ pool'[q].version = pool[q].version
  BY <1>1, <1>3 DEF IInv, PoolsAtPar, AtPar
<1>7. NothingBeforeInit' /\ BooksInOrder'
  BY <1>4, <1>6 DEF IInv, NothingBeforeInit, BooksInOrder, Open, IsInitialized
<1> QED
  BY <1>3, <1>5, <1>7 DEF IInv

-----------------------------------------------------------------------------
(***************************************************************************)
(* The theorems                                                            *)
(***************************************************************************)

LEMMA InitEstablishesIInv == Init => IInv
<1> SUFFICES ASSUME Init PROVE IInv
  OBVIOUS
<1>1. UninitializedPool \in PoolRecord /\ AtPar(UninitializedPool)
      /\ UninitializedPool.mint_total_supply = 0
      /\ UninitializedPool.available_amount = 0
  BY Widths DEF UninitializedPool, PoolRecord, AtPar
<1>2. PoolsAtPar /\ NothingBeforeInit /\ pool \in [Pools -> PoolRecord]
  BY <1>1 DEF Init, PoolsAtPar, NothingBeforeInit
<1>3. ManagerTypeOK
  BY DEF Init, ManagerInit, ManagerTypeOK
<1>4. TokenTypeOK
  BY ProcessorAssumption, WiringAssumption, SupplyAssumption DEF Init, TokenTypeOK
<1>5. TypeOK
  BY <1>2, <1>3, <1>4, ProcessorAssumption DEF Init, TypeOK
<1>6. BooksInOrder
  <2> SUFFICES ASSUME NEW p \in Pools
               PROVE  /\ minted[CollateralMint(p)] <= pool[p].mint_total_supply
                      /\ pool[p].available_amount <= balance[Supply(p)]
    BY DEF BooksInOrder
  <2>1. minted[CollateralMint(p)] = 0
    BY SupplyAssumption DEF Init
  <2>2. balance[Supply(p)] \in 0..MaxU64
    BY PoolKeysTyped, WiringAssumption DEF Init
  <2> QED
    BY <1>1, <2>1, <2>2, Widths DEF Init
<1> QED
  BY <1>2, <1>5, <1>6 DEF IInv

LEMMA NextKeepsIInv == IInv /\ [Next]_vars => IInv'
<1> SUFFICES ASSUME IInv, [Next]_vars PROVE IInv'
  OBVIOUS
<1>1. CASE Tick
  <2>1. slot' \in 0..MaxSlot
    BY <1>1, ProcessorAssumption DEF Tick, IInv, TypeOK
  <2> QED
    BY <1>1, <2>1 DEF Tick, IInv, TypeOK, ManagerTypeOK, TokenTypeOK, PoolsAtPar,
                      NothingBeforeInit, BooksInOrder, Open
<1>2. ASSUME NEW p \in Pools, NEW feed \in Feeds, OraclePublish(p, feed)
      PROVE  IInv'
  BY <1>2 DEF OraclePublish, IInv, TypeOK, ManagerTypeOK, TokenTypeOK, PoolsAtPar,
              NothingBeforeInit, BooksInOrder, Open
<1>3. ASSUME NEW m \in Managers, NEW s \in Users, NEW o \in ManagerOwners,
             NEW c \in Currencies, InitManager(m, s, o, c)
      PROVE  IInv'
  <2>1. ManagerTypeOK'
    BY <1>3 DEF InitManager, InitPoolingManager, IInv, TypeOK, ManagerTypeOK
  <2> QED
    BY <1>3, <2>1 DEF InitManager, IInv, TypeOK, TokenTypeOK, PoolsAtPar,
                      NothingBeforeInit, BooksInOrder, Open
<1>4. CASE UNCHANGED vars
  BY <1>4 DEF vars, IInv, TypeOK, ManagerTypeOK, TokenTypeOK, PoolsAtPar,
              NothingBeforeInit, BooksInOrder, Open
<1>5. ASSUME NEW m \in Managers, NEW o \in ManagerOwners, SetManagerOwner(m, o)
      PROVE  IInv'
  BY <1>4, <1>5 DEF SetManagerOwner, SetPoolingManagerOwner, vars
<1>6. ASSUME NEW p \in Pools PROVE AtPar(pool[p])
  BY DEF IInv, PoolsAtPar
<1> QED
  BY <1>1, <1>2, <1>3, <1>4, <1>5, <1>6, TransferKeepsIInv, BurnKeepsIInv,
     InitPoolKeepsIInv, RefreshKeepsIInv, DepositKeepsIInv, RedeemKeepsIInv
     DEF Next, DepositPoolLiquidity, RedeemPoolCollateral

\* The inductive invariant holds in every reachable state.
THEOREM InvariantHolds == Spec => []IInv
  BY InitEstablishesIInv, NextKeepsIInv, PTL DEF Spec

(***************************************************************************)
(* Every variable keeps its type: in particular no field of a pool and no  *)
(* balance ever leaves the range its width allows.                         *)
(***************************************************************************)
THEOREM TypeCorrect == Spec => []TypeOK
<1>1. IInv => TypeOK
  BY DEF IInv
<1> QED
  BY <1>1, InvariantHolds, PTL

(***************************************************************************)
(* The collateral minted never exceeds what the pool records, nor the      *)
(* liquidity recorded what the supply account holds.                       *)
(***************************************************************************)
THEOREM BooksStayInOrder == Spec => []BooksInOrder
<1>1. IInv => BooksInOrder
  BY DEF IInv
<1> QED
  BY <1>1, InvariantHolds, PTL

(***************************************************************************)
(* The exchange rate never moves away from one.                            *)
(***************************************************************************)
THEOREM CollateralStaysAtPar == Spec => []CollateralAtPar
<1>1. IInv => CollateralAtPar
  BY RateAtPar DEF IInv, PoolsAtPar, CollateralAtPar, AtPar
<1> QED
  BY <1>1, InvariantHolds, PTL

-----------------------------------------------------------------------------
(***************************************************************************)
(* The steps of one pool                                                   *)
(***************************************************************************)

\* A deposit or a redemption: amounts and staleness change, in a fresh slot.
Settled(p) ==
  /\ pool[p].slot = slot
  /\ IsInitialized(pool[p])
  /\ \E a, s : pool'[p] = [pool[p] EXCEPT !.available_amount = a,
                                          !.mint_total_supply = s,
                                          !.stale = TRUE]

Begun(p) ==
  /\ ~Open(p) /\ ManagerInitialized(Wiring[p].manager)
  /\ \E v \in 0..MaxU64 : \E price : pool'[p] = NewPool(slot, price, v, FALSE)

PoolStep(p) ==
  \/ pool'[p] = pool[p]
  \/ CanRefresh(p) /\ pool'[p] = Refreshed(p)
  \/ Begun(p)
  \/ Settled(p)

\* A pool that is not stale was refreshed in this slot.
LEMMA FreshIsThisSlot ==
  ASSUME IInv, NEW p \in Pools, Fresh(pool[p], slot)
  PROVE  pool[p].slot = slot
<1>1. pool[p].slot \in Nat /\ slot \in Nat
  BY ProcessorAssumption DEF IInv, TypeOK, PoolRecord
<1> QED
  BY <1>1 DEF Fresh, SlotsElapsed, StaleAfterSlotsElapsed, Err

LEMMA DepositSettles ==
  ASSUME IInv, NEW p \in Pools, NEW a, NEW n, DepositPoolLiquidity(p, a, n)
  PROVE  /\ pool' = [pool EXCEPT ![p] = pool'[p]]
         /\ Settled(p)
<1> DEFINE pl  == pool[p]
           new == MarkStale(DepositLiquidity(pl, Requested(a, n)))
<1>1. /\ pool \in [Pools -> PoolRecord] /\ pl \in PoolRecord
  BY DEF IInv, TypeOK
<1>2. pool' = [pool EXCEPT ![p] = new]
  BY DEF DepositPoolLiquidity, DepositFrom
<1>3. Fresh(pl, slot) /\ IsInitialized(pl)
  BY DEF DepositPoolLiquidity, DepositFrom, Accepts
<1>4. pl.slot = slot
  BY <1>3, FreshIsThisSlot
<1>5. \E x, y : new = [pl EXCEPT !.available_amount = x, !.mint_total_supply = y,
                                 !.stale = TRUE]
  BY DEF MarkStale, DepositLiquidity
<1> HIDE DEF new
<1>6. pool'[p] = new
  BY <1>1, <1>2
<1> QED
  BY <1>2, <1>3, <1>4, <1>5, <1>6 DEF Settled

LEMMA RedeemSettles ==
  ASSUME IInv, NEW p \in Pools, NEW a, NEW n, RedeemPoolCollateral(p, a, n)
  PROVE  /\ pool' = [pool EXCEPT ![p] = pool'[p]]
         /\ Settled(p)
<1> DEFINE pl  == pool[p]
           new == MarkStale(RedeemCollateral(pl, Requested(a, n)))
<1>1. /\ pool \in [Pools -> PoolRecord] /\ pl \in PoolRecord
  BY DEF IInv, TypeOK
<1>2. pool' = [pool EXCEPT ![p] = new]
  BY DEF RedeemPoolCollateral, RedeemFrom
<1>3. Fresh(pl, slot) /\ IsInitialized(pl)
  BY DEF RedeemPoolCollateral, RedeemFrom, Accepts
<1>4. pl.slot = slot
  BY <1>3, FreshIsThisSlot
<1>5. \E x, y : new = [pl EXCEPT !.available_amount = x, !.mint_total_supply = y,
                                 !.stale = TRUE]
  <2> HIDE DEF pl
  <2> DEFINE x == pl.available_amount - LiquidityFor(pl, Requested(a, n))
             y == pl.mint_total_supply - Requested(a, n)
  <2>0. RedeemCollateral(pl, Requested(a, n)) =
          [pl EXCEPT !.mint_total_supply = y, !.available_amount = x]
    BY <1>1 DEF RedeemCollateral, PoolRecord
  <2> HIDE DEF x, y
  <2>1. RedeemCollateral(pl, Requested(a, n)) =
          [pl EXCEPT !.available_amount = x, !.mint_total_supply = y]
    BY <1>1, <2>0 DEF PoolRecord
  <2> QED
    BY <2>1 DEF MarkStale
<1> HIDE DEF new
<1>6. pool'[p] = new
  BY <1>1, <1>2
<1> QED
  BY <1>2, <1>3, <1>4, <1>5, <1>6 DEF Settled

\* Every step takes every pool through one of the four, and time never back.
LEMMA EveryStepIsAPoolStep ==
  ASSUME IInv, [Next]_vars
  PROVE  /\ slot \in Nat /\ slot' \in Nat /\ slot <= slot'
         /\ \A p \in Pools : PoolStep(p)
<1>1. slot \in Nat /\ pool \in [Pools -> PoolRecord]
  BY ProcessorAssumption DEF IInv, TypeOK
<1>2. ASSUME pool' = pool, slot' = slot \/ slot' = slot + 1
      PROVE  /\ slot' \in Nat /\ slot <= slot'
             /\ \A p \in Pools : PoolStep(p)
  BY <1>1, <1>2 DEF PoolStep
<1>3. ASSUME NEW p \in Pools, pool' = [pool EXCEPT ![p] = pool'[p]],
             PoolStep(p), slot' = slot
      PROVE  /\ slot' \in Nat /\ slot <= slot'
             /\ \A q \in Pools : PoolStep(q)
  <2>1. \A q \in Pools : q # p => pool'[q] = pool[q]
    BY <1>1, <1>3
  <2> QED
    BY <1>1, <1>3, <2>1 DEF PoolStep
<1>4. ASSUME NEW p \in Pools, NEW s \in Users, NEW v \in Speeds, InitPool(p, s, v)
      PROVE  /\ pool' = [pool EXCEPT ![p] = pool'[p]]
             /\ PoolStep(p) /\ slot' = slot
  <2>1. /\ pool' = [pool EXCEPT ![p] = NewPool(slot, GetPythPrice(oracle[p]), v, FALSE)]
        /\ ~Open(p) /\ ManagerInitialized(Wiring[p].manager) /\ slot' = slot
    BY <1>4 DEF InitPool, Open
  <2>2. v \in 0..MaxU64
    BY ProcessorAssumption
  <2>3. pool'[p] = NewPool(slot, GetPythPrice(oracle[p]), v, FALSE)
    BY <1>1, <2>1
  <2> QED
    BY <2>1, <2>2, <2>3 DEF PoolStep, Begun
<1>5. ASSUME NEW p \in Pools, RefreshPool(p)
      PROVE  /\ pool' = [pool EXCEPT ![p] = pool'[p]]
             /\ PoolStep(p) /\ slot' = slot
  <2>1. /\ pool' = [pool EXCEPT ![p] = Refreshed(p)]
        /\ CanRefresh(p) /\ slot' = slot
    BY <1>5 DEF RefreshPool
  <2>2. pool'[p] = Refreshed(p)
    BY <1>1, <2>1
  <2> QED
    BY <2>1, <2>2 DEF PoolStep
<1>6. ASSUME NEW p \in Pools, NEW a \in AccountLists, NEW n \in Amounts,
             DepositPoolLiquidity(p, a, n) \/ RedeemPoolCollateral(p, a, n)
      PROVE  /\ pool' = [pool EXCEPT ![p] = pool'[p]]
             /\ PoolStep(p) /\ slot' = slot
  <2>1. slot' = slot
    BY <1>6 DEF DepositPoolLiquidity, RedeemPoolCollateral, DepositFrom, RedeemFrom
  <2> QED
    BY <1>6, <2>1, DepositSettles, RedeemSettles DEF PoolStep
<1>7. CASE Tick
  BY <1>1, <1>2, <1>7 DEF Tick
<1>8. CASE \E p \in Pools, feed \in Feeds : OraclePublish(p, feed)
  BY <1>1, <1>2, <1>8 DEF OraclePublish
<1>9. CASE \/ \E u \in Users, s, d \in TokenAccounts, n \in Amounts : Transfer(u, s, d, n)
           \/ \E u \in Users, s \in TokenAccounts, n \in Amounts : Burn(u, s, n)
  BY <1>1, <1>2, <1>9 DEF Transfer, Burn
<1>10. CASE \/ \E m \in Managers, s \in Users, o \in ManagerOwners, c \in Currencies :
                 InitManager(m, s, o, c)
            \/ \E m \in Managers, o \in ManagerOwners : SetManagerOwner(m, o)
  BY <1>1, <1>2, <1>10 DEF InitManager, SetManagerOwner
<1>11. CASE UNCHANGED vars
  BY <1>1, <1>2, <1>11 DEF vars
<1> QED
  BY <1>1, <1>3, <1>4, <1>5, <1>6, <1>7, <1>8, <1>9, <1>10, <1>11 DEF Next

-----------------------------------------------------------------------------
(***************************************************************************)
(* Mining                                                                  *)
(***************************************************************************)

\* No interest accrues: a pool keeps the borrow rate it was opened with.
NoInterest == \A p \in Pools : Open(p) => pool[p].cumulative_borrow_rate_wads = One

MInv == IInv /\ IndexWithinEmission /\ NoInterest

\* The bound of one pool, in the words of the lemmas about one pool.
WithinEmission(pl) ==
  pl.l_token_mining_index <= Emitted(pl.total_mining_speed, pl.slot)

\* What a refresh does to the pool of account p.
LEMMA RefreshedFields ==
  ASSUME IInv, NEW p \in Pools, CanRefresh(p), pool[p].slot <= slot,
         WithinEmission(pool[p])
  PROVE  LET new == Refreshed(p)
         IN  /\ new.slot = slot
             /\ new.version = pool[p].version
             /\ new.mint_total_supply = pool[p].mint_total_supply
             /\ new.total_mining_speed = pool[p].total_mining_speed
             /\ new.cumulative_borrow_rate_wads = pool[p].cumulative_borrow_rate_wads
             /\ new.borrow_mining_index = pool[p].borrow_mining_index
             /\ pool[p].l_token_mining_index <= new.l_token_mining_index
             /\ WithinEmission(new)
<1> DEFINE pl    == pool[p]
           new   == Refreshed(p)
           index == LTokenMiningIndex(pl, slot)
<1>1. /\ AtPar(pl) /\ pl \in PoolRecord /\ slot \in Nat
      /\ pl.slot \in Nat /\ pl.total_mining_speed \in 0..MaxU64
      /\ pl.l_token_mining_index \in 0..MaxU128
  BY ProcessorAssumption DEF IInv, TypeOK, PoolsAtPar, AtPar, PoolRecord
<1>2. new = [pl EXCEPT !.market_price = GetPythPrice(oracle[p]),
                       !.l_token_mining_index = IF Mines(pl) THEN index ELSE @,
                       !.slot = slot, !.stale = FALSE]
  BY <1>1, RefreshWrites DEF Refreshed, Priced
<1>3. Mines(pl) => index # Err
  <2>1. CanRefreshIndex(Priced(p), slot)
    BY DEF CanRefresh
  <2>2. /\ Mines(Priced(p)) <=> Mines(pl)
        /\ LTokenMiningIndex(Priced(p), slot) = index
    BY <1>1 DEF Mines, LTokenMiningIndex, Emission, SlotsElapsed, Priced, PoolRecord
  <2> QED
    BY <2>1, <2>2 DEF CanRefreshIndex
<1>4. Mines(pl) => /\ pl.l_token_mining_index <= index
                   /\ index <= Emitted(pl.total_mining_speed, slot)
  BY <1>1, <1>3, IndexAtPar DEF WithinEmission
<1>5. /\ Emitted(pl.total_mining_speed, pl.slot) <= Emitted(pl.total_mining_speed, slot)
      /\ Emitted(pl.total_mining_speed, pl.slot) \in Int
      /\ Emitted(pl.total_mining_speed, slot) \in Int
  <2>1. \A v \in 0..MaxU64 : \A m, n \in Nat : m <= n =>
          /\ Emitted(v, m) <= Emitted(v, n)
          /\ Emitted(v, m) \in Int /\ Emitted(v, n) \in Int
    BY EmittedAdds
  <2> QED
    BY <1>1, <2>1
<1> HIDE DEF new, index
<1>6. /\ new.slot = slot /\ new.version = pl.version
      /\ new.mint_total_supply = pl.mint_total_supply
      /\ new.total_mining_speed = pl.total_mining_speed
      /\ new.cumulative_borrow_rate_wads = pl.cumulative_borrow_rate_wads
      /\ new.borrow_mining_index = pl.borrow_mining_index
      /\ new.l_token_mining_index = IF Mines(pl) THEN index ELSE pl.l_token_mining_index
  BY <1>1, <1>2 DEF PoolRecord
<1> HIDE DEF pl
<1>7. pl.l_token_mining_index <= Emitted(pl.total_mining_speed, pl.slot)
  BY DEF WithinEmission, pl
<1>8. /\ pl.l_token_mining_index <= new.l_token_mining_index
      /\ WithinEmission(new)
  BY <1>1, <1>4, <1>5, <1>6, <1>7, Widths DEF WithinEmission
<1> QED
  BY <1>6, <1>8 DEF new, pl

\* The invariant, of one pool and in the words of the lemmas about one pool.
LEMMA MInvOfPool ==
  ASSUME MInv, NEW p \in Pools
  PROVE  /\ IInv /\ pool[p] \in PoolRecord /\ slot \in Nat
         /\ pool[p].slot \in Nat /\ pool[p].slot <= slot
         /\ pool[p].l_token_mining_index \in Nat
         /\ pool[p].borrow_mining_index \in Nat
         /\ pool[p].mint_total_supply \in Nat
         /\ WithinEmission(pool[p])
<1>1. pool[p] \in PoolRecord /\ slot \in Nat
  BY ProcessorAssumption DEF MInv, IInv, TypeOK
<1> QED
  BY <1>1, Widths DEF MInv, IndexWithinEmission, WithinEmission, Emitted, PoolRecord

\* What no step takes from the record of a pool: its bounds, its history and
\* its open lock.
RecordKept(p) ==
  /\ pool'[p].slot <= slot /\ WithinEmission(pool'[p])
  /\ Open(p) =>
       /\ pool'[p].version = pool[p].version
       /\ pool'[p].total_mining_speed = pool[p].total_mining_speed
       /\ pool'[p].l_token_mining_index >= pool[p].l_token_mining_index
       /\ pool'[p].borrow_mining_index >= pool[p].borrow_mining_index
       /\ pool'[p].cumulative_borrow_rate_wads = pool[p].cumulative_borrow_rate_wads
       /\ pool'[p].slot >= pool[p].slot
  /\ ~Open(p) /\ pool'[p].version # pool[p].version
       => pool'[p].cumulative_borrow_rate_wads = One
  /\ ~pool[p].reentry_lock => ~pool'[p].reentry_lock

\* What every step does to the fields of one pool.
LEMMA FieldsAcrossAStep ==
  ASSUME MInv, [Next]_vars, NEW p \in Pools
  PROVE  /\ RecordKept(p)
         /\ pool'[p].mint_total_supply # pool[p].mint_total_supply
              => pool[p].slot = slot
<1> DEFINE pl == pool[p]
<1>1. /\ IInv /\ pl \in PoolRecord /\ slot \in Nat
      /\ pl.slot \in Nat /\ pl.slot <= slot
      /\ pl.l_token_mining_index \in Nat /\ pl.borrow_mining_index \in Nat
      /\ pl.mint_total_supply \in Nat /\ WithinEmission(pl)
  BY MInvOfPool
<1>2. PoolStep(p)
  BY <1>1, EveryStepIsAPoolStep
<1>3. CASE pool'[p] = pool[p]
  BY <1>1, <1>3 DEF RecordKept
<1>4. CASE CanRefresh(p) /\ pool'[p] = Refreshed(p)
  BY <1>1, <1>4, RefreshedFields, RefreshedAtPar DEF CanRefresh, Open, RecordKept
<1>5. CASE Begun(p)
  <2>1. PICK v \in 0..MaxU64 : \E price : pool'[p] = NewPool(slot, price, v, FALSE)
    BY <1>5 DEF Begun
  <2>2. PICK price : pool'[p] = NewPool(slot, price, v, FALSE)
    BY <2>1
  <2>3. ~Open(p) /\ pl.mint_total_supply = 0
    BY <1>1, <1>5 DEF Begun, IInv, NothingBeforeInit
  <2>4. Emitted(v, slot) \in Nat
    BY <1>1, EmittedAdds
  <2> QED
    BY <1>1, <2>2, <2>3, <2>4 DEF NewPool, WithinEmission, RecordKept
<1>6. CASE Settled(p)
  <2>1. PICK a, s : pool'[p] = [pl EXCEPT !.available_amount = a,
                                          !.mint_total_supply = s, !.stale = TRUE]
    BY <1>6 DEF Settled
  <2>2. pl.slot = slot /\ Open(p)
    BY <1>6 DEF Settled, Open
  <2>3. /\ pool'[p].slot = pl.slot /\ pool'[p].version = pl.version
        /\ pool'[p].total_mining_speed = pl.total_mining_speed
        /\ pool'[p].l_token_mining_index = pl.l_token_mining_index
        /\ pool'[p].borrow_mining_index = pl.borrow_mining_index
        /\ pool'[p].cumulative_borrow_rate_wads = pl.cumulative_borrow_rate_wads
        /\ pool'[p].reentry_lock = pl.reentry_lock
    BY <1>1, <2>1 DEF PoolRecord
  <2> QED
    BY <1>1, <2>2, <2>3 DEF WithinEmission, RecordKept
<1> QED
  BY <1>2, <1>3, <1>4, <1>5, <1>6 DEF PoolStep

LEMMA InitEstablishesMInv == Init => MInv
<1> SUFFICES ASSUME Init PROVE MInv
  OBVIOUS
<1>1. IInv
  BY InitEstablishesIInv
<1>2. \A p \in Pools : pool[p] = UninitializedPool /\ slot = 0
  BY DEF Init
<1>3. NoInterest
  BY <1>2 DEF NoInterest, Open, IsInitialized, UninitializedPool
<1>4. \A p \in Pools : 0 <= 2 * 0 * Wad * 0
  BY Widths
<1>5. IndexWithinEmission
  BY <1>2, <1>4 DEF IndexWithinEmission, UninitializedPool
<1> QED
  BY <1>1, <1>3, <1>5 DEF MInv

\* A step that takes nothing from any record keeps the invariant.
LEMMA RecordsKeepMInv ==
  ASSUME MInv, IInv', slot \in Nat, slot' \in Nat, slot <= slot',
         \A p \in Pools : RecordKept(p)
  PROVE  MInv'
<1>1. ASSUME NEW p \in Pools
      PROVE  /\ pool'[p].slot <= slot'
             /\ pool'[p].l_token_mining_index
                  <= 2 * pool'[p].total_mining_speed * Wad * pool'[p].slot
  <2>1. pool'[p].slot \in Nat
    BY DEF IInv, TypeOK, PoolRecord
  <2>2. pool'[p].slot <= slot /\ WithinEmission(pool'[p])
    BY DEF RecordKept
  <2> QED
    BY <2>1, <2>2 DEF WithinEmission, Emitted
<1>2. IndexWithinEmission'
  BY <1>1 DEF IndexWithinEmission
<1>3. ASSUME NEW p \in Pools, Open(p)'
      PROVE  pool'[p].cumulative_borrow_rate_wads = One
  <2>1. CASE Open(p)
    BY <2>1 DEF MInv, NoInterest, RecordKept
  <2>2. CASE ~Open(p)
    BY <1>3, <2>2 DEF Open, IsInitialized, RecordKept
  <2> QED
    BY <2>1, <2>2
<1>4. NoInterest'
  BY <1>3 DEF NoInterest
<1> QED
  BY <1>2, <1>4 DEF MInv

LEMMA NextKeepsMInv == MInv /\ [Next]_vars => MInv'
<1> SUFFICES ASSUME MInv, [Next]_vars PROVE MInv'
  OBVIOUS
<1>1. IInv /\ IInv'
  BY NextKeepsIInv DEF MInv
<1>2. slot \in Nat /\ slot' \in Nat /\ slot <= slot'
  BY <1>1, EveryStepIsAPoolStep
<1> QED
  BY <1>1, <1>2, FieldsAcrossAStep, RecordsKeepMInv

-----------------------------------------------------------------------------
(***************************************************************************)
(* No saver is locked in                                                   *)
(***************************************************************************)

LEMMA RefreshIsPossible ==
  ASSUME MInv, NEW p \in Pools, Open(p), UsablePrice(p), WithinHorizon(p)
  PROVE  CanRefresh(p)
<1> DEFINE pl == pool[p]
<1>1. /\ IInv /\ slot \in Nat /\ pl.slot <= slot /\ WithinEmission(pl)
  BY MInvOfPool
<1>2. AtPar(pl) /\ pl.cumulative_borrow_rate_wads = One
  BY DEF MInv, IInv, PoolsAtPar, NoInterest
<1>3. /\ ToScaledVal(GetPythPrice(oracle[p])) # Err
      /\ Emitted(pl.total_mining_speed, slot) <= MaxU128
  BY DEF UsablePrice, WithinHorizon, Emitted
<1>4. GetPythPrice(oracle[p]) # Err
  BY <1>3 DEF ToScaledVal
<1>5. /\ CanRefreshIndex(Priced(p), slot)
      /\ CanPack(Refreshed(p))
  BY <1>1, <1>2, <1>3, CanRefreshAtPar DEF Priced, Refreshed, WithinEmission
<1> QED
  BY <1>4, <1>5 DEF CanRefresh, Open

LEMMA SaversAreNotLockedIn == MInv => Redeemable
<1> SUFFICES ASSUME MInv, NEW p \in Pools,
                    Open(p), UsablePrice(p), WithinHorizon(p)
             PROVE  /\ CanRefresh(p)
                    /\ \A n \in 1..minted[CollateralMint(p)] :
                         /\ CanRedeem(Refreshed(p), n)
                         /\ LiquidityFor(Refreshed(p), n) = n
                         /\ n <= balance[Supply(p)]
  BY DEF Redeemable
<1>1. CanRefresh(p)
  BY RefreshIsPossible
<1>2. IInv /\ AtPar(Refreshed(p))
      /\ Refreshed(p).available_amount = pool[p].available_amount
  BY <1>1, RefreshedAtPar DEF MInv
<1>3. ASSUME NEW n \in 1..minted[CollateralMint(p)]
      PROVE  /\ n \in 0..Refreshed(p).mint_total_supply
             /\ n <= balance[Supply(p)]
  <2>1. /\ pool[p].available_amount = pool[p].mint_total_supply
        /\ pool[p].mint_total_supply \in 0..MaxU64
        /\ Refreshed(p).mint_total_supply = pool[p].mint_total_supply
    BY <1>2 DEF IInv, PoolsAtPar, AtPar, PoolRecord
  <2>2. /\ minted[CollateralMint(p)] \in 0..MaxU64
        /\ balance[Supply(p)] \in 0..MaxU64
    BY <1>2, PoolKeysTyped, ProcessorAssumption DEF IInv, TypeOK, TokenTypeOK
  <2>3. /\ minted[CollateralMint(p)] <= pool[p].mint_total_supply
        /\ pool[p].available_amount <= balance[Supply(p)]
    BY <1>2 DEF IInv, BooksInOrder
  <2> QED
    BY <2>1, <2>2, <2>3, Widths
<1>4. ASSUME NEW n \in 1..minted[CollateralMint(p)]
      PROVE  CanRedeem(Refreshed(p), n) /\ LiquidityFor(Refreshed(p), n) = n
  BY <1>2, <1>3, CanRedeemAtPar
<1> QED
  BY <1>1, <1>3, <1>4

-----------------------------------------------------------------------------
(***************************************************************************)
(* The theorems                                                            *)
(***************************************************************************)

\* The inductive invariant that covers mining: the index of every pool is
\* within what was emitted, and no pool has charged interest.
THEOREM MiningInvariantHolds == Spec => []MInv
  BY InitEstablishesMInv, NextKeepsMInv, PTL DEF Spec

(***************************************************************************)
(* The lender index of a pool never exceeds what its slots emitted.        *)
(***************************************************************************)
THEOREM IndexStaysWithinEmission == Spec => []IndexWithinEmission
<1>1. MInv => IndexWithinEmission
  BY DEF MInv
<1> QED
  BY <1>1, MiningInvariantHolds, PTL

(***************************************************************************)
(* Within the horizon of the mining index, a usable price is all a saver   *)
(* needs to get any part of the outstanding collateral paid out in full.   *)
(***************************************************************************)
THEOREM CollateralIsRedeemable == Spec => []Redeemable
  BY SaversAreNotLockedIn, MiningInvariantHolds, PTL

(***************************************************************************)
(* The supply that shares the index changes only in a settled slot.        *)
(***************************************************************************)
THEOREM SupplyChangesAreSettled == Spec => SettledBeforeSupplyChanges
<1>1. MInv /\ [Next]_vars
        => [\A p \in Pools :
              pool'[p].mint_total_supply # pool[p].mint_total_supply
                => pool[p].slot = slot]_vars
  BY FieldsAcrossAStep
<1> QED
  BY <1>1, MiningInvariantHolds, PTL DEF Spec, SettledBeforeSupplyChanges

(***************************************************************************)
(* A pool keeps its identity, its speed and its indices for ever.          *)
(***************************************************************************)
THEOREM HistoryIsKept == Spec => PoolHistoryKept
<1>1. MInv /\ [Next]_vars
        => [\A p \in Pools : Open(p) =>
              /\ IsInitialized(pool'[p])
              /\ pool'[p].total_mining_speed = pool[p].total_mining_speed
              /\ pool'[p].l_token_mining_index >= pool[p].l_token_mining_index
              /\ pool'[p].borrow_mining_index >= pool[p].borrow_mining_index
              /\ pool'[p].slot >= pool[p].slot]_vars
  BY FieldsAcrossAStep DEF Open, IsInitialized, RecordKept
<1> QED
  BY <1>1, MiningInvariantHolds, PTL DEF Spec, PoolHistoryKept

-----------------------------------------------------------------------------
(***************************************************************************)
(* Saving at par                                                           *)
(***************************************************************************)

\* The mapped state, field by field.
Holding == [a \in SaverAccounts |-> balance[a]]
Vault   == [p \in Pools |-> balance[Supply(p)]]
Claims  == [p \in Pools |-> minted[CollateralMint(p)]]

\* The types of the mapped state.
LEMMA MappedTyped ==
  ASSUME IInv
  PROVE  /\ balance \in [TokenAccounts -> 0..MaxU64]
         /\ minted \in [Mints -> 0..MaxU64]
         /\ \A t \in TokenAccounts : balance[t] \in Int
         /\ \A m \in Mints : minted[m] \in Int
         /\ SaverAccounts \subseteq TokenAccounts
  BY ProcessorAssumption, Widths
     DEF IInv, TypeOK, TokenTypeOK, SaverAccounts

\* An account a user owns is a saver's account.
LEMMA UserAccountsAreSavers ==
  ASSUME NEW t \in TokenAccounts, OwnerOf[t] \in Users
  PROVE  t \in SaverAccounts
  BY SuppliesAreNotOwnedByUsers DEF SaverAccounts

\* The actions of ParSavings, one by one.
LEMMA StepsOfSavings ==
  ASSUME NEW n \in 0..MaxU64, NEW from \in SaverAccounts
  PROVE  /\ \A p \in Pools, to \in SaverAccounts :
              \/ Savings!Save(p, from, to, n)
              \/ Savings!Exit(p, from, to, n)
              => Savings!Next
         /\ \A to \in SaverAccounts : Savings!Pay(from, to, n) => Savings!Next
         /\ \A p \in Pools : Savings!Donate(p, from, n) => Savings!Next
         /\ Savings!GiveUp(from, n) => Savings!Next
  BY DEF Savings!Next

LEMMA InitImplements == Init => Savings!Init
<1> SUFFICES ASSUME Init PROVE Savings!Init
  OBVIOUS
<1>1. Holding \in [SaverAccounts -> 0..MaxU64]
  BY WiringAssumption DEF Init, Holding, SaverAccounts
<1>2. Vault \in [Pools -> 0..MaxU64]
  BY WiringAssumption, PoolKeysTyped DEF Init, Vault
<1>3. Claims = [p \in Pools |-> 0]
  BY SupplyAssumption DEF Init, Claims
<1> QED
  BY <1>1, <1>2, <1>3 DEF Savings!Init, Holding, Vault, Claims

\* A deposit into the stored pool or a refreshed one.
LEMMA DepositIsSave ==
  ASSUME IInv, NEW p \in Pools, NEW a \in AccountLists, NEW amount \in Amounts,
         NEW pl, AtPar(pl), DepositFrom(p, pl, a, amount)
  PROVE  Savings!Next
<1>0. PICK n \in 0..MaxU64 : n = Requested(a, amount)
  BY RequestedTyped DEF IInv
<1>2. /\ n <= balance[a.source]
      /\ OwnerOf[a.source] \in Users /\ OwnerOf[a.destination] = OwnerOf[a.source]
      /\ MintOf[a.source] = Wiring[p].liquidity_mint
      /\ MintOf[a.destination] = CollateralMint(p)
      /\ \A t \in TokenAccounts :
           balance'[t] = IF t = a.source THEN balance[t] - n
                         ELSE IF t \in {Supply(p), a.destination}
                              THEN balance[t] + n
                         ELSE balance[t]
      /\ minted' = [minted EXCEPT ![CollateralMint(p)] = @ + n]
  BY <1>0, DepositBalances
<1>3. a.source \in TokenAccounts /\ a.destination \in TokenAccounts
  BY AccountListTyped
<1>4. a.source \in SaverAccounts /\ a.destination \in SaverAccounts
  BY <1>2, <1>3, UserAccountsAreSavers
<1>5. a.source # a.destination
  BY <1>2, WiringAssumption
<1>6. Holding' = [[Holding EXCEPT ![a.source] = @ - n] EXCEPT ![a.destination] = @ + n]
  <2>1. \A t \in SaverAccounts :
          balance'[t] = IF t = a.source THEN balance[t] - n
                        ELSE IF t = a.destination THEN balance[t] + n
                        ELSE balance[t]
    BY <1>2, MappedTyped DEF SaverAccounts
  <2> QED
    BY <2>1, <1>4, <1>5 DEF Holding
<1>7. Vault' = [Vault EXCEPT ![p] = @ + n]
  <2>1. \A q \in Pools : /\ Supply(q) \in TokenAccounts
                         /\ Supply(q) # a.source /\ Supply(q) # a.destination
                         /\ q # p => Supply(q) # Supply(p)
    BY <1>2, <1>3, PoolKeysTyped, SuppliesAreNotOwnedByUsers, PoolsAreSeparate
  <2>2. \A q \in Pools : balance'[Supply(q)] =
          IF q = p THEN balance[Supply(q)] + n ELSE balance[Supply(q)]
    BY <1>2, <2>1
  <2> QED
    BY <2>2 DEF Vault
<1>8. Claims' = [Claims EXCEPT ![p] = @ + n]
  <2>1. \A q \in Pools : minted'[CollateralMint(q)] =
          IF q = p THEN minted[CollateralMint(q)] + n ELSE minted[CollateralMint(q)]
    BY <1>2, PoolKeysTyped, PoolsAreSeparate, MappedTyped
  <2> QED
    BY <2>1 DEF Claims
<1>9. n <= Holding[a.source]
  BY <1>2, <1>4 DEF Holding
<1>10. Savings!Save(p, a.source, a.destination, n)
  BY <1>2, <1>6, <1>7, <1>8, <1>9 DEF Savings!Save, Savings!Moved, Holding, Vault, Claims
<1> QED
  BY <1>4, <1>10, StepsOfSavings

\* A redemption likewise.
LEMMA RedeemIsExit ==
  ASSUME IInv, NEW p \in Pools, NEW a \in AccountLists, NEW amount \in Amounts,
         NEW pl, AtPar(pl), RedeemFrom(p, pl, a, amount)
  PROVE  Savings!Next
<1>0. PICK n \in 0..MaxU64 : n = Requested(a, amount)
  BY RequestedTyped DEF IInv
<1>2. /\ n <= balance[a.source]
      /\ n <= minted[CollateralMint(p)]
      /\ OwnerOf[a.source] \in Users /\ OwnerOf[a.destination] = OwnerOf[a.source]
      /\ MintOf[a.source] = CollateralMint(p)
      /\ MintOf[a.destination] = Wiring[p].liquidity_mint
      /\ \A t \in TokenAccounts :
           balance'[t] = IF t \in {Supply(p), a.source} THEN balance[t] - n
                         ELSE IF t = a.destination THEN balance[t] + n
                         ELSE balance[t]
      /\ minted' = [minted EXCEPT ![CollateralMint(p)] = @ - n]
  BY <1>0, RedeemBalances
<1>3. a.source \in TokenAccounts /\ a.destination \in TokenAccounts
  BY AccountListTyped
<1>4. a.source \in SaverAccounts /\ a.destination \in SaverAccounts
  BY <1>2, <1>3, UserAccountsAreSavers
<1>5. a.source # a.destination
  BY <1>2, WiringAssumption
<1>6. Holding' = [[Holding EXCEPT ![a.source] = @ - n] EXCEPT ![a.destination] = @ + n]
  <2>1. \A t \in SaverAccounts :
          balance'[t] = IF t = a.source THEN balance[t] - n
                        ELSE IF t = a.destination THEN balance[t] + n
                        ELSE balance[t]
    BY <1>2, MappedTyped DEF SaverAccounts
  <2> QED
    BY <2>1, <1>4, <1>5 DEF Holding
<1>7. Vault' = [Vault EXCEPT ![p] = @ - n]
  <2>1. \A q \in Pools : /\ Supply(q) \in TokenAccounts
                         /\ Supply(q) # a.source /\ Supply(q) # a.destination
                         /\ q # p => Supply(q) # Supply(p)
    BY <1>2, <1>3, PoolKeysTyped, SuppliesAreNotOwnedByUsers, PoolsAreSeparate
  <2>2. \A q \in Pools : balance'[Supply(q)] =
          IF q = p THEN balance[Supply(q)] - n ELSE balance[Supply(q)]
    BY <1>2, <2>1
  <2> QED
    BY <2>2 DEF Vault
<1>8. Claims' = [Claims EXCEPT ![p] = @ - n]
  <2>1. \A q \in Pools : minted'[CollateralMint(q)] =
          IF q = p THEN minted[CollateralMint(q)] - n ELSE minted[CollateralMint(q)]
    BY <1>2, PoolKeysTyped, PoolsAreSeparate, MappedTyped
  <2> QED
    BY <2>1 DEF Claims
<1>9. n <= Holding[a.source] /\ n <= Claims[p]
  BY <1>2, <1>4 DEF Holding, Claims
<1>10. Savings!Exit(p, a.source, a.destination, n)
  BY <1>2, <1>6, <1>7, <1>8, <1>9 DEF Savings!Exit, Savings!Moved, Holding, Vault, Claims
<1> QED
  BY <1>4, <1>10, StepsOfSavings

LEMMA TransferIsPayOrDonate ==
  ASSUME IInv, NEW u \in Users, NEW s \in TokenAccounts, NEW d \in TokenAccounts,
         NEW n \in Amounts, Transfer(u, s, d, n)
  PROVE  Savings!Next
<1>1. /\ MintOf[s] = MintOf[d] /\ OwnerOf[s] = u /\ n <= balance[s]
      /\ balance' = [[balance EXCEPT ![s] = @ - n] EXCEPT ![d] = @ + n]
      /\ minted' = minted
  BY DEF Transfer, UserTransfer, CanTransfer, Transferred, Credited, Debited
<1>2. n \in 0..MaxU64 /\ n \in Int
  BY ProcessorAssumption, Widths
<1>3. s \in SaverAccounts /\ \A p \in Pools : Supply(p) # s /\ Supply(p) \in TokenAccounts
  BY <1>1, UserAccountsAreSavers, SuppliesAreNotOwnedByUsers, PoolKeysTyped
<1>4. \A t \in TokenAccounts :
        balance'[t] = IF t = s THEN IF s = d THEN balance[t] ELSE balance[t] - n
                      ELSE IF t = d THEN balance[t] + n
                      ELSE balance[t]
  BY <1>1, <1>2, MappedTyped
<1>5. n <= Holding[s] /\ Claims' = Claims
  BY <1>1, <1>3 DEF Holding, Claims
<1>6. CASE d \in SaverAccounts
  <2>1. Holding' = [[Holding EXCEPT ![s] = @ - n] EXCEPT ![d] = @ + n]
    <3>1. \A t \in SaverAccounts :
            balance'[t] = IF t = s THEN IF s = d THEN balance[t] - n + n
                                        ELSE balance[t] - n
                          ELSE IF t = d THEN balance[t] + n
                          ELSE balance[t]
      BY <1>2, <1>4, MappedTyped
    <3> QED
      BY <3>1, <1>3, <1>6 DEF Holding
  <2>2. Vault' = Vault
    <3>1. \A p \in Pools : Supply(p) # d
      BY <1>6 DEF SaverAccounts
    <3> QED
      BY <3>1, <1>3, <1>4 DEF Vault
  <2>3. Savings!Pay(s, d, n)
    BY <1>1, <1>5, <2>1, <2>2 DEF Savings!Pay, Savings!Moved, Holding, Vault, Claims
  <2> QED
    BY <1>2, <1>3, <1>6, <2>3, StepsOfSavings
<1>7. CASE d \notin SaverAccounts
  <2>1. PICK p \in Pools : d = Supply(p)
    BY <1>7 DEF SaverAccounts
  <2>2. MintOf[s] = Wiring[p].liquidity_mint
    BY <1>1, <2>1, PoolKeysTyped
  <2>3. Holding' = [Holding EXCEPT ![s] = @ - n]
    <3>1. \A t \in SaverAccounts :
            balance'[t] = IF t = s THEN balance[t] - n ELSE balance[t]
      BY <1>3, <1>4, <1>7, MappedTyped
    <3> QED
      BY <3>1, <1>3 DEF Holding
  <2>4. Vault' = [Vault EXCEPT ![p] = @ + n]
    <3>1. \A q \in Pools : q # p => Supply(q) # d
      BY <2>1, PoolsAreSeparate
    <3>2. \A q \in Pools : balance'[Supply(q)] =
            IF q = p THEN balance[Supply(q)] + n ELSE balance[Supply(q)]
      BY <1>3, <1>4, <2>1, <3>1
    <3> QED
      BY <3>2 DEF Vault
  <2>5. Savings!Donate(p, s, n)
    BY <1>5, <2>2, <2>3, <2>4 DEF Savings!Donate, Holding, Vault, Claims
  <2> QED
    BY <1>2, <1>3, <2>5, StepsOfSavings
<1> QED
  BY <1>6, <1>7

LEMMA BurnIsGiveUp ==
  ASSUME IInv, NEW u \in Users, NEW s \in TokenAccounts, NEW n \in Amounts,
         Burn(u, s, n)
  PROVE  Savings!Next
<1>1. /\ OwnerOf[s] = u /\ n <= balance[s] /\ n <= minted[MintOf[s]]
      /\ balance' = [balance EXCEPT ![s] = @ - n]
      /\ minted' = [minted EXCEPT ![MintOf[s]] = @ - n]
  BY DEF Burn, UserBurn, CanBurn, Debited
<1>2. n \in 0..MaxU64 /\ MintOf[s] \in Mints
  BY ProcessorAssumption, TokenAssumption
<1>3. s \in SaverAccounts /\ \A p \in Pools : Supply(p) # s /\ Supply(p) \in TokenAccounts
  BY <1>1, UserAccountsAreSavers, SuppliesAreNotOwnedByUsers, PoolKeysTyped
<1>4. n <= Holding[s] /\ Holding' = [Holding EXCEPT ![s] = @ - n]
  BY <1>1, <1>3, MappedTyped DEF Holding
<1>5. Vault' = Vault
  BY <1>1, <1>3, MappedTyped DEF Vault
<1>6. \A p \in Pools : minted'[CollateralMint(p)] =
        IF CollateralMint(p) = MintOf[s] THEN minted[CollateralMint(p)] - n
        ELSE minted[CollateralMint(p)]
  BY <1>1, <1>2, PoolKeysTyped, MappedTyped
<1>7. Savings!GiveUp(s, n)
  BY <1>1, <1>4, <1>5, <1>6 DEF Savings!GiveUp, Holding, Vault, Claims
<1> QED
  BY <1>2, <1>3, <1>7, StepsOfSavings

LEMMA StepImplements == IInv /\ [Next]_vars => [Savings!Next]_(Savings!vars)
<1> SUFFICES ASSUME IInv, [Next]_vars
             PROVE  Savings!Next \/ UNCHANGED Savings!vars
  OBVIOUS
<1>1. ASSUME UNCHANGED <<balance, minted>>
      PROVE  UNCHANGED Savings!vars
  BY <1>1 DEF Savings!vars
<1>2. ASSUME NEW p \in Pools, NEW s \in Users, NEW v \in Speeds, InitPool(p, s, v)
      PROVE  UNCHANGED <<balance, minted>>
  BY <1>2 DEF InitPool
<1>3. ASSUME NEW p \in Pools, RefreshPool(p)
      PROVE  UNCHANGED <<balance, minted>>
  BY <1>3 DEF RefreshPool
<1>4. CASE \/ Tick
           \/ \E p \in Pools, feed \in Feeds : OraclePublish(p, feed)
           \/ \E m \in Managers, s \in Users, o \in ManagerOwners, c \in Currencies :
                InitManager(m, s, o, c)
           \/ \E m \in Managers, o \in ManagerOwners : SetManagerOwner(m, o)
           \/ UNCHANGED vars
  BY <1>1, <1>4 DEF Tick, OraclePublish, InitManager, SetManagerOwner, vars
<1>5. ASSUME NEW p \in Pools PROVE AtPar(pool[p])
  BY DEF IInv, PoolsAtPar
<1> QED
  BY <1>1, <1>2, <1>3, <1>4, <1>5, TransferIsPayOrDonate, BurnIsGiveUp,
     DepositIsSave, RedeemIsExit DEF Next, DepositPoolLiquidity, RedeemPoolCollateral

(***************************************************************************)
(* Whatever the program does, it is saving at par: it implements the       *)
(* specification ParSavings.                                               *)
(***************************************************************************)
THEOREM ProgramImplementsParSavings == Spec => ImplementsParSavings
  BY InitImplements, StepImplements, InvariantHolds, PTL
     DEF Spec, ImplementsParSavings, Savings!Spec

(***************************************************************************)
(* Every claim is covered: the supply account of a pool always holds at    *)
(* least as much as the collateral of the pool that exists.                *)
(***************************************************************************)
THEOREM ClaimsAreCovered == Spec => []Savings!Covered
<1>1. ASSUME IInv, NEW p \in Pools
      PROVE  minted[CollateralMint(p)] <= balance[Supply(p)]
  <2>1. /\ minted[CollateralMint(p)] \in Int /\ balance[Supply(p)] \in Int
        /\ pool[p].mint_total_supply \in Int
    BY <1>1, MappedTyped, PoolKeysTyped, Widths
       DEF IInv, PoolsAtPar, AtPar, PoolRecord
  <2>2. /\ minted[CollateralMint(p)] <= pool[p].mint_total_supply
        /\ pool[p].mint_total_supply <= balance[Supply(p)]
    BY <1>1 DEF IInv, BooksInOrder, PoolsAtPar, AtPar
  <2> QED
    BY <2>1, <2>2
<1>2. IInv => Savings!Covered
  BY <1>1 DEF Savings!Covered
<1> QED
  BY <1>2, InvariantHolds, PTL

-----------------------------------------------------------------------------
(***************************************************************************)
(* The clients                                                             *)
(***************************************************************************)

\* A refresh and a deposit or a redemption in one transaction.
LEMMA ClientNextKeepsIInv == IInv /\ [ClientNext]_vars => IInv'
<1> SUFFICES ASSUME IInv, [ClientNext]_vars PROVE IInv'
  OBVIOUS
<1>1. ASSUME NEW p \in Pools, NEW a \in AccountLists, NEW n \in Amounts,
             RefreshAndDeposit(p, a, n) \/ RefreshAndRedeem(p, a, n)
      PROVE  IInv'
  <2>1. CanRefresh(p) /\ (\/ DepositFrom(p, Refreshed(p), a, n)
                          \/ RedeemFrom(p, Refreshed(p), a, n))
    BY <1>1 DEF RefreshAndDeposit, RefreshAndRedeem
  <2>2. AtPar(Refreshed(p)) /\ Refreshed(p).available_amount = pool[p].available_amount
    BY <2>1, RefreshedAtPar
  <2> QED
    BY <2>1, <2>2, DepositKeepsIInv, RedeemKeepsIInv
<1> QED
  BY <1>1, NextKeepsIInv DEF ClientNext

\* What such a transaction does to the pools.
LEMMA TransactionSettles ==
  ASSUME IInv, NEW p \in Pools, NEW a, NEW n,
         RefreshAndDeposit(p, a, n) \/ RefreshAndRedeem(p, a, n)
  PROVE  /\ CanRefresh(p) /\ slot' = slot
         /\ \A q \in Pools : q # p => pool'[q] = pool[q]
         /\ \E x, y : pool'[p] = [Refreshed(p) EXCEPT !.available_amount = x,
                                                      !.mint_total_supply = y,
                                                      !.stale = TRUE]
<1> DEFINE pl == Refreshed(p)
<1>1. /\ CanRefresh(p)
      /\ DepositFrom(p, pl, a, n) \/ RedeemFrom(p, pl, a, n)
  BY DEF RefreshAndDeposit, RefreshAndRedeem
<1>2. pl \in PoolRecord /\ pool \in [Pools -> PoolRecord]
  BY <1>1, RefreshedAtPar DEF AtPar, IInv, TypeOK
<1> HIDE DEF pl
<1>3. CASE DepositFrom(p, pl, a, n)
  <2>1. /\ pool' = [pool EXCEPT ![p] = MarkStale(DepositLiquidity(pl, Requested(a, n)))]
        /\ slot' = slot
    BY <1>3 DEF DepositFrom
  <2>2. \E x, y : MarkStale(DepositLiquidity(pl, Requested(a, n))) =
          [pl EXCEPT !.available_amount = x, !.mint_total_supply = y, !.stale = TRUE]
    BY DEF MarkStale, DepositLiquidity
  <2> QED
    BY <1>1, <1>2, <2>1, <2>2 DEF pl
<1>4. CASE RedeemFrom(p, pl, a, n)
  <2>1. /\ pool' = [pool EXCEPT ![p] = MarkStale(RedeemCollateral(pl, Requested(a, n)))]
        /\ slot' = slot
    BY <1>4 DEF RedeemFrom
  <2> DEFINE x == pl.available_amount - LiquidityFor(pl, Requested(a, n))
             y == pl.mint_total_supply - Requested(a, n)
  <2>2. RedeemCollateral(pl, Requested(a, n)) =
          [pl EXCEPT !.mint_total_supply = y, !.available_amount = x]
    BY <1>2 DEF RedeemCollateral, PoolRecord
  <2> HIDE DEF x, y
  <2>3. RedeemCollateral(pl, Requested(a, n)) =
          [pl EXCEPT !.available_amount = x, !.mint_total_supply = y]
    BY <1>2, <2>2 DEF PoolRecord
  <2>4. \E u, v : MarkStale(RedeemCollateral(pl, Requested(a, n))) =
          [pl EXCEPT !.available_amount = u, !.mint_total_supply = v, !.stale = TRUE]
    BY <2>3 DEF MarkStale
  <2> QED
    BY <1>1, <1>2, <2>1, <2>4 DEF pl
<1> QED
  BY <1>1, <1>3, <1>4

\* A step of a client takes nothing from the record of a pool either.
LEMMA ClientKeepsRecords ==
  ASSUME MInv, [ClientNext]_vars, NEW p \in Pools
  PROVE  /\ slot \in Nat /\ slot' \in Nat /\ slot <= slot'
         /\ RecordKept(p)
<1> DEFINE pl == pool[p]
<1>1. /\ IInv /\ pl \in PoolRecord /\ slot \in Nat
      /\ pl.slot \in Nat /\ pl.slot <= slot
      /\ pl.l_token_mining_index \in Nat /\ pl.borrow_mining_index \in Nat
      /\ WithinEmission(pl)
  BY MInvOfPool
<1>2. CASE [Next]_vars
  BY <1>1, <1>2, EveryStepIsAPoolStep, FieldsAcrossAStep
<1>3. ASSUME NEW q \in Pools, NEW a, NEW n,
             RefreshAndDeposit(q, a, n) \/ RefreshAndRedeem(q, a, n)
      PROVE  slot' = slot /\ RecordKept(p)
  <2>1. /\ CanRefresh(q) /\ slot' = slot
        /\ q # p => pool'[p] = pl
    BY <1>1, <1>3, TransactionSettles
  <2>2. CASE q # p
    BY <1>1, <2>1, <2>2 DEF RecordKept
  <2>3. CASE q = p
    <3> DEFINE new == Refreshed(p)
    <3>1. PICK x, y : pool'[p] = [new EXCEPT !.available_amount = x,
                                             !.mint_total_supply = y, !.stale = TRUE]
      BY <1>1, <1>3, <2>3, TransactionSettles
    <3>2. new \in PoolRecord /\ new.reentry_lock = pl.reentry_lock
      BY <1>1, <2>1, <2>3, RefreshedAtPar DEF AtPar
    <3>3. /\ new.slot = slot /\ new.version = pl.version
          /\ new.total_mining_speed = pl.total_mining_speed
          /\ new.cumulative_borrow_rate_wads = pl.cumulative_borrow_rate_wads
          /\ new.borrow_mining_index = pl.borrow_mining_index
          /\ pl.l_token_mining_index <= new.l_token_mining_index
          /\ WithinEmission(new)
      BY <1>1, <2>1, <2>3, RefreshedFields
    <3> HIDE DEF new
    <3>4. /\ pool'[p].slot = new.slot /\ pool'[p].version = new.version
          /\ pool'[p].total_mining_speed = new.total_mining_speed
          /\ pool'[p].l_token_mining_index = new.l_token_mining_index
          /\ pool'[p].borrow_mining_index = new.borrow_mining_index
          /\ pool'[p].cumulative_borrow_rate_wads = new.cumulative_borrow_rate_wads
          /\ pool'[p].reentry_lock = new.reentry_lock
      BY <3>1, <3>2 DEF PoolRecord
    <3>5. IsInitialized(pl)
      BY <2>1, <2>3 DEF CanRefresh
    <3>6. new.l_token_mining_index \in Nat /\ new.slot \in Nat
      BY <3>2, Widths DEF PoolRecord
    <3> HIDE DEF pl
    <3>7. RecordKept(p)
      BY <1>1, <3>2, <3>3, <3>4, <3>5, <3>6 DEF RecordKept, WithinEmission, Open, pl
    <3> QED
      BY <2>1, <3>7
  <2> QED
    BY <2>1, <2>2, <2>3
<1> QED
  BY <1>1, <1>2, <1>3 DEF ClientNext

LEMMA ClientNextKeepsMInv == MInv /\ [ClientNext]_vars => MInv'
<1> SUFFICES ASSUME MInv, [ClientNext]_vars PROVE MInv'
  OBVIOUS
<1>1. IInv'
  BY ClientNextKeepsIInv DEF MInv
<1>2. slot \in Nat /\ slot' \in Nat /\ slot <= slot'
  <2>1. CASE [Next]_vars
    BY <2>1, EveryStepIsAPoolStep DEF MInv
  <2>2. ASSUME NEW p \in Pools, NEW a, NEW n,
               RefreshAndDeposit(p, a, n) \/ RefreshAndRedeem(p, a, n)
        PROVE  slot \in Nat /\ slot' = slot
    <3>1. IInv /\ slot \in Nat
      BY ProcessorAssumption DEF MInv, IInv, TypeOK
    <3> QED
      BY <2>2, <3>1, TransactionSettles
  <2> QED
    BY <2>1, <2>2 DEF ClientNext
<1> QED
  BY <1>1, <1>2, ClientKeepsRecords, RecordsKeepMInv

(***************************************************************************)
(* Also when clients put refreshes in front of their instructions, the     *)
(* invariant holds: types, books, the exchange rate of one, indices within *)
(* what was emitted.                                                       *)
(***************************************************************************)
THEOREM ClientInvariantHolds == ClientSafety => []MInv
  BY InitEstablishesMInv, ClientNextKeepsMInv, PTL DEF ClientSafety

(***************************************************************************)
(* Clients too find what a pool has once recorded kept.                    *)
(***************************************************************************)
THEOREM ClientHistoryIsKept == ClientSafety => PoolHistoryKept
<1>1. MInv /\ [ClientNext]_vars
        => [\A p \in Pools : Open(p) =>
              /\ IsInitialized(pool'[p])
              /\ pool'[p].total_mining_speed = pool[p].total_mining_speed
              /\ pool'[p].l_token_mining_index >= pool[p].l_token_mining_index
              /\ pool'[p].borrow_mining_index >= pool[p].borrow_mining_index
              /\ pool'[p].slot >= pool[p].slot]_vars
  BY ClientKeepsRecords DEF Open, IsInitialized, RecordKept
<1> QED
  BY <1>1, ClientInvariantHolds, PTL DEF ClientSafety, PoolHistoryKept

LEMMA ClientStepImplements ==
  IInv /\ [ClientNext]_vars => [Savings!Next]_(Savings!vars)
<1> SUFFICES ASSUME IInv, [ClientNext]_vars
             PROVE  [Savings!Next]_(Savings!vars)
  OBVIOUS
<1>1. ASSUME NEW p \in Pools, NEW a \in AccountLists, NEW n \in Amounts,
             RefreshAndDeposit(p, a, n) \/ RefreshAndRedeem(p, a, n)
      PROVE  Savings!Next
  <2>1. CanRefresh(p) /\ (\/ DepositFrom(p, Refreshed(p), a, n)
                          \/ RedeemFrom(p, Refreshed(p), a, n))
    BY <1>1 DEF RefreshAndDeposit, RefreshAndRedeem
  <2>2. AtPar(Refreshed(p))
    BY <2>1, RefreshedAtPar
  <2> QED
    BY <2>1, <2>2, DepositIsSave, RedeemIsExit
<1> QED
  BY <1>1, StepImplements DEF ClientNext

(***************************************************************************)
(* A transaction of a refresh and a deposit is one Save, and one of a      *)
(* refresh and a redemption one Exit: what clients do is saving at par.    *)
(***************************************************************************)
THEOREM ClientImplementsParSavings == ClientSafety => ImplementsParSavings
<1>1. MInv => IInv
  BY DEF MInv
<1> QED
  BY <1>1, InitImplements, ClientStepImplements, ClientInvariantHolds, PTL
     DEF ClientSafety, ImplementsParSavings, Savings!Spec

-----------------------------------------------------------------------------
(***************************************************************************)
(* Tokens are conserved                                                    *)
(***************************************************************************)

\* What the accounts of mint m hold together, with balances b.
Held(b, m) ==
  SumFunctionOnSet([t \in TokenAccounts |-> IF MintOf[t] = m THEN b[t] ELSE 0],
                   TokenAccounts)

(***************************************************************************)
(* Every mint has issued exactly what has been added to its accounts.  The *)
(* accounts of collateral start empty, so that all savers together hold    *)
(* what the token program says exists: collateral comes from deposits and  *)
(* goes in redemptions and burns, and nowhere else.                        *)
(***************************************************************************)
Conserved ==
  \A m \in Mints :
    Held(balance, m) - minted[m] = Held(InitialBalance, m) - InitialSupply[m]

\* A credit and a debit change what is held of one mint.
LEMMA HeldChange ==
  ASSUME NEW b \in [TokenAccounts -> Int], NEW d \in TokenAccounts, NEW n \in Int,
         NEW m
  PROVE  /\ Held(b, m) \in Int
         /\ Held(Credited(b, d, n), m) = Held(b, m) + (IF MintOf[d] = m THEN n ELSE 0)
         /\ Held(Debited(b, d, n), m) = Held(b, m) - (IF MintOf[d] = m THEN n ELSE 0)
<1> DEFINE f(x) == [t \in TokenAccounts |-> IF MintOf[t] = m THEN x[t] ELSE 0]
           c == Credited(b, d, n)
           e == Debited(b, d, n)
<1>1. /\ c \in [TokenAccounts -> Int] /\ e \in [TokenAccounts -> Int]
      /\ \A t \in TokenAccounts : /\ c[t] = IF t = d THEN b[t] + n ELSE b[t]
                                  /\ e[t] = IF t = d THEN b[t] - n ELSE b[t]
  BY CreditEffect
<1> HIDE DEF c, e
<1>2. ASSUME NEW x \in [TokenAccounts -> Int]
      PROVE  \A t \in TokenAccounts : f(x)[t] \in Int
  BY <1>2
<1>3. \A t \in TokenAccounts \ {d} : f(c)[t] = f(b)[t] /\ f(e)[t] = f(b)[t]
  BY <1>1
<1>4. /\ f(c)[d] - f(b)[d] = (IF MintOf[d] = m THEN n ELSE 0)
      /\ f(e)[d] - f(b)[d] = 0 - (IF MintOf[d] = m THEN n ELSE 0)
  BY <1>1
<1>5. Held(b, m) \in Int
  BY <1>2, SumType, SavingAssumption DEF Held
<1>6. /\ Held(c, m) = Held(b, m) + (f(c)[d] - f(b)[d])
      /\ Held(e, m) = Held(b, m) + (f(e)[d] - f(b)[d])
  <2> DEFINE g == f(b)
             h == f(c)
             k == f(e)
  <2>1. \A t \in TokenAccounts : g[t] \in Int /\ h[t] \in Int /\ k[t] \in Int
    BY <1>1, <1>2
  <2>2. \A t \in TokenAccounts \ {d} : h[t] = g[t] /\ k[t] = g[t]
    BY <1>3
  <2>3. /\ Held(b, m) = SumFunctionOnSet(g, TokenAccounts)
        /\ Held(c, m) = SumFunctionOnSet(h, TokenAccounts)
        /\ Held(e, m) = SumFunctionOnSet(k, TokenAccounts)
    BY DEF Held
  <2> HIDE DEF g, h, k
  <2>4. /\ SumFunctionOnSet(h, TokenAccounts)
             = SumFunctionOnSet(g, TokenAccounts) + (h[d] - g[d])
        /\ SumFunctionOnSet(k, TokenAccounts)
             = SumFunctionOnSet(g, TokenAccounts) + (k[d] - g[d])
    BY <2>1, <2>2, SumChange, SavingAssumption
  <2> QED
    BY <2>3, <2>4 DEF g, h, k
<1> HIDE DEF f
<1>7. n \in Int /\ (IF MintOf[d] = m THEN n ELSE 0) \in Int
  OBVIOUS
<1> QED
  BY <1>4, <1>5, <1>6, <1>7 DEF c, e

\* A transfer between accounts of one mint changes nothing that is held.
LEMMA HeldTransferred ==
  ASSUME NEW b \in [TokenAccounts -> Int], NEW n \in Int, NEW m,
         NEW s \in TokenAccounts, NEW d \in TokenAccounts, MintOf[s] = MintOf[d]
  PROVE  /\ Transferred(b, s, d, n) \in [TokenAccounts -> Int]
         /\ Held(Transferred(b, s, d, n), m) = Held(b, m)
<1>1. Debited(b, s, n) \in [TokenAccounts -> Int]
  BY CreditEffect
<1>2. /\ Held(b, m) \in Int
      /\ Held(Debited(b, s, n), m) = Held(b, m) - (IF MintOf[s] = m THEN n ELSE 0)
  BY HeldChange
<1>3. /\ Credited(Debited(b, s, n), d, n) \in [TokenAccounts -> Int]
      /\ Held(Credited(Debited(b, s, n), d, n), m)
           = Held(Debited(b, s, n), m) + (IF MintOf[d] = m THEN n ELSE 0)
  BY <1>1, HeldChange, CreditEffect
<1> QED
  BY <1>2, <1>3 DEF Transferred

\* No account holds more than all accounts of its mint do.
LEMMA HeldCovers ==
  ASSUME NEW b \in [TokenAccounts -> Nat], NEW t \in TokenAccounts
  PROVE  b[t] <= Held(b, MintOf[t])
<1> DEFINE f == [x \in TokenAccounts |-> IF MintOf[x] = MintOf[t] THEN b[x] ELSE 0]
           others == TokenAccounts \ {t}
<1>1. \A x \in TokenAccounts : f[x] \in Nat /\ f[x] \in Int
  OBVIOUS
<1>2. f[t] = b[t]
  OBVIOUS
<1>3. IsFiniteSet(others)
  BY FS_RemoveElement, SavingAssumption
<1> HIDE DEF f
<1>4. SumFunctionOnSet(f, TokenAccounts) = f[t] + SumFunctionOnSet(f, others)
  BY <1>1, SumRemove, SavingAssumption
<1>5. SumFunctionOnSet(f, others) \in Nat
  BY <1>1, <1>3, SumNatural
<1> QED
  BY <1>1, <1>2, <1>4, <1>5 DEF Held, f

\* A step that issues and destroys tokens as it credits and debits them.
Balanced ==
  \A m \in Mints : Held(balance', m) - minted'[m] = Held(balance, m) - minted[m]

LEMMA DepositIsBalanced ==
  ASSUME IInv, NEW p \in Pools, NEW a \in AccountLists, NEW amount \in Amounts,
         NEW pl, AtPar(pl), DepositFrom(p, pl, a, amount)
  PROVE  Balanced
<1>0. PICK n \in 0..MaxU64 : n = Requested(a, amount)
  BY RequestedTyped DEF IInv
<1>1. CollateralFor(pl, n) = n
  BY <1>0, DepositBalances
<1>2. /\ MintOf[a.source] = MintOf[a.supply] /\ MintOf[a.destination] = a.mint
      /\ balance' = Credited(Transferred(balance, a.source, a.supply, n), a.destination, n)
      /\ minted' = [minted EXCEPT ![a.mint] = @ + n]
  BY <1>0, <1>1 DEF DepositFrom, CanTransfer, CanMintTo
<1>3. /\ a.source \in TokenAccounts /\ a.destination \in TokenAccounts
      /\ a.supply \in TokenAccounts /\ a.mint \in Mints
      /\ n \in Int /\ balance \in [TokenAccounts -> Int]
      /\ minted \in [Mints -> Int]
  BY AccountListTyped, MappedTyped, Widths
<1> SUFFICES ASSUME NEW m \in Mints
             PROVE  Held(balance', m) - minted'[m] = Held(balance, m) - minted[m]
  BY DEF Balanced
<1>4. /\ Held(balance, m) \in Int
      /\ Held(balance', m) = Held(balance, m) + (IF a.mint = m THEN n ELSE 0)
  <2>1. PICK s \in TokenAccounts, v \in TokenAccounts, d \in TokenAccounts :
          s = a.source /\ v = a.supply /\ d = a.destination
    BY <1>3
  <2>2. MintOf[s] = MintOf[v] /\ MintOf[d] = a.mint
    BY <1>2, <2>1
  <2>3. PICK b \in [TokenAccounts -> Int] : b = balance
    BY <1>3
  <2>4. ASSUME NEW k \in Int
        PROVE  Held(Credited(Transferred(b, s, v, k), d, k), m)
                 = Held(b, m) + (IF MintOf[d] = m THEN k ELSE 0)
    <3>1. MintOf[s] = MintOf[v]
      BY <2>2
    <3>2. PICK x \in [TokenAccounts -> Int] : x = Transferred(b, s, v, k)
      BY <3>1, HeldTransferred
    <3>3. Held(x, m) = Held(b, m)
      BY <3>1, <3>2, HeldTransferred
    <3>4. Held(Credited(x, d, k), m) = Held(x, m) + (IF MintOf[d] = m THEN k ELSE 0)
      BY HeldChange
    <3> QED
      BY <3>2, <3>3, <3>4
  <2>5. Held(b, m) \in Int
    BY <1>3, HeldChange
  <2> QED
    BY <1>2, <1>3, <2>1, <2>2, <2>3, <2>4, <2>5
<1>5. minted'[m] = minted[m] + (IF a.mint = m THEN n ELSE 0)
  BY <1>2, <1>3
<1> QED
  BY <1>3, <1>4, <1>5

LEMMA RedeemIsBalanced ==
  ASSUME IInv, NEW p \in Pools, NEW a \in AccountLists, NEW amount \in Amounts,
         NEW pl, AtPar(pl), RedeemFrom(p, pl, a, amount)
  PROVE  Balanced
<1>0. PICK n \in 0..MaxU64 : n = Requested(a, amount)
  BY RequestedTyped DEF IInv
<1>1. LiquidityFor(pl, n) = n
  BY LiquidityForAtPar
<1>2. /\ MintOf[a.source] = a.mint /\ MintOf[a.supply] = MintOf[a.destination]
      /\ balance' = Transferred(Debited(balance, a.source, n), a.supply, a.destination, n)
      /\ minted' = [minted EXCEPT ![a.mint] = @ - n]
  BY <1>0, <1>1 DEF RedeemFrom, CanTransfer, CanBurn
<1>3. /\ a.source \in TokenAccounts /\ a.destination \in TokenAccounts
      /\ a.supply \in TokenAccounts /\ a.mint \in Mints
      /\ n \in Int /\ balance \in [TokenAccounts -> Int]
      /\ minted \in [Mints -> Int]
  BY AccountListTyped, MappedTyped, Widths
<1> SUFFICES ASSUME NEW m \in Mints
             PROVE  Held(balance', m) - minted'[m] = Held(balance, m) - minted[m]
  BY DEF Balanced
<1>4. /\ Held(balance, m) \in Int
      /\ Held(balance', m) = Held(balance, m) - (IF a.mint = m THEN n ELSE 0)
  <2>1. PICK s \in TokenAccounts, v \in TokenAccounts, d \in TokenAccounts :
          s = a.source /\ v = a.supply /\ d = a.destination
    BY <1>3
  <2>2. MintOf[v] = MintOf[d] /\ MintOf[s] = a.mint
    BY <1>2, <2>1
  <2>3. PICK b \in [TokenAccounts -> Int] : b = balance
    BY <1>3
  <2>4. ASSUME NEW k \in Int
        PROVE  Held(Transferred(Debited(b, s, k), v, d, k), m)
                 = Held(b, m) - (IF MintOf[s] = m THEN k ELSE 0)
    <3>1. MintOf[v] = MintOf[d]
      BY <2>2
    <3>2. PICK x \in [TokenAccounts -> Int] : x = Debited(b, s, k)
      BY CreditEffect
    <3>3. Held(x, m) = Held(b, m) - (IF MintOf[s] = m THEN k ELSE 0)
      BY <3>2, HeldChange
    <3>4. Held(Transferred(x, v, d, k), m) = Held(x, m)
      BY <3>1, HeldTransferred
    <3> QED
      BY <3>2, <3>3, <3>4
  <2>5. Held(b, m) \in Int
    BY <1>3, HeldChange
  <2> QED
    BY <1>2, <1>3, <2>1, <2>2, <2>3, <2>4, <2>5
<1>5. minted'[m] = minted[m] - (IF a.mint = m THEN n ELSE 0)
  BY <1>2, <1>3
<1> QED
  BY <1>3, <1>4, <1>5

LEMMA UserStepIsBalanced ==
  ASSUME IInv, NEW u \in Users, NEW s \in TokenAccounts, NEW d \in TokenAccounts,
         NEW n \in Amounts, Transfer(u, s, d, n) \/ Burn(u, s, n)
  PROVE  Balanced
<1>1. /\ n \in Int /\ balance \in [TokenAccounts -> Int]
      /\ minted \in [Mints -> Int] /\ MintOf[s] \in Mints
  BY MappedTyped, Widths, ProcessorAssumption, TokenAssumption
<1>2. CASE Transfer(u, s, d, n)
  <2>1. /\ MintOf[s] = MintOf[d] /\ balance' = Transferred(balance, s, d, n)
        /\ minted' = minted
    BY <1>2 DEF Transfer, UserTransfer, CanTransfer
  <2> QED
    BY <1>1, <2>1, HeldTransferred DEF Balanced
<1>3. CASE Burn(u, s, n)
  <2>1. /\ balance' = Debited(balance, s, n)
        /\ minted' = [minted EXCEPT ![MintOf[s]] = @ - n]
    BY <1>3 DEF Burn, UserBurn
  <2> SUFFICES ASSUME NEW m \in Mints
               PROVE  Held(balance', m) - minted'[m] = Held(balance, m) - minted[m]
    BY DEF Balanced
  <2>2. /\ Held(balance, m) \in Int
        /\ Held(balance', m) = Held(balance, m) - (IF MintOf[s] = m THEN n ELSE 0)
    BY <1>1, <2>1, HeldChange
  <2>3. minted'[m] = minted[m] - (IF MintOf[s] = m THEN n ELSE 0)
    BY <1>1, <2>1
  <2> QED
    BY <1>1, <2>2, <2>3
<1> QED
  BY <1>2, <1>3

\* No instruction, alone or behind a refresh, and no holder makes or loses
\* tokens.
LEMMA ClientStepIsBalanced ==
  ASSUME IInv, [ClientNext]_vars
  PROVE  Balanced
<1>1. ASSUME UNCHANGED <<balance, minted>> PROVE Balanced
  BY <1>1 DEF Balanced
<1>2. ASSUME NEW p \in Pools, NEW a \in AccountLists, NEW n \in Amounts,
             RefreshAndDeposit(p, a, n) \/ RefreshAndRedeem(p, a, n)
      PROVE  Balanced
  <2>1. CanRefresh(p) /\ (\/ DepositFrom(p, Refreshed(p), a, n)
                          \/ RedeemFrom(p, Refreshed(p), a, n))
    BY <1>2 DEF RefreshAndDeposit, RefreshAndRedeem
  <2>2. AtPar(Refreshed(p))
    BY <2>1, RefreshedAtPar
  <2> QED
    BY <2>1, <2>2, DepositIsBalanced, RedeemIsBalanced
<1>3. ASSUME NEW p \in Pools, NEW a \in AccountLists, NEW n \in Amounts,
             DepositPoolLiquidity(p, a, n) \/ RedeemPoolCollateral(p, a, n)
      PROVE  Balanced
  <2>1. AtPar(pool[p])
    BY DEF IInv, PoolsAtPar
  <2> QED
    BY <1>3, <2>1, DepositIsBalanced, RedeemIsBalanced
       DEF DepositPoolLiquidity, RedeemPoolCollateral
<1>4. CASE \/ Tick
           \/ \E p \in Pools, feed \in Feeds : OraclePublish(p, feed)
           \/ \E m \in Managers, s \in Users, o \in ManagerOwners, c \in Currencies :
                InitManager(m, s, o, c)
           \/ \E m \in Managers, o \in ManagerOwners : SetManagerOwner(m, o)
           \/ UNCHANGED vars
  BY <1>1, <1>4 DEF Tick, OraclePublish, InitManager, SetManagerOwner, vars
<1>5. ASSUME NEW p \in Pools, NEW s \in Users, NEW v \in Speeds, InitPool(p, s, v)
      PROVE  Balanced
  BY <1>1, <1>5 DEF InitPool
<1>6. ASSUME NEW p \in Pools, RefreshPool(p) PROVE Balanced
  BY <1>1, <1>6 DEF RefreshPool
<1>7. CASE \/ \E u \in Users, s, d \in TokenAccounts, n \in Amounts : Transfer(u, s, d, n)
           \/ \E u \in Users, s \in TokenAccounts, n \in Amounts : Burn(u, s, n)
  BY <1>7, UserStepIsBalanced
<1> QED
  BY <1>2, <1>3, <1>4, <1>5, <1>6, <1>7 DEF ClientNext, Next

-----------------------------------------------------------------------------
(***************************************************************************)
(* Managers, locks, and what the savers hold                               *)
(***************************************************************************)

\* An open pool has a manager, and no lock is ever closed.
ManagersKnown == \A p \in Pools : Open(p) => ManagerInitialized(Wiring[p].manager)
NeverLocked   == \A p \in Pools : ~pool[p].reentry_lock

WInv == MInv /\ ManagersKnown /\ NeverLocked /\ Conserved

\* A manager that is initialised is written by no step.
LEMMA ManagersKept ==
  ASSUME TypeOK, [ClientNext]_vars, NEW m \in Managers, ManagerInitialized(m)
  PROVE  manager'[m] = manager[m]
<1>1. ASSUME manager' = manager PROVE manager'[m] = manager[m]
  BY <1>1
<1>2. ASSUME NEW k \in Managers, NEW s \in Users, NEW o \in ManagerOwners,
             NEW c \in Currencies, InitManager(k, s, o, c)
      PROVE  manager'[m] = manager[m]
  <2>1. k # m
    BY <1>2 DEF InitManager, InitPoolingManager
  <2> QED
    BY <1>2, <2>1 DEF InitManager, InitPoolingManager, TypeOK, ManagerTypeOK
<1>3. ASSUME NEW p, NEW pl, NEW a, NEW n,
             DepositFrom(p, pl, a, n) \/ RedeemFrom(p, pl, a, n)
      PROVE  manager' = manager
  BY <1>3 DEF DepositFrom, RedeemFrom
<1>4. ASSUME NEW p, NEW a, NEW n,
             \/ RefreshAndDeposit(p, a, n) \/ RefreshAndRedeem(p, a, n)
             \/ DepositPoolLiquidity(p, a, n) \/ RedeemPoolCollateral(p, a, n)
      PROVE  manager' = manager
  BY <1>3, <1>4 DEF RefreshAndDeposit, RefreshAndRedeem, DepositPoolLiquidity,
                    RedeemPoolCollateral
<1>5. ASSUME NEW p, NEW s, NEW v, InitPool(p, s, v) \/ RefreshPool(p)
      PROVE  manager' = manager
  BY <1>5 DEF InitPool, RefreshPool
<1>6. CASE \/ Tick
           \/ \E p \in Pools, feed \in Feeds : OraclePublish(p, feed)
           \/ \E u \in Users, s, d \in TokenAccounts, n \in Amounts : Transfer(u, s, d, n)
           \/ \E u \in Users, s \in TokenAccounts, n \in Amounts : Burn(u, s, n)
           \/ \E k \in Managers, o \in ManagerOwners : SetManagerOwner(k, o)
           \/ UNCHANGED vars
  BY <1>1, <1>6 DEF Tick, OraclePublish, Transfer, Burn, SetManagerOwner,
                    SetPoolingManagerOwner, vars
<1> QED
  BY <1>1, <1>2, <1>4, <1>5, <1>6 DEF ClientNext, Next

\* A pool is opened under an initialised manager, and stays so.
LEMMA ManagersKnownKept ==
  ASSUME MInv, ManagersKnown, [ClientNext]_vars
  PROVE  ManagersKnown'
<1> SUFFICES ASSUME NEW p \in Pools, Open(p)'
             PROVE  ManagerInitialized(Wiring[p].manager)'
  BY DEF ManagersKnown
<1>1. Wiring[p].manager \in Managers /\ TypeOK
  BY PoolKeysTyped DEF MInv, IInv
<1>2. ManagerInitialized(Wiring[p].manager)
  <2>1. CASE Open(p)
    BY <2>1 DEF ManagersKnown
  <2>2. CASE ~Open(p) /\ [Next]_vars
    <3>1. PoolStep(p)
      BY <2>2, EveryStepIsAPoolStep DEF MInv
    <3>2. pool'[p] # pool[p] /\ ~CanRefresh(p) /\ ~Settled(p)
      BY <2>2 DEF Open, CanRefresh, Settled
    <3> QED
      BY <3>1, <3>2 DEF PoolStep, Begun
  <2>3. ASSUME NEW q \in Pools, NEW a, NEW n,
               RefreshAndDeposit(q, a, n) \/ RefreshAndRedeem(q, a, n)
        PROVE  Open(p)
    <3>1. CanRefresh(q) /\ (q # p => pool'[p] = pool[p])
      BY <2>3, TransactionSettles DEF MInv
    <3> QED
      BY <3>1 DEF CanRefresh, Open
  <2> QED
    BY <2>1, <2>2, <2>3 DEF ClientNext
<1>3. manager'[Wiring[p].manager] = manager[Wiring[p].manager]
  BY <1>1, <1>2, ManagersKept
<1> QED
  BY <1>2, <1>3 DEF ManagerInitialized

LEMMA InitEstablishesWInv == Init => WInv
<1> SUFFICES ASSUME Init PROVE WInv
  OBVIOUS
<1>1. \A p \in Pools : pool[p] = UninitializedPool
  BY DEF Init
<1>2. ManagersKnown /\ NeverLocked
  BY <1>1 DEF ManagersKnown, NeverLocked, Open, IsInitialized, UninitializedPool
<1>3. Conserved
  BY DEF Init, Conserved
<1> QED
  BY <1>2, <1>3, InitEstablishesMInv DEF WInv

LEMMA ClientNextKeepsWInv == WInv /\ [ClientNext]_vars => WInv'
<1> SUFFICES ASSUME WInv, [ClientNext]_vars PROVE WInv'
  OBVIOUS
<1>1. MInv /\ IInv /\ MInv'
  BY ClientNextKeepsMInv DEF WInv, MInv
<1>2. ManagersKnown'
  BY <1>1, ManagersKnownKept DEF WInv
<1>3. NeverLocked'
  BY <1>1, ClientKeepsRecords DEF WInv, NeverLocked, RecordKept
<1>4. Conserved'
  <2>1. Balanced
    BY <1>1, ClientStepIsBalanced
  <2> QED
    BY <2>1 DEF WInv, Conserved, Balanced
<1> QED
  BY <1>1, <1>2, <1>3, <1>4 DEF WInv

THEOREM WayOutInvariantHolds == ClientSafety => []WInv
  BY InitEstablishesWInv, ClientNextKeepsWInv, PTL DEF ClientSafety

(***************************************************************************)
(* Tokens are conserved: whatever clients and holders do, what the token   *)
(* program says is outstanding of a mint differs from what its accounts    *)
(* hold by what it differed at the start.  Of collateral that is nothing.  *)
(***************************************************************************)
THEOREM TokensAreConserved == ClientSafety => []Conserved
  BY WayOutInvariantHolds, PTL DEF WInv

-----------------------------------------------------------------------------
(***************************************************************************)
(* The way out                                                             *)
(***************************************************************************)

\* What an account of collateral holds is outstanding, and on the books.
LEMMA CollateralIsOutstanding ==
  ASSUME WInv, NEW p \in Pools, NEW t \in TokenAccounts,
         MintOf[t] = CollateralMint(p)
  PROVE  /\ balance[t] \in 0..MaxU64 /\ minted[CollateralMint(p)] \in 0..MaxU64
         /\ pool[p].mint_total_supply \in 0..MaxU64
         /\ pool[p].available_amount = pool[p].mint_total_supply
         /\ balance[t] <= minted[CollateralMint(p)]
         /\ balance[t] <= pool[p].mint_total_supply
         /\ balance[t] <= balance[Supply(p)] /\ balance[Supply(p)] \in 0..MaxU64
<1>1. PICK c \in Mints : c = CollateralMint(p)
  BY PoolKeysTyped
<1>2. IInv
  BY DEF WInv, MInv
<1>3. /\ balance[t] \in 0..MaxU64 /\ minted[c] \in 0..MaxU64
      /\ balance[Supply(p)] \in 0..MaxU64
  BY <1>2, MappedTyped, PoolKeysTyped
<1>4. pool[p].mint_total_supply \in 0..MaxU64
      /\ pool[p].available_amount = pool[p].mint_total_supply
  BY <1>2 DEF IInv, PoolsAtPar, AtPar, PoolRecord
<1>5. minted[c] <= pool[p].mint_total_supply
      /\ pool[p].available_amount <= balance[Supply(p)]
  BY <1>1, <1>2 DEF IInv, BooksInOrder
<1>6. Held(InitialBalance, c) = 0
  <2> DEFINE f == [x \in TokenAccounts |-> IF MintOf[x] = c THEN InitialBalance[x] ELSE 0]
             z == [x \in TokenAccounts |-> 0]
  <2>1. \A x \in TokenAccounts : f[x] \in Int /\ f[x] = 0
    BY <1>1, WiringAssumption
  <2>2. \A x \in TokenAccounts : f[x] \in Int /\ z[x] \in Int /\ 1 * f[x] <= 0 * z[x]
                                 /\ (-1) * f[x] <= 0 * z[x]
    BY <2>1
  <2> HIDE DEF f, z
  <2>3. SumFunctionOnSet(f, TokenAccounts) \in Int
    BY <2>1, SumType, SavingAssumption
  <2>4. SumFunctionOnSet(z, TokenAccounts) \in Int
    BY <2>2, SumType, SavingAssumption
  <2>5. 1 * SumFunctionOnSet(f, TokenAccounts) <= 0 * SumFunctionOnSet(z, TokenAccounts)
    BY <2>2, SumScaled, SavingAssumption
  <2>6. (-1) * SumFunctionOnSet(f, TokenAccounts) <= 0 * SumFunctionOnSet(z, TokenAccounts)
    BY <2>2, SumScaled, SavingAssumption
  <2>7. SumFunctionOnSet(f, TokenAccounts) = 0
    BY <2>3, <2>4, <2>5, <2>6
  <2> QED
    BY <2>7 DEF Held, f
<1>7. Held(balance, c) - minted[c] = 0
  BY <1>1, <1>6, SupplyAssumption DEF WInv, Conserved
<1>8. balance[t] <= Held(balance, c) /\ Held(balance, c) \in Int
  <2>1. PICK b \in [TokenAccounts -> Nat] : b = balance
    BY <1>2, MappedTyped, Widths
  <2>2. b[t] <= Held(b, MintOf[t])
    BY HeldCovers
  <2>3. \A x \in TokenAccounts : b[x] \in Int
    BY Widths
  <2>4. PICK e \in [TokenAccounts -> Int] : e = b
    BY <2>3
  <2>5. Held(e, c) \in Int
    BY HeldChange
  <2> QED
    BY <1>1, <2>1, <2>2, <2>4, <2>5
<1>9. balance[t] <= minted[c]
  BY <1>3, <1>7, <1>8, Widths
<1> QED
  BY <1>1, <1>3, <1>4, <1>5, <1>9, Widths

\* A pool at par can be packed.
LEMMA AtParIsPacked ==
  ASSUME NEW pl, AtPar(pl)
  PROVE  CanPack(pl)
<1>1. /\ pl.borrowed_amount_wads \in 0..MaxU128
      /\ pl.cumulative_borrow_rate_wads \in 0..MaxU128
      /\ pl.market_price \in 0..MaxU128 /\ pl.owner_unclaimed \in 0..MaxU128
      /\ pl.l_token_mining_index \in 0..MaxU128
      /\ pl.borrow_mining_index \in 0..MaxU128
  BY DEF AtPar, PoolRecord
<1>2. ASSUME NEW x \in 0..MaxU128 PROVE ToScaledVal(x) # Err
  BY Widths, CheckedResult DEF ToScaledVal, Err
<1> QED
  BY <1>1, <1>2 DEF CanPack

LEMMA TheWayOutIsOpenNow == WInv => WayOut
<1> SUFFICES ASSUME WInv, NEW p \in Pools, NEW a \in ProperLists(p),
                    balance[a.source] > 0,
                    balance[a.destination] + balance[a.source] <= MaxU64,
                    UsablePrice(p), WithinHorizon(p)
             PROVE  CanLeave(p, a)
  BY DEF WayOut
<1> DEFINE n  == balance[a.source]
           pl == Refreshed(p)
<1>1. /\ a \in AccountLists
      /\ MintOf[a.source] = CollateralMint(p) /\ a.signer = OwnerOf[a.source]
      /\ a.manager = Wiring[p].manager /\ a.authority = PoolAuthority[a.manager]
      /\ a.supply = Supply(p) /\ a.mint = CollateralMint(p)
      /\ a.source # Wiring[p].collateral_supply
      /\ MintOf[a.destination] = Wiring[p].liquidity_mint
      /\ OwnerOf[a.destination] = OwnerOf[a.source]
  BY DEF ProperLists, Leavers
<1>2. /\ a.source \in TokenAccounts /\ a.destination \in TokenAccounts
      /\ a.signer \in Users
  BY <1>1, AccountListTyped
<1>3. MInv /\ IInv
  BY DEF WInv, MInv
<1>4. /\ n \in 0..MaxU64 /\ minted[CollateralMint(p)] \in 0..MaxU64
      /\ pool[p].mint_total_supply \in 0..MaxU64
      /\ pool[p].available_amount = pool[p].mint_total_supply
      /\ n <= minted[CollateralMint(p)] /\ n <= pool[p].mint_total_supply
      /\ n <= balance[Supply(p)] /\ balance[Supply(p)] \in 0..MaxU64
  BY <1>1, <1>2, CollateralIsOutstanding
<1>5. Open(p)
  BY <1>3, <1>4, Widths DEF IInv, NothingBeforeInit
<1>6. CanRefresh(p)
  BY <1>3, <1>5, RefreshIsPossible
<1>7. /\ AtPar(pl) /\ pl.slot = slot /\ pl.version = pool[p].version
      /\ pl.available_amount = pool[p].available_amount
      /\ pl.reentry_lock = pool[p].reentry_lock /\ ~pl.stale
  BY <1>3, <1>6, RefreshedAtPar
<1>8. Requested(a, MaxU64) = n
  BY DEF Requested
<1> HIDE DEF pl
<1>9. pl.available_amount = pl.mint_total_supply
  BY <1>7 DEF AtPar
<1> HIDE DEF n
<1>10. n \in 0..pl.mint_total_supply
  BY <1>4, <1>7, <1>9, Widths
<1>11. CanRedeem(pl, n) /\ LiquidityFor(pl, n) = n
  BY <1>7, <1>10, CanRedeemAtPar
<1>12. CanPack(MarkStale(RedeemCollateral(pl, n)))
  BY <1>4, <1>7, <1>11, RedeemAtPar, AtParIsPacked
<1>13. Accepts(p, pl, a)
  <2>1. ManagerInitialized(a.manager) /\ ~pool[p].reentry_lock
    BY <1>1, <1>5 DEF WInv, ManagersKnown, NeverLocked
  <2>2. IsInitialized(pl)
    BY <1>5, <1>7 DEF Open, IsInitialized
  <2>3. Fresh(pl, slot)
    <3>1. slot \in Nat
      BY <1>3, MInvOfPool
    <3> QED
      BY <1>7, <3>1 DEF Fresh, SlotsElapsed, StaleAfterSlotsElapsed, Err
  <2> QED
    BY <1>1, <1>7, <2>1, <2>2, <2>3 DEF Accepts
<1>14. a.destination # Supply(p)
  BY <1>1, <1>2, SuppliesAreNotOwnedByUsers
<1>15. CanBurn(a.mint, a.source, a.signer, n)
  BY <1>1, <1>4 DEF CanBurn, n
<1>16. CanTransfer(a.supply, a.destination, a.authority, n)
  <2>1. /\ MintOf[Supply(p)] = Wiring[p].liquidity_mint
        /\ OwnerOf[Supply(p)] = PoolAuthority[Wiring[p].manager]
    BY PoolKeysTyped
  <2>2. balance[a.destination] + n <= TokenLimit
    BY ProcessorAssumption DEF n
  <2> QED
    BY <1>1, <1>4, <2>1, <2>2 DEF CanTransfer
<1> QED
  BY <1>1, <1>6, <1>8, <1>11, <1>12, <1>13, <1>14, <1>15, <1>16 DEF CanLeave, pl

(***************************************************************************)
(* The way out is never blocked: whatever happened before, a saver with    *)
(* collateral and room passes every check of a redemption of all of it     *)
(* behind a refresh, given a usable price and an index within its width.   *)
(***************************************************************************)
THEOREM TheWayOutIsOpen == ClientSafety => []WayOut
  BY TheWayOutIsOpenNow, WayOutInvariantHolds, PTL

\* CanLeave is what Leave checks: where it holds, Leave has a step to take.
LEMMA LeaveIsItsChecks ==
  ASSUME IInv, NEW p \in Pools, NEW a \in AccountLists
  PROVE  Leave(p, a) <=>
           /\ CanLeave(p, a)
           /\ LET n  == Requested(a, MaxU64)
                  pl == Refreshed(p)
              IN  /\ pool' = [pool EXCEPT ![p] = MarkStale(RedeemCollateral(pl, n))]
                  /\ balance' = Transferred(Debited(balance, a.source, n), a.supply,
                                            a.destination, LiquidityFor(pl, n))
                  /\ minted' = [minted EXCEPT ![a.mint] = @ - n]
                  /\ UNCHANGED <<slot, oracle, manager>>
<1>1. MaxU64 # 0
  BY Widths
<1>2. Requested(a, MaxU64) <= balance[a.source]
  <2>1. balance[a.source] \in Int
    BY AccountListTyped, MappedTyped
  <2> QED
    BY <2>1 DEF Requested
<1> QED
  BY <1>1, <1>2 DEF Leave, RefreshAndRedeem, RedeemFrom, CanLeave

\* What a saver who leaves is left with.
LEMMA LeavePaysAll ==
  ASSUME IInv, NEW p \in Pools, NEW a \in ProperLists(p), Leave(p, a)
  PROVE  /\ balance'[a.source] = 0
         /\ balance'[a.destination] = balance[a.destination] + balance[a.source]
<1>1. PICK n \in Int : n = balance[a.source]
  BY AccountListTyped, MappedTyped DEF ProperLists, Leavers
<1>2. CanRefresh(p) /\ RedeemFrom(p, Refreshed(p), a, MaxU64)
  BY DEF Leave, RefreshAndRedeem
<1>3. PICK pl : pl = Refreshed(p) /\ AtPar(pl)
  BY <1>2, RefreshedAtPar
<1>4. /\ a \in AccountLists /\ a.signer = OwnerOf[a.source]
      /\ MintOf[a.source] = CollateralMint(p) /\ a.supply = Supply(p)
      /\ MintOf[a.destination] = Wiring[p].liquidity_mint
      /\ OwnerOf[a.destination] = OwnerOf[a.source]
  BY DEF ProperLists, Leavers
<1>5. Requested(a, MaxU64) = n /\ n \in 0..MaxU64
  BY <1>1, <1>4, AccountListTyped, MappedTyped DEF Requested
<1>6. LiquidityFor(pl, n) = n
  BY <1>3, <1>5, LiquidityForAtPar
<1>7. balance' = Transferred(Debited(balance, a.source, n), a.supply, a.destination, n)
  BY <1>2, <1>3, <1>5, <1>6 DEF RedeemFrom
<1>8. PICK s \in TokenAccounts, v \in TokenAccounts, d \in TokenAccounts :
        s = a.source /\ v = a.supply /\ d = a.destination
  BY <1>4, AccountListTyped
<1>9. s # v /\ v # d /\ s # d
  <2>1. OwnerOf[s] \in Users /\ OwnerOf[d] \in Users
    BY <1>4, <1>8, AccountListTyped
  <2>2. MintOf[s] # MintOf[d]
    BY <1>4, <1>8, WiringAssumption
  <2> QED
    BY <1>4, <1>8, <2>1, <2>2, SuppliesAreNotOwnedByUsers
<1>10. PICK b \in [TokenAccounts -> Int] : b = balance
  BY MappedTyped, Widths
<1>11. PICK x \in [TokenAccounts -> Int] :
         /\ x = Debited(b, s, n)
         /\ \A t \in TokenAccounts : x[t] = IF t = s THEN b[t] - n ELSE b[t]
  BY CreditEffect
<1>12. PICK y \in [TokenAccounts -> Int] :
         /\ y = Debited(x, v, n)
         /\ \A t \in TokenAccounts : y[t] = IF t = v THEN x[t] - n ELSE x[t]
  BY CreditEffect
<1>13. PICK z \in [TokenAccounts -> Int] :
         /\ z = Credited(y, d, n)
         /\ \A t \in TokenAccounts : z[t] = IF t = d THEN y[t] + n ELSE y[t]
  BY CreditEffect
<1>14. z[s] = b[s] - n /\ z[d] = b[d] + n
  BY <1>9, <1>11, <1>12, <1>13
<1>15. balance' = z
  BY <1>7, <1>8, <1>10, <1>11, <1>12, <1>13 DEF Transferred
<1> QED
  BY <1>1, <1>8, <1>10, <1>14, <1>15

(***************************************************************************)
(* A saver who leaves is paid in full: the account of collateral is empty  *)
(* and its owner has as much liquidity more, whatever the rate is computed *)
(* from and however much of the supply others have donated or burnt.       *)
(***************************************************************************)
THEOREM LeavingPaysInFull ==
  ClientSafety =>
    [][\A p \in Pools : \A a \in ProperLists(p) : Leave(p, a) =>
         /\ balance'[a.source] = 0
         /\ balance'[a.destination] = balance[a.destination] + balance[a.source]]_vars
<1>1. MInv /\ [ClientNext]_vars
        => [\A p \in Pools : \A a \in ProperLists(p) : Leave(p, a) =>
              /\ balance'[a.source] = 0
              /\ balance'[a.destination] = balance[a.destination] + balance[a.source]]_vars
  BY LeavePaysAll DEF MInv
<1> QED
  BY <1>1, ClientInvariantHolds, PTL DEF ClientSafety

(***************************************************************************)
(* Once a manager is initialised its owner and its currency stay: no       *)
(* instruction, SetPoolingManagerOwner included, ever writes it again.     *)
(***************************************************************************)
THEOREM ManagersStay ==
  ClientSafety =>
    [][\A m \in Managers : ManagerInitialized(m) => manager'[m] = manager[m]]_vars
<1>1. MInv /\ [ClientNext]_vars
        => [\A m \in Managers : ManagerInitialized(m) => manager'[m] = manager[m]]_vars
  BY ManagersKept DEF MInv, IInv
<1> QED
  BY <1>1, ClientInvariantHolds, PTL DEF ClientSafety

=============================================================================
