--------------------------- MODULE LendingProofs ----------------------------
(***************************************************************************)
(* What LendingReserve keeps for the owner and for the lenders, for every  *)
(* size of the numbers and every sequence of calls.  Each function is      *)
(* first reduced to what it does to the four books of a reserve (what is   *)
(* available, borrowed, unclaimed and minted); the theorems follow from    *)
(* the books.                                                              *)
(***************************************************************************)
EXTENDS LendingReserve, ArithmeticProofs

(***************************************************************************)
(* Arithmetic                                                              *)
(***************************************************************************)

\* The quotient of a division, as a bound on the dividend from both sides.
LEMMA Quotient ==
  ASSUME NEW a \in Nat, NEW b \in Nat \ {0}
  PROVE  /\ a \div b \in Nat
         /\ (a \div b) * b <= a
         /\ a < (a \div b) * b + b
  BY Z3

LEMMA QuotientUnique ==
  ASSUME NEW a \in Nat, NEW b \in Nat \ {0}, NEW q \in Nat,
         q * b <= a, a < q * b + b
  PROVE  a \div b = q
<1> DEFINE r == a - q * b
<1>1. q * b \in Nat
  BY Z3
<1>2. r \in Nat /\ r < b /\ a = r + q * b
  BY <1>1, Z3
<1> HIDE DEF r
<1> QED
  BY <1>2, DivideProduct

\* A factor of at most one does not enlarge, one of at least one splits into
\* the whole and what it adds.
LEMMA TimesAtMostOne ==
  ASSUME NEW x \in Nat, NEW f \in 0..Wad
  PROVE  (x * f) \div Wad \in 0..x
<1>1. x * f \in Nat /\ x * f <= x * Wad
  BY Widths, Z3
<1>2. (x * f) \div Wad \in Nat /\ ((x * f) \div Wad) * Wad <= x * Wad
  BY <1>1, Widths, Quotient
<1>3. ASSUME NEW q \in Nat, q * Wad <= x * Wad
      PROVE  q <= x
  BY <1>3, Widths, Z3
<1> QED
  BY <1>2, <1>3

LEMMA TimesAtLeastOne ==
  ASSUME NEW x \in Nat, NEW c \in Nat, Wad <= c
  PROVE  /\ x * (c - Wad) \in Nat
         /\ (x * c) \div Wad = x + (x * (c - Wad)) \div Wad
<1> DEFINE g == x * (c - Wad)
           q == g \div Wad
<1>1. g \in Nat /\ x * c = g + x * Wad /\ x * c \in Nat
  BY Widths, Z3
<1> HIDE DEF g
<1>2. q \in Nat /\ q * Wad <= g /\ g < q * Wad + Wad
  BY <1>1, Widths, Quotient
<1> HIDE DEF q
<1>3. (x + q) * Wad = x * Wad + q * Wad
  BY <1>2, Widths, Z3
<1>4. x * Wad \in Nat /\ q * Wad \in Nat
  BY <1>2, Widths, Z3
<1>5. (x + q) * Wad <= x * c /\ x * c < (x + q) * Wad + Wad
  BY <1>1, <1>2, <1>3, <1>4, Widths
<1>6. (x * c) \div Wad = x + q
  BY <1>1, <1>2, <1>5, Widths, QuotientUnique
<1> QED
  BY <1>1, <1>6 DEF g, q

LEMMA ProductTaken ==
  ASSUME NEW a \in Nat, NEW b \in Nat, NEW w \in Nat, TryMul(a, b, w) # Err
  PROVE  TryMul(a, b, w) = (a * b) \div Wad /\ TryMul(a, b, w) \in Nat
<1>1. TryMul(a, b, w) = (a * b) \div Wad
  BY DEF TryMul
<1>2. a * b \in Nat
  BY Z3
<1> QED
  BY <1>1, <1>2, Quotient, Widths

\* The three roundings of a Decimal to a token amount.
LEMMA CeilTaken ==
  ASSUME NEW x \in Nat, TryCeilU64(x) # Err
  PROVE  /\ TryCeilU64(x) \in 0..MaxU64
         /\ x <= TryCeilU64(x) * Wad
         /\ TryCeilU64(x) * Wad < x + Wad
<1> DEFINE y == (Wad - 1) + x
           q == y \div Wad
<1>1. y \in Nat
  BY Widths
<1>2. q \in Nat /\ q * Wad <= y /\ y < q * Wad + Wad
  BY <1>1, Widths, Quotient
<1>3. TryCeilU64(x) = Checked(q, MaxU64)
  BY DEF TryCeilU64, Err
<1>4. TryCeilU64(x) = q /\ q \in 0..MaxU64
  BY <1>2, <1>3, Widths, CheckedResult
<1>5. q * Wad \in Nat
  BY <1>2, Widths, Z3
<1> HIDE DEF q
<1> QED
  BY <1>2, <1>4, <1>5, Widths DEF y

LEMMA RoundTaken ==
  ASSUME NEW x \in Nat, TryRoundU64(x, DecimalMax) # Err
  PROVE  LET r == TryRoundU64(x, DecimalMax)
         IN  r \in 0..MaxU64 /\ r * Wad <= x + HalfWad /\ x < r * Wad + Wad - HalfWad
<1> DEFINE y == HalfWad + x
           q == y \div Wad
<1>1. y \in Nat
  BY Widths
<1>2. q \in Nat /\ q * Wad <= y /\ y < q * Wad + Wad
  BY <1>1, Widths, Quotient
<1>3. TryRoundU64(x, DecimalMax) = Checked(q, MaxU64)
  BY DEF TryRoundU64, Err
<1>4. TryRoundU64(x, DecimalMax) = q /\ q \in 0..MaxU64
  BY <1>2, <1>3, Widths, CheckedResult
<1>5. q * Wad \in Nat
  BY <1>2, Widths, Z3
<1> HIDE DEF q
<1> QED
  BY <1>2, <1>4, <1>5, Widths DEF y

(***************************************************************************)
(* The books                                                               *)
(***************************************************************************)
Covered(pl) ==
  pl.owner_unclaimed <= Decimal(pl.available_amount) + pl.borrowed_amount_wads

LEMMA BookTypes ==
  ASSUME NEW pl \in PoolRecord
  PROVE  /\ pl.available_amount \in 0..MaxU64 /\ pl.available_amount \in Nat
         /\ pl.mint_total_supply \in 0..MaxU64 /\ pl.mint_total_supply \in Nat
         /\ pl.borrowed_amount_wads \in 0..MaxU128 /\ pl.borrowed_amount_wads \in Nat
         /\ pl.owner_unclaimed \in 0..MaxU128 /\ pl.owner_unclaimed \in Nat
         /\ pl.cumulative_borrow_rate_wads \in 0..MaxU128
         /\ pl.cumulative_borrow_rate_wads \in Nat
         /\ Decimal(pl.available_amount) = pl.available_amount * Wad
         /\ Decimal(pl.available_amount) \in 0..MaxU128
         /\ Decimal(pl.available_amount) \in Nat
<1>1. /\ pl.available_amount \in 0..MaxU64 /\ pl.mint_total_supply \in 0..MaxU64
      /\ pl.borrowed_amount_wads \in 0..MaxU128 /\ pl.owner_unclaimed \in 0..MaxU128
      /\ pl.cumulative_borrow_rate_wads \in 0..MaxU128
  BY DEF PoolRecord
<1> QED
  BY <1>1, Widths, DecimalOfAmount

\* As long as the fee is covered, total_supply is what its name says.
LEMMA SupplyOfCovered ==
  ASSUME NEW pl \in PoolRecord, Covered(pl)
  PROVE  TotalSupply(pl) = pl.available_amount * Wad + pl.borrowed_amount_wads
                             - pl.owner_unclaimed
<1> DEFINE d == Decimal(pl.available_amount)
           all == d + pl.borrowed_amount_wads
<1>1. d \in 0..MaxU128 /\ pl.borrowed_amount_wads \in 0..MaxU128
      /\ pl.owner_unclaimed \in 0..MaxU128 /\ d = pl.available_amount * Wad
  BY BookTypes
<1>2. 2 <= Wad
  BY FixedPointAssumption, Z3
<1>3. MaxU128 + MaxU128 <= MaxU192
  BY <1>2, FixedPointAssumption, Z3
<1>4. all \in 0..MaxU192
  BY <1>1, <1>3, Widths
<1>5. d # Err /\ pl.borrowed_amount_wads # Err /\ pl.owner_unclaimed # Err
  BY <1>1, Widths DEF Err
<1>6. TryAdd(d, pl.borrowed_amount_wads, DecimalMax) = all /\ all # Err
  BY <1>4, <1>5, Widths, CheckedResult DEF TryAdd, DecimalMax
<1>7. all - pl.owner_unclaimed \in 0..MaxU192 /\ ~(all < pl.owner_unclaimed)
  BY <1>1, <1>4, Widths DEF Covered
<1>8. TrySub(all, pl.owner_unclaimed, DecimalMax) = all - pl.owner_unclaimed
  BY <1>5, <1>6, <1>7, Widths, CheckedResult DEF TrySub, DecimalMax
<1> QED
  BY <1>1, <1>6, <1>7, <1>8 DEF TotalSupply

\* Whatever may leave the reserve leaves the fee of the owner in it.
LEMMA WhatMayLeave ==
  ASSUME NEW pl \in PoolRecord, LiquidityAmount(pl) # Err,
         NEW n \in Nat, n <= LiquidityAmount(pl), n > 0
  PROVE  /\ n <= pl.available_amount
         /\ pl.owner_unclaimed <= (pl.available_amount - n) * Wad
<1> DEFINE ceil == TryCeilU64(pl.owner_unclaimed)
           a == pl.available_amount
<1>1. ~(Decimal(a) < pl.owner_unclaimed)
  BY DEF LiquidityAmount
<1>2. ceil # Err /\ LiquidityAmount(pl) = Checked(a - ceil, MaxU64)
  BY <1>1 DEF LiquidityAmount
<1>3. ceil \in 0..MaxU64 /\ pl.owner_unclaimed <= ceil * Wad
  BY <1>2, CeilTaken, BookTypes
<1>4. a \in 0..MaxU64 /\ a \in Nat /\ ceil \in Nat
  BY <1>3, BookTypes, Widths
<1>5. LiquidityAmount(pl) = a - ceil
  BY <1>2, <1>4, Widths, CheckedResult
<1>6. ceil <= a - n /\ a - n \in Nat
  BY <1>4, <1>5
<1>7. ceil * Wad <= (a - n) * Wad /\ ceil * Wad \in Nat /\ (a - n) * Wad \in Nat
  BY <1>4, <1>6, Widths, ProductMonotone
<1> QED
  BY <1>3, <1>4, <1>6, <1>7, BookTypes

LEMMA PackedFields ==
  ASSUME NEW pl, CanPack(pl), NEW x \in Int,
         x = pl.borrowed_amount_wads \/ x = pl.owner_unclaimed
           \/ x = pl.cumulative_borrow_rate_wads
  PROVE  x \in 0..MaxU128
<1>1. ToScaledVal(x) # Err
  BY DEF CanPack
<1> QED
  BY <1>1, Widths, CheckedResult DEF ToScaledVal

LEMMA LendBooks ==
  ASSUME NEW pl \in PoolRecord, NEW n \in 0..MaxU64, CanDeposit(pl, n)
  PROVE  LET new == DepositLiquidity(pl, n)
         IN  /\ new \in PoolRecord
             /\ new.available_amount = pl.available_amount + n
             /\ new.borrowed_amount_wads = pl.borrowed_amount_wads
             /\ new.owner_unclaimed = pl.owner_unclaimed
             /\ new.cumulative_borrow_rate_wads = pl.cumulative_borrow_rate_wads
<1>1. CollateralFor(pl, n) \in 0..MaxU64
  BY CheckedRange DEF CanDeposit, CollateralFor, LiquidityToCollateral, TryRoundU64
<1>2. pl.available_amount + n \in 0..MaxU64
      /\ pl.mint_total_supply + CollateralFor(pl, n) \in 0..MaxU64
  BY <1>1, BookTypes, Widths DEF CanDeposit
<1> QED
  BY <1>2 DEF DepositLiquidity, PoolRecord

LEMMA RedeemBooks ==
  ASSUME NEW pl \in PoolRecord, NEW n \in 0..MaxU64, CanRedeem(pl, n)
  PROVE  LET new == RedeemCollateral(pl, n)
             l   == LiquidityFor(pl, n)
         IN  /\ new \in PoolRecord /\ l \in Nat
             /\ new.available_amount = pl.available_amount - l
             /\ new.mint_total_supply = pl.mint_total_supply - n
             /\ new.borrowed_amount_wads = pl.borrowed_amount_wads
             /\ new.owner_unclaimed = pl.owner_unclaimed
             /\ new.cumulative_borrow_rate_wads = pl.cumulative_borrow_rate_wads
             /\ l > 0 => pl.owner_unclaimed <= new.available_amount * Wad
<1> DEFINE l == LiquidityFor(pl, n)
<1>1. l \in 0..MaxU64 /\ l \in Nat
  BY CheckedRange, Widths DEF CanRedeem, LiquidityFor, CollateralToLiquidity, TryFloorU64
<1>2. l <= pl.available_amount /\ n <= pl.mint_total_supply
  BY DEF CanRedeem
<1>3. pl.available_amount - l \in 0..MaxU64 /\ pl.mint_total_supply - n \in 0..MaxU64
  BY <1>1, <1>2, BookTypes, Widths
<1>4. l > 0 => pl.owner_unclaimed <= (pl.available_amount - l) * Wad
  BY <1>1, WhatMayLeave DEF CanRedeem
<1> HIDE DEF l
<1>5. RedeemCollateral(pl, n) = [pl EXCEPT !.mint_total_supply = @ - n,
                                           !.available_amount = @ - l]
  BY DEF RedeemCollateral, l
<1>6. [pl EXCEPT !.mint_total_supply = @ - n, !.available_amount = @ - l] \in PoolRecord
  BY <1>3 DEF PoolRecord
<1> QED
  BY <1>1, <1>4, <1>5, <1>6 DEF l, PoolRecord

LEMMA BorrowBooks ==
  ASSUME NEW pl \in PoolRecord, NEW d \in 0..DecimalMax,
         CanBorrow(pl, d), CanPack(Borrow(pl, d))
  PROVE  LET new == Borrow(pl, d)
             r   == TryRoundU64(d, DecimalMax)
         IN  /\ new \in PoolRecord /\ r \in Nat
             /\ r * Wad <= d + HalfWad
             /\ new.available_amount = pl.available_amount - r
             /\ new.mint_total_supply = pl.mint_total_supply
             /\ new.borrowed_amount_wads = pl.borrowed_amount_wads + d
             /\ new.owner_unclaimed = pl.owner_unclaimed
             /\ new.cumulative_borrow_rate_wads = pl.cumulative_borrow_rate_wads
             /\ r > 0 => pl.owner_unclaimed <= new.available_amount * Wad
<1> DEFINE r == TryRoundU64(d, DecimalMax)
           c == TryCeilU64(d)
           new == Borrow(pl, d)
<1>1. d \in Nat
  BY Widths DEF DecimalMax
<1>2. r \in 0..pl.available_amount /\ r # Err
  BY BookTypes DEF CanBorrow, Err
<1>3. r \in Nat /\ r * Wad <= d + HalfWad
  BY <1>1, <1>2, RoundTaken, Widths
<1>4. c \in Nat /\ d <= c * Wad
  BY <1>1, CeilTaken, Widths DEF CanBorrow
<1>5. r <= c
  <2>1. r * Wad < c * Wad + Wad
    BY <1>1, <1>3, <1>4, Widths, Z3
  <2> QED
    BY <2>1, <1>3, <1>4, Widths, Z3
<1>6. r > 0 => pl.owner_unclaimed <= (pl.available_amount - r) * Wad
  <2> SUFFICES ASSUME r > 0
               PROVE  pl.owner_unclaimed <= (pl.available_amount - r) * Wad
    OBVIOUS
  <2>1. c \in Nat /\ c > 0 /\ c <= LiquidityAmount(pl) /\ LiquidityAmount(pl) # Err
    BY <1>3, <1>4, <1>5 DEF CanBorrow
  <2>2. c <= pl.available_amount /\ pl.owner_unclaimed <= (pl.available_amount - c) * Wad
    BY <2>1, WhatMayLeave
  <2>3. (pl.available_amount - c) * Wad <= (pl.available_amount - r) * Wad
        /\ (pl.available_amount - c) * Wad \in Nat
        /\ (pl.available_amount - r) * Wad \in Nat
    BY <2>2, <1>3, <1>4, <1>5, BookTypes, Widths, ProductMonotone
  <2> QED
    BY <2>2, <2>3, BookTypes
<1> HIDE DEF r, c
<1>7. new = [pl EXCEPT !.available_amount = @ - r, !.borrowed_amount_wads = @ + d]
  BY DEF Borrow, r
<1>8. new.borrowed_amount_wads = pl.borrowed_amount_wads + d
  BY <1>7 DEF PoolRecord
<1>9. pl.borrowed_amount_wads + d \in 0..MaxU128
  BY <1>1, <1>8, PackedFields, BookTypes
<1>10. pl.available_amount - r \in 0..MaxU64
  BY <1>2, <1>3, BookTypes, Widths
<1>11. new \in PoolRecord
  BY <1>7, <1>9, <1>10 DEF PoolRecord
<1> QED
  BY <1>3, <1>6, <1>7, <1>11 DEF PoolRecord, r

LEMMA RepayBooks ==
  ASSUME NEW pl \in PoolRecord, NEW paid \in 0..MaxU64, NEW settled \in Nat,
         CanRepay(pl, paid, settled)
  PROVE  LET new == Repay(pl, paid, settled)
         IN  /\ new \in PoolRecord
             /\ new.available_amount = pl.available_amount + paid
             /\ new.mint_total_supply = pl.mint_total_supply
             /\ new.borrowed_amount_wads = pl.borrowed_amount_wads - settled
             /\ new.owner_unclaimed = pl.owner_unclaimed
             /\ new.cumulative_borrow_rate_wads = pl.cumulative_borrow_rate_wads
<1>1. pl.available_amount + paid \in 0..MaxU64
      /\ pl.borrowed_amount_wads - settled \in 0..MaxU128
  BY BookTypes, Widths DEF CanRepay
<1> QED
  BY <1>1 DEF Repay, PoolRecord

\* Interest i is added to what is borrowed, and at most i to the fee.
LEMMA CompoundBooks ==
  ASSUME NEW pl \in PoolRecord, NEW c \in 0..RateMax, NEW fee \in 0..One,
         CanCompound(pl, c, fee), CanPack(Compound(pl, c, fee))
  PROVE  LET new == Compound(pl, c, fee)
         IN  /\ new \in PoolRecord
             /\ new.available_amount = pl.available_amount
             /\ new.mint_total_supply = pl.mint_total_supply
             /\ pl.cumulative_borrow_rate_wads <= new.cumulative_borrow_rate_wads
             /\ \E i \in Nat :
                  /\ new.borrowed_amount_wads = pl.borrowed_amount_wads + i
                  /\ new.owner_unclaimed - pl.owner_unclaimed \in 0..i
                  /\ pl.borrowed_amount_wads = 0 => i = 0
<1> DEFINE b == pl.borrowed_amount_wads
           cum == pl.cumulative_borrow_rate_wads
           u == NewUnclaimed(pl, c, fee)
           i == (b * (c - Wad)) \div Wad
           new == Compound(pl, c, fee)
<1>1. c \in Nat /\ b \in Nat /\ cum \in Nat /\ fee \in 0..Wad /\ pl.owner_unclaimed \in Nat
  BY BookTypes, Widths DEF RateMax, One
<1>2. TrySub(c, One, RateMax) # Err /\ TryMul(b, TrySub(c, One, RateMax), DecimalMax) # Err
  BY DEF CanCompound, NewUnclaimed, TryMul
<1>3. TrySub(c, One, RateMax) = c - Wad /\ Wad <= c /\ c - Wad \in Nat
  <2>1. TrySub(c, One, RateMax) = Checked(c - Wad, RateMax)
    BY <1>2 DEF TrySub, One
  <2> QED
    BY <2>1, <1>1, <1>2, Widths, CheckedResult DEF RateMax
<1>4. TryMul(b, c - Wad, DecimalMax) = i /\ i \in Nat
  <2>1. TryMul(b, c - Wad, DecimalMax) # Err
    BY <1>2, <1>3
  <2>2. DecimalMax \in Nat
    BY Widths DEF DecimalMax
  <2> HIDE DEF b
  <2> QED
    BY <2>1, <2>2, <1>1, <1>3, ProductTaken
<1>5. u = TryMul(i, fee, DecimalMax) /\ u # Err
  BY <1>3, <1>4 DEF NewUnclaimed, CanCompound
<1>0. b = 0 => i = 0
  <2>1. 0 \div Wad = 0 /\ 0 * (c - Wad) = 0
    BY <1>3, Widths, QuotientUnique
  <2> QED
    BY <2>1
<1> HIDE DEF i
<1>6. u = (i * fee) \div Wad /\ u \in Nat
  BY <1>1, <1>4, <1>5, Widths, ProductTaken DEF DecimalMax
<1>7. u \in 0..i
  BY <1>1, <1>4, <1>6, TimesAtMostOne
<1>8. TryMul(b, c, DecimalMax) = b + i
  <2>1. TryMul(b, c, DecimalMax) = (b * c) \div Wad
    BY <1>1, Widths, ProductTaken DEF CanCompound, DecimalMax
  <2> QED
    BY <2>1, <1>1, <1>3, TimesAtLeastOne DEF i
<1>9. CumulativeRate(pl, c) \in Nat /\ cum <= CumulativeRate(pl, c)
  <2> DEFINE j == (cum * (c - Wad)) \div Wad
  <2>1. CumulativeRate(pl, c) = (cum * c) \div Wad
    BY <1>1, Widths, ProductTaken DEF CanCompound, CumulativeRate, DecimalMax
  <2>2. (cum * c) \div Wad = cum + j /\ cum * (c - Wad) \in Nat
    BY <1>1, <1>3, TimesAtLeastOne
  <2>3. j \in Nat
    BY <2>2, Widths, Quotient
  <2> HIDE DEF j
  <2> QED
    BY <2>1, <2>2, <2>3, <1>1
<1> HIDE DEF u
<1>10. new = [pl EXCEPT !.cumulative_borrow_rate_wads = CumulativeRate(pl, c),
                        !.owner_unclaimed = @ + u,
                        !.borrowed_amount_wads = b + i]
  BY <1>8 DEF Compound, PoolRecord, u
<1>11. /\ new.cumulative_borrow_rate_wads = CumulativeRate(pl, c)
       /\ new.owner_unclaimed = pl.owner_unclaimed + u
       /\ new.borrowed_amount_wads = b + i
       /\ new.available_amount = pl.available_amount
       /\ new.mint_total_supply = pl.mint_total_supply
  BY <1>10 DEF PoolRecord
<1>12. /\ CumulativeRate(pl, c) \in 0..MaxU128
       /\ pl.owner_unclaimed + u \in 0..MaxU128
       /\ b + i \in 0..MaxU128
  BY <1>1, <1>4, <1>6, <1>9, <1>11, PackedFields
<1>13. new \in PoolRecord
  BY <1>10, <1>12 DEF PoolRecord
<1>14. new.owner_unclaimed - pl.owner_unclaimed \in 0..i
  BY <1>1, <1>4, <1>6, <1>7, <1>11
<1> QED
  BY <1>4, <1>9, <1>11, <1>13, <1>14, <1>0

(***************************************************************************)
(* What a step does to the books                                           *)
(***************************************************************************)
SameLoans(pl, new) ==
  /\ new.borrowed_amount_wads = pl.borrowed_amount_wads
  /\ new.owner_unclaimed = pl.owner_unclaimed
  /\ new.cumulative_borrow_rate_wads = pl.cumulative_borrow_rate_wads

Lending(pl, new) ==
  /\ SameLoans(pl, new)
  /\ \E n \in Nat : new.available_amount = pl.available_amount + n

Redeeming(pl, new) ==
  /\ SameLoans(pl, new)
  /\ \E l \in Nat :
       /\ new.available_amount = pl.available_amount - l
       /\ l > 0 => /\ new.mint_total_supply < pl.mint_total_supply
                   /\ pl.owner_unclaimed <= new.available_amount * Wad

Borrowing(pl, new) ==
  /\ new.owner_unclaimed = pl.owner_unclaimed
  /\ new.cumulative_borrow_rate_wads = pl.cumulative_borrow_rate_wads
  /\ \E d \in Nat : \E r \in Nat :
       /\ r * Wad <= d + HalfWad
       /\ new.borrowed_amount_wads = pl.borrowed_amount_wads + d
       /\ new.available_amount = pl.available_amount - r
       /\ r > 0 => pl.owner_unclaimed <= new.available_amount * Wad

Repaying(pl, new) ==
  /\ new.owner_unclaimed = pl.owner_unclaimed
  /\ new.cumulative_borrow_rate_wads = pl.cumulative_borrow_rate_wads
  /\ \E paid \in Nat : \E settled \in Nat :
       /\ settled <= paid * Wad
       /\ new.borrowed_amount_wads = pl.borrowed_amount_wads - settled
       /\ new.available_amount = pl.available_amount + paid

Compounding(pl, new) ==
  /\ new.available_amount = pl.available_amount
  /\ pl.cumulative_borrow_rate_wads <= new.cumulative_borrow_rate_wads
  /\ \E i \in Nat :
       /\ new.borrowed_amount_wads = pl.borrowed_amount_wads + i
       /\ new.owner_unclaimed - pl.owner_unclaimed \in 0..i
       /\ pl.borrowed_amount_wads = 0 => i = 0

\* Redeeming nothing pays nothing.
LEMMA NothingForNothing ==
  ASSUME NEW pl, CanRedeem(pl, 0)
  PROVE  LiquidityFor(pl, 0) = 0
<1> DEFINE rate == CollateralExchangeRate(pl)
<1>1. rate \in Nat \cup {Err}
  <2>1. ToScaledVal(TryDiv(Decimal(pl.mint_total_supply), TotalSupply(pl), DecimalMax))
          \in Nat \cup {Err}
    BY CheckedRange, Widths DEF ToScaledVal
  <2>2. InitialCollateralRate \in Nat
    BY Widths DEF InitialCollateralRate, InitialCollateralRatio
  <2> QED
    BY <2>1, <2>2 DEF CollateralExchangeRate
<1>2. TryFloorU64(TryDiv(Decimal(0), rate, DecimalMax)) # Err
  BY DEF CanRedeem, LiquidityFor, CollateralToLiquidity
<1>3. TryDiv(Decimal(0), rate, DecimalMax) # Err
  BY <1>2 DEF TryFloorU64
<1>4. rate # Err /\ rate # 0
  BY <1>3 DEF TryDiv
<1> HIDE DEF rate
<1>5. Decimal(0) = 0 /\ (Decimal(0) * Wad) \div rate = 0
  BY <1>1, <1>4, Widths, QuotientUnique DEF Decimal
<1>6. TryDiv(Decimal(0), rate, DecimalMax) = 0
  BY <1>3, <1>5 DEF TryDiv
<1>7. 0 \div Wad = 0
  BY Widths, QuotientUnique
<1>8. TryFloorU64(0) = 0
  BY <1>7, Widths, CheckedResult DEF TryFloorU64, Err
<1> QED
  BY <1>6, <1>8 DEF LiquidityFor, CollateralToLiquidity, rate

LEMMA PoolStep ==
  ASSUME TypeOK, Next
  PROVE  /\ pool' \in PoolRecord
         /\ \/ /\ rounds' = rounds
               /\ \/ pool' = pool
                  \/ Lending(pool, pool')
                  \/ Redeeming(pool, pool')
                  \/ Borrowing(pool, pool')
                  \/ Repaying(pool, pool')
            \/ rounds' = rounds + 1 /\ Compounding(pool, pool')
<1> USE DEF Stores
<1>0. pool \in PoolRecord /\ loans \in [Borrowers -> Loan]
  BY DEF TypeOK
<1>1. CASE \E n \in Deposits : Lend(n)
  <2>1. PICK n \in Deposits : Lend(n)
    BY <1>1
  <2>2. n \in 0..MaxU64 /\ n \in Nat
    BY ReserveAssumption, Widths
  <2> QED
    BY <1>0, <2>1, <2>2, LendBooks DEF Lend, Lending, SameLoans
<1>2. CASE \E n \in Redemptions : Redeem(n)
  <2>1. PICK n \in Redemptions : Redeem(n)
    BY <1>2
  <2>2. n \in 0..MaxU64 /\ n \in Nat
    BY ReserveAssumption, Widths
  <2>3. CanRedeem(pool, n) /\ pool' = RedeemCollateral(pool, n) /\ rounds' = rounds
    BY <2>1 DEF Redeem
  <2>4. LiquidityFor(pool, n) > 0 => n # 0
    BY <2>3, NothingForNothing
  <2>5. pool.mint_total_supply \in Nat
    BY <1>0, BookTypes
  <2> QED
    BY <1>0, <2>2, <2>3, <2>4, <2>5, RedeemBooks DEF Redeeming, SameLoans
<1>3. CASE \E b \in Borrowers, d \in Loans : TakeUp(b, d)
  <2>1. PICK b \in Borrowers, d \in Loans : TakeUp(b, d)
    BY <1>3
  <2>2. d \in 0..DecimalMax /\ d \in Nat
    BY ReserveAssumption, Widths DEF DecimalMax
  <2>3. /\ CanBorrow(pool, d) /\ CanPack(Borrow(pool, d))
        /\ pool' = Borrow(pool, d) /\ rounds' = rounds
    BY <2>1 DEF TakeUp
  <2> QED
    BY <1>0, <2>2, <2>3, BorrowBooks DEF Borrowing
<1>4. ASSUME NEW b \in Borrowers, NEW paid \in 0..MaxU64, NEW settled \in Nat,
             settled <= paid * Wad, PayBack(b, paid, settled)
      PROVE  /\ pool' \in PoolRecord
             /\ rounds' = rounds /\ Repaying(pool, pool')
  <2>1. paid \in Nat
    BY Widths
  <2>2. CanRepay(pool, paid, settled) /\ pool' = Repay(pool, paid, settled)
        /\ rounds' = rounds
    BY <1>4 DEF PayBack
  <2> QED
    BY <1>0, <1>4, <2>1, <2>2, RepayBooks DEF Repaying
<1>5. CASE \E b \in Borrowers, r \in Repayments : PayBack(b, r[1], r[2])
  <2>1. PICK b \in Borrowers, r \in Repayments : PayBack(b, r[1], r[2])
    BY <1>5
  <2>2. r[1] \in 0..MaxU64 /\ r[2] \in 0..DecimalMax /\ r[2] <= Decimal(r[1])
    BY ReserveAssumption, RepaymentAssumption
  <2>3. Decimal(r[1]) = r[1] * Wad
    BY <2>2, DecimalOfAmount
  <2>4. r[2] \in Nat
    BY <2>2, Widths DEF DecimalMax
  <2> QED
    BY <1>4, <2>1, <2>2, <2>3, <2>4
<1>6. CASE \E b \in Borrowers : Close(b)
  <2>1. PICK b \in Borrowers : Close(b)
    BY <1>6
  <2>2. loans[b].borrowed_amount_wads \in Nat
    BY <1>0, Widths DEF Loan, DecimalMax
  <2>3. /\ TryCeilU64(loans[b].borrowed_amount_wads) \in 0..MaxU64
        /\ loans[b].borrowed_amount_wads
             <= TryCeilU64(loans[b].borrowed_amount_wads) * Wad
    BY <2>1, <2>2, CeilTaken DEF Close
  <2> QED
    BY <1>4, <2>1, <2>2, <2>3 DEF Close
<1>7. CASE \E rate \in YearlyRates, slots \in SlotCounts : CompoundInterest(rate, slots)
  <2>1. PICK rate \in YearlyRates, slots \in SlotCounts : CompoundInterest(rate, slots)
    BY <1>7
  <2> DEFINE c == CompoundedRate(rate, slots)
  <2>2. /\ c \in 0..RateMax /\ CanCompound(pool, c, OwnerFee)
        /\ CanPack(Compound(pool, c, OwnerFee))
        /\ pool' = Compound(pool, c, OwnerFee) /\ rounds' = rounds + 1
    BY <2>1 DEF CompoundInterest
  <2>3. OwnerFee \in 0..One
    BY ReserveAssumption, FeeAssumption, Widths DEF One
  <2> HIDE DEF c
  <2> QED
    BY <1>0, <2>2, <2>3, CompoundBooks DEF Compounding
<1>8. CASE \E b \in Borrowers : AccrueInterest(b)
  BY <1>0, <1>8 DEF AccrueInterest
<1> QED
  BY <1>1, <1>2, <1>3, <1>5, <1>6, <1>7, <1>8 DEF Next

(***************************************************************************)
(* Theorems                                                                *)
(***************************************************************************)

LEMMA DebtRange ==
  ASSUME NEW loan \in Loan, NEW cum \in 0..MaxU128, Debt(loan, cum) # Err
  PROVE  Debt(loan, cum) \in 0..DecimalMax
<1> DEFINE b == loan.borrowed_amount_wads
           g == LoanGrowth(loan, cum)
<1>1. b \in 0..DecimalMax /\ b \in Nat
  BY Widths DEF Loan, DecimalMax
<1>2. CASE cum = loan.cumulative_borrow_rate_wads
  BY <1>1, <1>2 DEF Debt
<1>3. CASE cum # loan.cumulative_borrow_rate_wads
  <2>1. Debt(loan, cum) = TryMul(b, g, DecimalMax)
    BY <1>3 DEF Debt
  <2>2. g # Err /\ Checked(b * g, DecimalMax) # Err
    BY <2>1 DEF TryMul
  <2>3. g \in Nat
    BY <2>2, CheckedRange, Widths DEF LoanGrowth, ToScaledVal
  <2>4. b * g \in Nat
    BY <1>1, <2>3, Z3
  <2>5. b * g \in 0..DecimalMax
    BY <2>2, <2>4, Widths, CheckedResult DEF DecimalMax
  <2>6. TryMul(b, g, DecimalMax) = (b * g) \div Wad
    BY <2>1 DEF TryMul
  <2>7. (b * g) \div Wad \in Nat /\ ((b * g) \div Wad) * Wad <= b * g
    BY <2>4, Widths, Quotient
  <2>8. ASSUME NEW q \in Nat, q * Wad <= b * g
        PROVE  q <= b * g
    BY <2>4, <2>8, Widths, Z3
  <2>9. (b * g) \div Wad <= b * g
    BY <2>7, <2>8
  <2> QED
    BY <2>1, <2>4, <2>5, <2>6, <2>7, <2>9, Widths DEF DecimalMax
<1> QED
  BY <1>2, <1>3

(***************************************************************************)
(* The pool keeps fitting its record, the loans theirs, and the rounds     *)
(* their bound.                                                            *)
(***************************************************************************)
THEOREM LendingTypeOK == Spec => []TypeOK
<1>1. Init => TypeOK
  <2> SUFFICES ASSUME Init PROVE TypeOK
    OBVIOUS
  <2>1. One \in 0..MaxU128
    <3>1. Wad <= Wad * Wad /\ Wad * Wad \in Nat
      BY Widths, Z3
    <3> QED
      BY <3>1, FixedPointAssumption, Widths DEF One
  <2>2. pool \in PoolRecord
    BY <2>1, Widths DEF Init, NewPool, PoolRecord
  <2>3. NewLoan(One) \in Loan
    BY <2>1, Widths DEF NewLoan, Loan, DecimalMax
  <2>4. loans \in [Borrowers -> Loan]
    BY <2>3 DEF Init
  <2>5. rounds \in 0..MaxRounds
    BY ReserveAssumption DEF Init
  <2> QED
    BY <2>2, <2>4, <2>5 DEF TypeOK
<1>2. TypeOK /\ [Next]_vars => TypeOK'
  <2> SUFFICES ASSUME TypeOK, [Next]_vars PROVE TypeOK'
    OBVIOUS
  <2>1. CASE UNCHANGED vars
    BY <2>1 DEF TypeOK, vars
  <2>2. CASE Next
    <3>1. pool' \in PoolRecord
      BY <2>2, PoolStep
    <3>2. rounds' \in 0..MaxRounds
      <4>1. rounds' = rounds \/ (rounds < MaxRounds /\ rounds' = rounds + 1)
        BY <2>2 DEF Next, Lend, Redeem, TakeUp, PayBack, Close, CompoundInterest,
                    AccrueInterest
      <4> QED
        BY <4>1, ReserveAssumption DEF TypeOK
    <3>3. loans' \in [Borrowers -> Loan]
      <4>0. loans \in [Borrowers -> Loan] /\ DecimalMax \in Nat
        BY Widths DEF TypeOK, DecimalMax
      <4>1. CASE UNCHANGED loans
        BY <4>0, <4>1
      <4>2. ASSUME NEW b \in Borrowers, NEW loan \in Loan,
                   loans' = [loans EXCEPT ![b] = loan]
            PROVE  loans' \in [Borrowers -> Loan]
        BY <4>0, <4>2
      <4>3. ASSUME NEW b \in Borrowers, NEW d \in Loans, TakeUp(b, d)
            PROVE  loans' \in [Borrowers -> Loan]
        <5>1. d \in Nat /\ loans[b].borrowed_amount_wads + d \in 0..DecimalMax
          BY <4>0, <4>3, ReserveAssumption DEF TakeUp, Loan
        <5>2. LoanBorrow(loans[b], d) \in Loan
          BY <4>0, <5>1 DEF LoanBorrow, Loan
        <5> QED
          BY <4>2, <4>3, <5>2 DEF TakeUp
      <4>4. ASSUME NEW b \in Borrowers, NEW paid, NEW settled \in Nat,
                   PayBack(b, paid, settled)
            PROVE  loans' \in [Borrowers -> Loan]
        <5>1. loans[b].borrowed_amount_wads - settled \in 0..DecimalMax
          BY <4>0, <4>4 DEF PayBack, Loan
        <5>2. LoanRepay(loans[b], settled) \in Loan
          BY <4>0, <5>1 DEF LoanRepay, Loan
        <5> QED
          BY <4>2, <4>4, <5>2 DEF PayBack
      <4>5. ASSUME NEW b \in Borrowers, AccrueInterest(b)
            PROVE  loans' \in [Borrowers -> Loan]
        <5> DEFINE cum == pool.cumulative_borrow_rate_wads
        <5>1. cum \in 0..MaxU128
          BY DEF TypeOK, PoolRecord
        <5>2. Debt(loans[b], cum) \in 0..DecimalMax
          BY <4>0, <4>5, <5>1, DebtRange DEF AccrueInterest, CanAccrue
        <5>3. Accrue(loans[b], cum) \in Loan
          BY <5>1, <5>2 DEF Accrue, Loan
        <5> QED
          BY <4>2, <4>5, <5>3 DEF AccrueInterest
      <4>6. ASSUME NEW b \in Borrowers, Close(b)
            PROVE  loans' \in [Borrowers -> Loan]
        <5>1. loans[b].borrowed_amount_wads \in Nat
          BY <4>0 DEF Loan
        <5> QED
          BY <4>4, <4>6, <5>1 DEF Close
      <4>7. ASSUME NEW b \in Borrowers, NEW r \in Repayments, PayBack(b, r[1], r[2])
            PROVE  loans' \in [Borrowers -> Loan]
        <5>1. r[2] \in Nat
          BY <4>0, ReserveAssumption
        <5> QED
          BY <4>4, <4>7, <5>1
      <4> QED
        BY <2>2, <4>1, <4>3, <4>5, <4>6, <4>7
           DEF Next, Lend, Redeem, CompoundInterest
    <3> QED
      BY <3>1, <3>2, <3>3 DEF TypeOK
  <2> QED
    BY <2>1, <2>2
<1> QED
  BY <1>1, <1>2, PTL DEF Spec

\* One step of FeeCovered, which the theorems below also need.
LEMMA CoveredStep ==
  ASSUME TypeOK, FeeCovered, [Next]_vars
  PROVE  pool' \in PoolRecord /\ Covered(pool')
<1> DEFINE a == pool.available_amount
           b == pool.borrowed_amount_wads
           u == pool.owner_unclaimed
           a1 == pool'.available_amount
           b1 == pool'.borrowed_amount_wads
           u1 == pool'.owner_unclaimed
<1>1. CASE UNCHANGED vars
  BY <1>1 DEF TypeOK, FeeCovered, Covered, vars
<1>2. CASE Next
  <2>1. pool \in PoolRecord /\ pool' \in PoolRecord
    BY <1>2, PoolStep DEF TypeOK
  <2>2. /\ a \in Nat /\ b \in Nat /\ u \in Nat /\ a1 \in Nat /\ b1 \in Nat /\ u1 \in Nat
        /\ a * Wad \in Nat /\ a1 * Wad \in Nat
        /\ Decimal(a) = a * Wad /\ Decimal(a1) = a1 * Wad
    BY <2>1, BookTypes
  <2>3. u <= a * Wad + b
    BY <2>2 DEF FeeCovered
  <2> SUFFICES u1 <= a1 * Wad + b1
    BY <2>1, <2>2 DEF Covered
  <2>4. CASE pool' = pool
    BY <2>3, <2>4
  <2>5. CASE Lending(pool, pool')
    <3>1. a <= a1 /\ b1 = b /\ u1 = u
      BY <2>2, <2>5 DEF Lending, SameLoans
    <3>2. a * Wad <= a1 * Wad
      BY <3>1, <2>2, Widths, ProductMonotone
    <3> QED
      BY <3>1, <3>2, <2>2, <2>3
  <2>6. CASE Redeeming(pool, pool')
    BY <2>2, <2>3, <2>6 DEF Redeeming, SameLoans
  <2>7. CASE Borrowing(pool, pool')
    BY <2>2, <2>3, <2>7 DEF Borrowing
  <2>8. CASE Repaying(pool, pool')
    <3>1. PICK paid \in Nat : \E settled \in Nat :
            settled <= paid * Wad /\ b1 = b - settled /\ a1 = a + paid
      BY <2>8 DEF Repaying
    <3>2. PICK settled \in Nat :
            settled <= paid * Wad /\ b1 = b - settled /\ a1 = a + paid
      BY <3>1
    <3>3. a1 * Wad = a * Wad + paid * Wad /\ paid * Wad \in Nat
      BY <3>2, <2>2, Widths, Z3
    <3>4. u1 = u
      BY <2>8 DEF Repaying
    <3> QED
      BY <3>2, <3>3, <3>4, <2>2, <2>3
  <2>9. CASE Compounding(pool, pool')
    <3>1. a1 = a
      BY <2>9 DEF Compounding
    <3>2. PICK i \in Nat : b1 = b + i /\ u1 - u \in 0..i
      BY <2>9 DEF Compounding
    <3> QED
      BY <3>1, <3>2, <2>2, <2>3
  <2> QED
    BY <1>2, <2>4, <2>5, <2>6, <2>7, <2>8, <2>9, PoolStep
<1> QED
  BY <1>1, <1>2

(***************************************************************************)
(* The fee of the owner is covered, whatever is lent, repaid, redeemed and *)
(* compounded: FeeCovered is inductive beside the types.                   *)
(***************************************************************************)
THEOREM FeeStaysCovered == Spec => []FeeCovered
<1>1. Init => FeeCovered
  BY Widths DEF Init, FeeCovered, NewPool, Decimal
<1>2. TypeOK /\ FeeCovered /\ [Next]_vars => FeeCovered'
  BY CoveredStep DEF FeeCovered, Covered
<1> QED
  BY <1>1, <1>2, LendingTypeOK, PTL DEF Spec

(***************************************************************************)
(* Nothing that leaves the reserve is the owner's: with the fee covered,   *)
(* each kind of step either leaves the available amount as high as it was  *)
(* or leaves at least the fee in it.                                       *)
(***************************************************************************)
THEOREM FeeReserved == Spec => OwnerFeeReserved
<1> DEFINE Reserved ==
      pool'.available_amount < pool.available_amount
        => Decimal(pool'.available_amount) >= pool'.owner_unclaimed
<1>1. TypeOK /\ [Next]_vars => [Reserved]_vars
  <2> SUFFICES ASSUME TypeOK, Next, pool'.available_amount < pool.available_amount
               PROVE  Decimal(pool'.available_amount) >= pool'.owner_unclaimed
    BY DEF Reserved
  <2> DEFINE a == pool.available_amount
             a1 == pool'.available_amount
             u == pool.owner_unclaimed
             u1 == pool'.owner_unclaimed
  <2>1. pool \in PoolRecord /\ pool' \in PoolRecord
    BY PoolStep DEF TypeOK
  <2>2. /\ a \in Nat /\ a1 \in Nat /\ a1 < a /\ u \in Nat /\ u1 \in Nat
        /\ Decimal(a1) = a1 * Wad /\ Decimal(a1) \in Nat
    BY <2>1, BookTypes
  <2>3. CASE Redeeming(pool, pool')
    <3>1. PICK l \in Nat : a1 = a - l /\ (l > 0 => u <= a1 * Wad)
      BY <2>3 DEF Redeeming
    <3>2. u1 = u
      BY <2>3 DEF Redeeming, SameLoans
    <3> QED
      BY <3>1, <3>2, <2>2
  <2>4. CASE Borrowing(pool, pool')
    <3>1. PICK d \in Nat : \E r \in Nat : a1 = a - r /\ (r > 0 => u <= a1 * Wad)
      BY <2>4 DEF Borrowing
    <3>2. PICK r \in Nat : a1 = a - r /\ (r > 0 => u <= a1 * Wad)
      BY <3>1
    <3>3. u1 = u
      BY <2>4 DEF Borrowing
    <3> QED
      BY <3>2, <3>3, <2>2
  <2>5. pool' # pool /\ ~Lending(pool, pool') /\ ~Repaying(pool, pool')
        /\ ~Compounding(pool, pool')
    BY <2>2 DEF Lending, Repaying, Compounding
  <2> QED
    BY <2>3, <2>4, <2>5, PoolStep
<1> QED
  BY <1>1, LendingTypeOK, PTL DEF Spec, OwnerFeeReserved, Reserved

(***************************************************************************)
(* What belongs to the lenders falls only by what they redeem, and by at   *)
(* most half a token for each loan.  The fee being covered is needed:      *)
(* without it total_supply is not the difference it is meant to be.        *)
(***************************************************************************)
THEOREM LendersKeep == Spec => LendersKeepTheirs
<1> DEFINE Kept ==
      pool'.mint_total_supply >= pool.mint_total_supply
       => IF pool'.borrowed_amount_wads > pool.borrowed_amount_wads /\ rounds' = rounds
          THEN TotalSupply(pool') >= TotalSupply(pool) - HalfWad
          ELSE TotalSupply(pool') >= TotalSupply(pool)
<1>1. TypeOK /\ FeeCovered /\ [Next]_vars => [Kept]_vars
  <2> SUFFICES ASSUME TypeOK, FeeCovered, Next,
                      pool'.mint_total_supply >= pool.mint_total_supply
               PROVE  IF pool'.borrowed_amount_wads > pool.borrowed_amount_wads
                           /\ rounds' = rounds
                      THEN TotalSupply(pool') >= TotalSupply(pool) - HalfWad
                      ELSE TotalSupply(pool') >= TotalSupply(pool)
    BY DEF Kept
  <2> DEFINE a == pool.available_amount
             b == pool.borrowed_amount_wads
             u == pool.owner_unclaimed
             m == pool.mint_total_supply
             a1 == pool'.available_amount
             b1 == pool'.borrowed_amount_wads
             u1 == pool'.owner_unclaimed
             m1 == pool'.mint_total_supply
             s == TotalSupply(pool)
             s1 == TotalSupply(pool')
  <2>1. pool \in PoolRecord /\ pool' \in PoolRecord
    BY PoolStep DEF TypeOK
  <2>2. Covered(pool) /\ Covered(pool')
    BY CoveredStep DEF FeeCovered, Covered
  <2>3. s = a * Wad + b - u /\ s1 = a1 * Wad + b1 - u1
    BY <2>1, <2>2, SupplyOfCovered
  <2>4. /\ a \in Nat /\ b \in Nat /\ u \in Nat /\ m \in Nat
        /\ a1 \in Nat /\ b1 \in Nat /\ u1 \in Nat /\ m1 \in Nat /\ m <= m1
    BY <2>1, BookTypes
  <2>5. /\ a * Wad \in Nat /\ a1 * Wad \in Nat /\ HalfWad \in Nat
        /\ rounds \in Nat
    BY <2>4, Widths, ReserveAssumption, Z3 DEF TypeOK
  <2> HIDE DEF s, s1
  <2> SUFFICES IF b1 > b /\ rounds' = rounds THEN s1 >= s - HalfWad ELSE s1 >= s
    BY DEF s, s1
  <2>6. CASE pool' = pool
    BY <2>3, <2>4, <2>5, <2>6
  <2>7. CASE Lending(pool, pool')
    <3>1. a <= a1 /\ b1 = b /\ u1 = u
      BY <2>4, <2>7 DEF Lending, SameLoans
    <3>2. a * Wad <= a1 * Wad
      BY <3>1, <2>4, Widths, ProductMonotone
    <3> QED
      BY <3>1, <3>2, <2>3, <2>4, <2>5
  <2>8. CASE Redeeming(pool, pool')
    <3>1. b1 = b /\ u1 = u
      BY <2>8 DEF Redeeming, SameLoans
    <3>2. PICK l \in Nat : a1 = a - l /\ (l > 0 => m1 < m)
      BY <2>8 DEF Redeeming
    <3>3. a1 = a
      BY <3>2, <2>4
    <3> QED
      BY <3>1, <3>3, <2>3, <2>4, <2>5
  <2>9. CASE Borrowing(pool, pool') /\ rounds' = rounds
    <3>1. u1 = u
      BY <2>9 DEF Borrowing
    <3>2. PICK d \in Nat : \E r \in Nat :
            r * Wad <= d + HalfWad /\ b1 = b + d /\ a1 = a - r
      BY <2>9 DEF Borrowing
    <3>3. PICK r \in Nat : r * Wad <= d + HalfWad /\ b1 = b + d /\ a1 = a - r
      BY <3>2
    <3>4. a * Wad = a1 * Wad + r * Wad /\ r * Wad \in Nat
      BY <3>3, <2>4, Widths, Z3
    <3>5. CASE d > 0
      BY <3>1, <3>3, <3>4, <3>5, <2>3, <2>4, <2>5, <2>9
    <3>6. CASE d = 0
      <4>1. r * Wad <= HalfWad
        BY <3>3, <3>6, <2>5
      <4>2. r = 0
        BY <4>1, <3>3, Widths, Z3
      <4> QED
        BY <4>2, <3>1, <3>3, <3>6, <2>3, <2>4, <2>5
    <3> QED
      BY <3>3, <3>5, <3>6
  <2>10. CASE Repaying(pool, pool')
    <3>1. u1 = u
      BY <2>10 DEF Repaying
    <3>2. PICK paid \in Nat : \E settled \in Nat :
            settled <= paid * Wad /\ b1 = b - settled /\ a1 = a + paid
      BY <2>10 DEF Repaying
    <3>3. PICK settled \in Nat :
            settled <= paid * Wad /\ b1 = b - settled /\ a1 = a + paid
      BY <3>2
    <3>4. a1 * Wad = a * Wad + paid * Wad /\ paid * Wad \in Nat
      BY <3>3, <2>4, Widths, Z3
    <3> QED
      BY <3>1, <3>3, <3>4, <2>3, <2>4, <2>5
  <2>11. CASE Compounding(pool, pool')
    <3>1. a1 = a
      BY <2>11 DEF Compounding
    <3>2. PICK i \in Nat : b1 = b + i /\ u1 - u \in 0..i
      BY <2>11 DEF Compounding
    <3> QED
      BY <3>1, <3>2, <2>3, <2>4, <2>5
  <2> QED
    BY <2>6, <2>7, <2>8, <2>9, <2>10, <2>11, PoolStep
<1> QED
  BY <1>1, LendingTypeOK, FeeStaysCovered, PTL DEF Spec, LendersKeepTheirs, Kept

(***************************************************************************)
(* No loan is ahead of the reserve: the cumulative rate of the reserve     *)
(* never falls, and a loan only ever takes on that of the reserve.         *)
(***************************************************************************)
THEOREM LoansBehind == Spec => []LoansBehindReserve
<1>1. Init => LoansBehindReserve
  <2>1. One \in Nat
    BY Widths DEF One
  <2> QED
    BY <2>1 DEF Init, LoansBehindReserve, NewPool, NewLoan
<1>2. TypeOK /\ LoansBehindReserve /\ [Next]_vars => LoansBehindReserve'
  <2> SUFFICES ASSUME TypeOK, LoansBehindReserve, [Next]_vars
               PROVE  LoansBehindReserve'
    OBVIOUS
  <2> DEFINE cum == pool.cumulative_borrow_rate_wads
             cum1 == pool'.cumulative_borrow_rate_wads
  <2>1. CASE UNCHANGED vars
    BY <2>1 DEF LoansBehindReserve, vars
  <2>2. CASE Next
    <3>1. pool \in PoolRecord /\ pool' \in PoolRecord
      BY <2>2, PoolStep DEF TypeOK
    <3>2. cum \in Nat /\ cum1 \in Nat /\ One \in Nat
      BY <3>1, BookTypes, Widths DEF One
    <3>3. cum <= cum1
      BY <2>2, <3>2, PoolStep
         DEF Lending, Redeeming, SameLoans, Borrowing, Repaying, Compounding
    <3> SUFFICES ASSUME NEW b \in Borrowers
                 PROVE  /\ One <= loans'[b].cumulative_borrow_rate_wads
                        /\ loans'[b].cumulative_borrow_rate_wads <= cum1
      BY DEF LoansBehindReserve
    <3>4. /\ loans \in [Borrowers -> Loan]
          /\ loans[b].cumulative_borrow_rate_wads \in Nat
          /\ One <= loans[b].cumulative_borrow_rate_wads
          /\ loans[b].cumulative_borrow_rate_wads <= cum
      BY Widths DEF TypeOK, Loan, LoansBehindReserve
    <3>5. ASSUME NEW x \in Borrowers, NEW paid, NEW settled, PayBack(x, paid, settled)
          PROVE  loans'[b].cumulative_borrow_rate_wads
                   = loans[b].cumulative_borrow_rate_wads
      BY <3>4, <3>5 DEF PayBack, LoanRepay, Loan
    <3>6. \/ loans'[b].cumulative_borrow_rate_wads
               = loans[b].cumulative_borrow_rate_wads
          \/ loans'[b].cumulative_borrow_rate_wads = cum
      <4>1. ASSUME NEW x \in Borrowers, NEW d \in Loans, TakeUp(x, d)
            PROVE  loans'[b].cumulative_borrow_rate_wads
                     = loans[b].cumulative_borrow_rate_wads
        BY <3>4, <4>1 DEF TakeUp, LoanBorrow, Loan
      <4>2. ASSUME NEW x \in Borrowers, AccrueInterest(x)
            PROVE  loans'[b].cumulative_borrow_rate_wads
                     \in {loans[b].cumulative_borrow_rate_wads, cum}
        BY <3>4, <4>2 DEF AccrueInterest, Accrue
      <4> QED
        BY <2>2, <3>5, <4>1, <4>2 DEF Next, Close, Lend, Redeem, CompoundInterest
    <3> QED
      BY <3>2, <3>3, <3>4, <3>6
  <2> QED
    BY <2>1, <2>2
<1> QED
  BY <1>1, <1>2, LendingTypeOK, PTL DEF Spec


-----------------------------------------------------------------------------
(***************************************************************************)
(* Utilization                                                             *)
(***************************************************************************)

\* While something is borrowed, something belongs to the lenders.
Solvent(pl) ==
  pl.borrowed_amount_wads > 0 =>
    pl.owner_unclaimed < pl.available_amount * Wad + pl.borrowed_amount_wads

LEMMA SolventStep ==
  ASSUME TypeOK, FeeCovered, Solvent(pool), [Next]_vars
  PROVE  Solvent(pool')
<1> DEFINE a == pool.available_amount
           b == pool.borrowed_amount_wads
           u == pool.owner_unclaimed
           a1 == pool'.available_amount
           b1 == pool'.borrowed_amount_wads
           u1 == pool'.owner_unclaimed
<1>1. CASE UNCHANGED vars
  BY <1>1 DEF vars
<1>2. CASE Next
  <2>1. pool \in PoolRecord /\ pool' \in PoolRecord
    BY <1>2, PoolStep DEF TypeOK
  <2>2. /\ a \in Nat /\ b \in Nat /\ u \in Nat /\ a1 \in Nat /\ b1 \in Nat /\ u1 \in Nat
        /\ a * Wad \in Nat /\ a1 * Wad \in Nat /\ Decimal(a) = a * Wad
    BY <2>1, BookTypes
  <2>3. u <= a * Wad + b /\ (b > 0 => u < a * Wad + b)
    BY <2>2 DEF FeeCovered, Solvent
  <2> SUFFICES b1 > 0 => u1 < a1 * Wad + b1
    BY DEF Solvent
  <2>4. CASE pool' = pool
    BY <2>3, <2>4
  <2>5. CASE Lending(pool, pool')
    <3>1. a <= a1 /\ b1 = b /\ u1 = u
      BY <2>2, <2>5 DEF Lending, SameLoans
    <3>2. a * Wad <= a1 * Wad
      BY <3>1, <2>2, Widths, ProductMonotone
    <3> QED
      BY <3>1, <3>2, <2>2, <2>3
  <2>6. CASE Redeeming(pool, pool')
    <3>1. PICK l \in Nat : a1 = a - l /\ (l > 0 => u <= a1 * Wad)
      BY <2>6 DEF Redeeming
    <3>2. b1 = b /\ u1 = u
      BY <2>6 DEF Redeeming, SameLoans
    <3>3. CASE l = 0
      BY <3>1, <3>2, <3>3, <2>2, <2>3
    <3> QED
      BY <3>1, <3>2, <3>3, <2>2
  <2>7. CASE Borrowing(pool, pool')
    <3>1. PICK d \in Nat : \E r \in Nat :
            b1 = b + d /\ a1 = a - r /\ (r > 0 => u <= a1 * Wad)
      BY <2>7 DEF Borrowing
    <3>2. PICK r \in Nat : b1 = b + d /\ a1 = a - r /\ (r > 0 => u <= a1 * Wad)
      BY <3>1
    <3>3. u1 = u
      BY <2>7 DEF Borrowing
    <3>4. CASE r = 0
      BY <3>2, <3>3, <3>4, <2>2, <2>3
    <3> QED
      BY <3>2, <3>3, <3>4, <2>2
  <2>8. CASE Repaying(pool, pool')
    <3>1. PICK paid \in Nat : \E settled \in Nat :
            settled <= paid * Wad /\ b1 = b - settled /\ a1 = a + paid
      BY <2>8 DEF Repaying
    <3>2. PICK settled \in Nat :
            settled <= paid * Wad /\ b1 = b - settled /\ a1 = a + paid
      BY <3>1
    <3>3. a1 * Wad = a * Wad + paid * Wad /\ paid * Wad \in Nat
      BY <3>2, <2>2, Widths, Z3
    <3>4. u1 = u
      BY <2>8 DEF Repaying
    <3> QED
      BY <3>2, <3>3, <3>4, <2>2, <2>3
  <2>9. CASE Compounding(pool, pool')
    <3>1. a1 = a
      BY <2>9 DEF Compounding
    <3>2. PICK i \in Nat : b1 = b + i /\ u1 - u \in 0..i /\ (b = 0 => i = 0)
      BY <2>9 DEF Compounding
    <3> QED
      BY <3>1, <3>2, <2>2, <2>3
  <2> QED
    BY <1>2, <2>4, <2>5, <2>6, <2>7, <2>8, <2>9, PoolStep
<1> QED
  BY <1>1, <1>2

\* The quotient of a smaller by a larger number is one only if they agree.
LEMMA WholeShare ==
  ASSUME NEW b \in Nat \ {0}, NEW t \in Nat, b <= t
  PROVE  /\ (b * Wad) \div t \in 0..Wad
         /\ (b * Wad) \div t = Wad <=> b = t
<1> DEFINE q == (b * Wad) \div t
<1>1. b * Wad \in Nat /\ t \in Nat \ {0} /\ b * Wad <= t * Wad /\ t * Wad \in Nat
  BY Widths, ProductMonotone
<1>2. q \in Nat /\ q * t <= b * Wad /\ b * Wad < q * t + t
  BY <1>1, Quotient
<1> HIDE DEF q
<1>3. q <= Wad
  BY <1>1, <1>2, Widths, Z3
<1>4. q = Wad => b = t
  BY <1>1, <1>2, Widths, Z3
<1>5. b = t => q = Wad
  BY <1>1, <1>2, Widths, Z3
<1> QED
  BY <1>2, <1>3, <1>4, <1>5 DEF q

LEMMA UtilizationOfSolvent ==
  ASSUME NEW pl \in PoolRecord, Covered(pl), Solvent(pl), pl.borrowed_amount_wads >= One
  PROVE  UtilizationRate(pl) = One <=> Decimal(pl.available_amount) <= pl.owner_unclaimed
<1> DEFINE a == pl.available_amount
           b == pl.borrowed_amount_wads
           u == pl.owner_unclaimed
           t == TotalSupply(pl)
<1>1. /\ a \in Nat /\ b \in Nat /\ u \in Nat /\ b \in 0..MaxU128
      /\ Decimal(a) = a * Wad /\ a * Wad \in Nat
  BY BookTypes
<1>2. t = a * Wad + b - u
  BY SupplyOfCovered
<1>3. One = Wad /\ Wad > 0 /\ b > 0 /\ One # 0 /\ One # Err
  BY <1>1, Widths DEF One, Err
<1>4. t \in Nat /\ t > 0 /\ t # Err
  BY <1>1, <1>2, <1>3 DEF Solvent, Err
<1>5. /\ b > t => UtilizationRate(pl) = One
      /\ b <= t => UtilizationRate(pl) = ToScaledVal(TryDiv(b, t, DecimalMax))
  <2>1. ~(t = 0 \/ b < One) /\ t # Err
    BY <1>1, <1>3, <1>4, Widths
  <2>2. UtilizationRate(pl) = IF b > t THEN One ELSE ToScaledVal(TryDiv(b, t, DecimalMax))
    BY <2>1 DEF UtilizationRate
  <2>3. b <= t => ~(b > t)
    BY <1>1, <1>4
  <2> QED
    BY <2>2, <2>3
<1> HIDE DEF t
<1>6. CASE b > t
  <2>1. UtilizationRate(pl) = One
    BY <1>6, <1>5
  <2> QED
    BY <2>1, <1>1, <1>2, <1>6
<1>7. CASE b <= t
  <2>1. UtilizationRate(pl) = ToScaledVal(TryDiv(b, t, DecimalMax))
    BY <1>7, <1>5
  <2>2. b * Wad \in 0..MaxU192
    <3>1. b * Wad <= MaxU128 * Wad /\ b * Wad \in Nat /\ MaxU128 * Wad \in Nat
      BY <1>1, Widths, ProductMonotone
    <3> QED
      BY <3>1, FixedPointAssumption
  <2>3. TryDiv(b, t, DecimalMax) = (b * Wad) \div t
    BY <2>2, <1>1, <1>4, Widths, CheckedResult DEF TryDiv, DecimalMax, Err
  <2>4. (b * Wad) \div t \in 0..Wad /\ ((b * Wad) \div t = Wad <=> b = t)
    BY <1>1, <1>3, <1>4, <1>7, WholeShare
  <2>5. Wad <= MaxU128
    <3>1. Wad <= Wad * Wad /\ Wad * Wad \in Nat
      BY Widths, Z3
    <3> QED
      BY <3>1, FixedPointAssumption, Widths
  <2>6. UtilizationRate(pl) = (b * Wad) \div t
    BY <2>1, <2>3, <2>4, <2>5, Widths, CheckedResult DEF ToScaledVal, Err
  <2> QED
    BY <2>4, <2>6, <1>1, <1>2, <1>3, <1>7
<1> QED
  BY <1>1, <1>4, <1>6, <1>7

(***************************************************************************)
(* Utilization is one exactly when what is in the reserve is its owner's.  *)
(* That needs lenders who own something as long as anything is borrowed:   *)
(* else total_supply would be zero, and utilization_rate answer zero for a *)
(* reserve that is lent out.                                               *)
(***************************************************************************)
THEOREM FullUtilization == Spec => []FullyUsed
<1>1. Init => Solvent(pool)
  BY DEF Init, NewPool, Solvent
<1>2. TypeOK /\ FeeCovered /\ Solvent(pool) /\ [Next]_vars => Solvent(pool)'
  BY SolventStep
<1>3. TypeOK /\ FeeCovered /\ Solvent(pool) => FullyUsed
  BY UtilizationOfSolvent DEF TypeOK, FeeCovered, Covered, FullyUsed
<1> QED
  BY <1>1, <1>2, <1>3, LendingTypeOK, FeeStaysCovered, PTL DEF Spec

-----------------------------------------------------------------------------
(***************************************************************************)
(* The debts                                                               *)
(***************************************************************************)

LEMMA DebtTyped ==
  ASSUME NEW loan \in Loan, NEW cum \in 0..MaxU128
  PROVE  /\ Debt(loan, cum) \in Int
         /\ loan.borrowed_amount_wads \in Nat
         /\ loan.cumulative_borrow_rate_wads = cum =>
              Debt(loan, cum) = loan.borrowed_amount_wads
<1>1. Debt(loan, cum) # Err => Debt(loan, cum) \in Int
  BY DebtRange, Widths DEF DecimalMax
<1> QED
  BY <1>1, Widths DEF Debt, Err, Loan, DecimalMax

\* The factor by which a round multiplies, as it is computed.
LEMMA CompoundFactors ==
  ASSUME NEW pl \in PoolRecord, NEW c \in 0..RateMax, NEW fee, CanCompound(pl, c, fee)
  PROVE  LET new == Compound(pl, c, fee)
         IN  /\ c \in Nat /\ Wad <= c
             /\ new.borrowed_amount_wads = (pl.borrowed_amount_wads * c) \div Wad
             /\ new.cumulative_borrow_rate_wads
                  = (pl.cumulative_borrow_rate_wads * c) \div Wad
<1> DEFINE b == pl.borrowed_amount_wads
           cum == pl.cumulative_borrow_rate_wads
<1>1. c \in Nat /\ b \in Nat /\ cum \in Nat /\ DecimalMax \in Nat
  BY BookTypes, Widths DEF RateMax, DecimalMax
<1>2. TrySub(c, One, RateMax) # Err
  BY DEF CanCompound, NewUnclaimed, TryMul
<1>3. Wad <= c
  <2>1. TrySub(c, One, RateMax) = Checked(c - Wad, RateMax)
    BY <1>2 DEF TrySub, One
  <2> QED
    BY <2>1, <1>1, <1>2, Widths, CheckedResult DEF RateMax
<1> HIDE DEF b, cum
<1>4. TryMul(b, c, DecimalMax) # Err /\ TryMul(cum, c, DecimalMax) # Err
  BY DEF CanCompound, CumulativeRate, b, cum
<1>5. TryMul(b, c, DecimalMax) = (b * c) \div Wad
      /\ TryMul(cum, c, DecimalMax) = (cum * c) \div Wad
  BY <1>1, <1>4, ProductTaken
<1> QED
  BY <1>1, <1>3, <1>5 DEF Compound, CumulativeRate, PoolRecord, b, cum

(***************************************************************************)
(* The exact debts are fractions of different denominators.  To compare    *)
(* their sum with the books they are brought to a multiple k of all the    *)
(* cumulative rates, q[b] times the one of b.                              *)
(***************************************************************************)
Multiple(ls, q, k) ==
  \A b \in Borrowers : q[b] * ls[b].cumulative_borrow_rate_wads = k

Weighed(ls, q) ==
  SumFunctionOnSet([b \in Borrowers |-> ls[b].borrowed_amount_wads * q[b]], Borrowers)

\* The exact debts, times k, are near the books.
NearFor(ls, cum, B, n, k, q) ==
  Wad * (cum * Weighed(ls, q)) <= k * (Wad * B + n * cum)

Near(ls, cum, B, n) ==
  \A k \in Nat \ {0} : \A q \in [Borrowers -> Nat] :
    Multiple(ls, q, k) => NearFor(ls, cum, B, n, k, q)

NearBooks ==
  Near(loans, pool.cumulative_borrow_rate_wads, pool.borrowed_amount_wads, rounds)

\* A positive factor on both sides may be left out.
LEMMA Cancelled ==
  ASSUME NEW x \in Int, NEW y \in Int, NEW f \in Nat \ {0}, f * x <= f * y
  PROVE  x <= y
  BY Z3

LEMMA WeighedTyped ==
  ASSUME NEW ls \in [Borrowers -> Loan], NEW q \in [Borrowers -> Nat]
  PROVE  /\ \A b \in Borrowers : ls[b].borrowed_amount_wads \in Nat
                                 /\ ls[b].borrowed_amount_wads * q[b] \in Nat
         /\ Weighed(ls, q) \in Nat
<1> DEFINE f == [b \in Borrowers |-> ls[b].borrowed_amount_wads * q[b]]
<1>1. ASSUME NEW b \in Borrowers
      PROVE  ls[b].borrowed_amount_wads \in Nat
             /\ ls[b].borrowed_amount_wads * q[b] \in Nat
  <2>1. ls[b].borrowed_amount_wads \in Nat /\ q[b] \in Nat
    BY Widths DEF Loan, DecimalMax
  <2>2. \A x, y \in Nat : x * y \in Nat
    BY Z3
  <2> QED
    BY <2>1, <2>2
<1>2. \A b \in Borrowers : f[b] \in Nat
  BY <1>1
<1> HIDE DEF f
<1>3. SumFunctionOnSet(f, Borrowers) \in Nat
  BY <1>2, SumNatural, ReserveAssumption
<1> QED
  BY <1>1, <1>3 DEF Weighed, f

\* One loan changes its amount.
LEMMA WeighedChange ==
  ASSUME NEW ls \in [Borrowers -> Loan], NEW q \in [Borrowers -> Nat],
         NEW b \in Borrowers, NEW loan \in Loan
  PROVE  Weighed([ls EXCEPT ![b] = loan], q)
           = Weighed(ls, q) + (loan.borrowed_amount_wads * q[b]
                               - ls[b].borrowed_amount_wads * q[b])
<1> DEFINE new == [ls EXCEPT ![b] = loan]
           f == [x \in Borrowers |-> ls[x].borrowed_amount_wads * q[x]]
           g == [x \in Borrowers |-> new[x].borrowed_amount_wads * q[x]]
<1>1. new \in [Borrowers -> Loan] /\ new[b] = loan
      /\ \A x \in Borrowers \ {b} : new[x] = ls[x]
  OBVIOUS
<1> HIDE DEF new
<1>2. \A x \in Borrowers : f[x] \in Int /\ g[x] \in Int
  BY <1>1, WeighedTyped
<1>3. \A x \in Borrowers \ {b} : g[x] = f[x]
  BY <1>1
<1>4. g[b] = loan.borrowed_amount_wads * q[b] /\ f[b] = ls[b].borrowed_amount_wads * q[b]
  BY <1>1
<1> HIDE DEF f, g
<1>5. SumFunctionOnSet(g, Borrowers) = SumFunctionOnSet(f, Borrowers) + (g[b] - f[b])
  BY <1>2, <1>3, SumChange, ReserveAssumption
<1> QED
  BY <1>4, <1>5 DEF Weighed, f, g, new

\* There is a common multiple of positive numbers.
LEMMA MultipleExists ==
  ASSUME NEW c \in [Borrowers -> Nat \ {0}]
  PROVE  \E k \in Nat \ {0} : \E q \in [Borrowers -> Nat] :
           \A b \in Borrowers : q[b] * c[b] = k
<1> DEFINE Has(U) == \E k \in Nat \ {0} : \E q \in [Borrowers -> Nat] :
                       \A b \in U : q[b] * c[b] = k
           T == {U \in SUBSET Borrowers : Has(U)}
<1>1. {} \in T
  <2>1. [b \in Borrowers |-> 0] \in [Borrowers -> Nat] /\ 1 \in Nat \ {0}
    OBVIOUS
  <2> QED
    BY <2>1
<1>2. ASSUME NEW U \in SUBSET Borrowers, NEW a \in Borrowers \ U, U \in T
      PROVE  U \cup {a} \in T
  <2>1. PICK k \in Nat \ {0} : \E q \in [Borrowers -> Nat] :
               \A b \in U : q[b] * c[b] = k
    BY <1>2
  <2>2. PICK q \in [Borrowers -> Nat] : \A b \in U : q[b] * c[b] = k
    BY <2>1
  <2>3. PICK m \in Nat \ {0} : m = c[a]
    OBVIOUS
  <2> DEFINE r == [b \in Borrowers |-> IF b = a THEN k ELSE q[b] * m]
  <2>4. \A x, y, z \in Nat : x * y \in Nat /\ (x * z) * y = (x * y) * z
    BY Z3
  <2>5. k * m \in Nat \ {0}
    BY Z3
  <2>6. r \in [Borrowers -> Nat]
    BY <2>4
  <2>7. ASSUME NEW b \in U PROVE r[b] * c[b] = k * m
    <3>1. r[b] = q[b] * m /\ q[b] * c[b] = k /\ q[b] \in Nat /\ c[b] \in Nat
      BY <2>2
    <3> QED
      BY <2>4, <3>1
  <2>8. r[a] * c[a] = k * m
    BY <2>3
  <2> QED
    BY <2>5, <2>6, <2>7, <2>8
<1> HIDE DEF T
<1>3. IsFiniteSet(Borrowers) /\ Borrowers \in SUBSET Borrowers
  BY ReserveAssumption
<1>4. \A s \in SUBSET Borrowers : \A x \in Borrowers \ s : s \in T => s \cup {x} \in T
  BY <1>2
<1>5. \A s \in SUBSET Borrowers : s \in T
  BY ONLY <1>1, <1>3, <1>4, SubsetInduction
<1> QED
  BY <1>3, <1>5 DEF T

\* What a loan comes to is no more than its exact debt.
LEMMA DebtBelowExact ==
  ASSUME NEW loan \in Loan, NEW cum \in 0..MaxU128, Wad <= loan.cumulative_borrow_rate_wads
  PROVE  /\ loan.cumulative_borrow_rate_wads \in Nat \ {0}
         /\ loan.borrowed_amount_wads \in Nat /\ Debt(loan, cum) \in Int
         /\ loan.cumulative_borrow_rate_wads * Debt(loan, cum)
              <= cum * loan.borrowed_amount_wads
<1> DEFINE c == loan.cumulative_borrow_rate_wads
           b == loan.borrowed_amount_wads
           g == LoanGrowth(loan, cum)
<1>1. c \in Nat \ {0} /\ b \in Nat /\ cum \in Nat /\ Debt(loan, cum) \in Int
  BY Widths, DebtTyped DEF Loan, DecimalMax
<1> SUFFICES c * Debt(loan, cum) <= cum * b
  BY <1>1
<1>2. CASE cum = c
  BY <1>1, <1>2 DEF Debt
<1>3. CASE cum # c
  <2>1. Debt(loan, cum) = TryMul(b, g, DecimalMax)
    BY <1>3 DEF Debt
  <2> HIDE DEF b, c
  <2>2. CASE TryMul(b, g, DecimalMax) = Err
    <3>1. c * (-1) <= cum * b
      BY <1>1, Z3
    <3> QED
      BY <2>1, <2>2, <3>1 DEF Err
  <2>3. CASE TryMul(b, g, DecimalMax) # Err
    <3>1. g # Err
      BY <2>3 DEF TryMul
    <3>2. TryDiv(cum, c, DecimalMax) # Err
          /\ g = Checked(TryDiv(cum, c, DecimalMax), MaxU128)
      BY <3>1 DEF LoanGrowth, ToScaledVal, c
    <3>3. TryDiv(cum, c, DecimalMax) = (cum * Wad) \div c
      BY <3>2 DEF TryDiv
    <3>4. cum * Wad \in Nat
      BY <1>1, Widths, Z3
    <3>5. (cum * Wad) \div c \in Nat /\ ((cum * Wad) \div c) * c <= cum * Wad
      BY <1>1, <3>4, Quotient
    <3>6. g = (cum * Wad) \div c
      BY <3>1, <3>2, <3>3, <3>5, CheckedResult, Widths
    <3>7. g \in Nat /\ g * c <= cum * Wad
      BY <3>5, <3>6
    <3> HIDE DEF g
    <3>8. b * g \in Nat
      BY <1>1, <3>7, Z3
    <3>9. TryMul(b, g, DecimalMax) = (b * g) \div Wad
      BY <2>3 DEF TryMul
    <3>10. ((b * g) \div Wad) * Wad <= b * g /\ (b * g) \div Wad \in Nat
      BY <3>8, Widths, Quotient
    <3>11. PICK d \in Nat : d = (b * g) \div Wad
      BY <3>10
    <3>12. c * d <= cum * b
      <4>1. d * Wad <= b * g
        BY <3>10, <3>11
      <4>2. c * (d * Wad) <= c * (b * g) /\ b * (g * c) <= b * (cum * Wad)
        <5>1. d * Wad \in Int /\ b * g \in Int /\ g * c \in Int /\ cum * Wad \in Int
          BY <1>1, <3>7, Widths, Z3
        <5>2. \A f \in Nat : \A x, y \in Int : x <= y => f * x <= f * y
          BY Z3
        <5> QED
          BY <1>1, <3>7, <4>1, <5>1, <5>2
      <4>3. /\ c * (b * g) = b * (g * c)
            /\ c * (d * Wad) = Wad * (c * d) /\ b * (cum * Wad) = Wad * (cum * b)
            /\ c * d \in Int /\ cum * b \in Int
        BY <1>1, <3>7, Widths, Z3
      <4>4. Wad * (c * d) <= Wad * (cum * b)
        <5>1. /\ Wad * (c * d) \in Int /\ Wad * (cum * b) \in Int /\ b * (g * c) \in Int
          BY <1>1, <3>7, Widths, Z3
        <5> QED
          BY <4>2, <4>3, <5>1
      <4> QED
        BY <4>3, <4>4, Widths, Cancelled
    <3> QED
      BY <2>1, <3>9, <3>11, <3>12
  <2> QED
    BY <2>2, <2>3
<1> QED
  BY <1>2, <1>3

\* The arithmetic of a round: T the weighed debts, C and B the cumulative
\* rate and the amount before it.
LEMMA RoundStaysNear ==
  ASSUME NEW C \in Nat \ {0}, NEW T \in Nat, NEW B \in Nat, NEW f \in Nat,
         NEW n \in Nat, NEW k \in Nat, NEW C1 \in Nat, NEW B1 \in Nat,
         C1 = (C * f) \div Wad, B1 = (B * f) \div Wad, Wad <= C1,
         Wad * (C * T) <= k * (Wad * B + n * C)
  PROVE  Wad * (C1 * T) <= k * (Wad * B1 + (n + 1) * C1)
<1>1. \A x, y \in Nat : x * y \in Nat
  BY Z3
<1>2. \A m \in Nat : \A x, y \in Int : x <= y => m * x <= m * y
  BY Z3
<1>3. Wad * C1 <= C * f /\ B * f < Wad * B1 + Wad
  <2>1. C * f \in Nat /\ B * f \in Nat
    BY <1>1
  <2>2. /\ ((C * f) \div Wad) * Wad <= C * f
        /\ B * f < ((B * f) \div Wad) * Wad + Wad
    BY <2>1, Widths, Quotient
  <2>3. C1 * Wad = Wad * C1 /\ B1 * Wad = Wad * B1
    BY Widths, Z3
  <2> QED
    BY <2>2, <2>3
<1> DEFINE u == Wad * B
           v == n * C
           w == Wad * B1
           z == n * C1
           y == (n + 1) * C1
<1>4. u \in Nat /\ v \in Nat /\ w \in Nat /\ z \in Nat /\ y \in Nat /\ y = z + C1
  <2>1. (n + 1) * C1 = n * C1 + C1
    BY Z3
  <2> QED
    BY <1>1, <2>1, Widths
<1>5. B * f <= w + C1
  <2>1. B * f \in Nat /\ Wad \in Nat
    BY <1>1, Widths
  <2> QED
    BY <1>3, <1>4, <2>1
\* The hypothesis, times the new rate.
<1>6. C1 * (Wad * (C * T)) <= C1 * (k * (u + v))
  <2>1. C * T \in Nat /\ k * (u + v) \in Nat
    BY <1>1, <1>4
  <2>2. Wad * (C * T) \in Nat
    BY <1>1, <2>1, Widths
  <2> QED
    BY <1>2, <2>1, <2>2
<1>7. C1 * (u + v) <= C * (w + y)
  <2>1. C1 * u = B * (Wad * C1) /\ C1 * v = C * z
    BY Widths, Z3
  <2>2. B * (Wad * C1) <= B * (C * f)
    <3>1. Wad * C1 \in Nat /\ C * f \in Nat
      BY <1>1, Widths
    <3> QED
      BY <1>2, <1>3, <3>1
  <2>3. B * (C * f) = C * (B * f)
    BY Z3
  <2>4. C * (B * f) <= C * (w + C1)
    <3>1. PICK x \in Nat : x = B * f
      BY <1>1
    <3>2. PICK m \in Nat : m = w + C1
      BY <1>4
    <3>3. x <= m
      BY <1>5, <3>1, <3>2
    <3>4. C * x <= C * m
      BY <1>2, <3>3
    <3> QED
      BY <3>1, <3>2, <3>4
  <2>5. C1 * (u + v) = C1 * u + C1 * v /\ C * (w + y) = C * (w + C1) + C * z
    <3>1. \A a, b, c \in Int : a * (b + c) = a * b + a * c
      BY Z3
    <3>2. w + y = (w + C1) + z
      BY <1>4
    <3> QED
      BY <1>4, <3>1, <3>2
  <2>6. /\ C1 * u \in Nat /\ C1 * v \in Nat /\ C * z \in Nat
        /\ C * (w + C1) \in Nat /\ B * (C * f) \in Nat /\ B * (Wad * C1) \in Nat
    <3>1. C * f \in Nat /\ Wad * C1 \in Nat /\ w + C1 \in Nat
      BY <1>1, <1>4, Widths
    <3> QED
      BY <1>1, <1>4, <3>1
  <2> HIDE DEF u, v, w, z, y
  <2> QED
    BY <2>1, <2>2, <2>3, <2>4, <2>5, <2>6
<1> HIDE DEF u, v, w, z, y
<1>8. C1 * (k * (u + v)) <= C * (k * (w + y))
  <2>1. C1 * (k * (u + v)) = k * (C1 * (u + v)) /\ C * (k * (w + y)) = k * (C * (w + y))
    BY <1>4, Z3
  <2>2. C1 * (u + v) \in Nat /\ C * (w + y) \in Nat
    BY <1>1, <1>4
  <2> QED
    BY <1>2, <1>7, <2>1, <2>2
<1>9. C1 * (Wad * (C * T)) = C * (Wad * (C1 * T))
  BY Widths, Z3
<1>10. Wad * (C1 * T) \in Nat /\ k * (w + y) \in Nat
  <2>1. C1 * T \in Nat /\ w + y \in Nat
    BY <1>1, <1>4
  <2> QED
    BY <1>1, <2>1, Widths
<1>11. C * (Wad * (C1 * T)) <= C * (k * (w + y))
  <2>1. /\ C1 * (k * (u + v)) \in Nat
        /\ C * (Wad * (C1 * T)) \in Nat /\ C * (k * (w + y)) \in Nat
    <3>1. k * (u + v) \in Nat
      BY <1>1, <1>4
    <3> QED
      BY <1>1, <1>10, <3>1
  <2> QED
    BY <1>6, <1>8, <1>9, <2>1
<1> QED
  BY <1>10, <1>11, Cancelled DEF w, y

\* A round of interest lets the debts get one unit further ahead.
LEMMA CompoundStaysNear ==
  ASSUME TypeOK, TypeOK', LoansBehindReserve, LoansBehindReserve', NearBooks,
         NEW rate \in YearlyRates, NEW slots \in SlotCounts, CompoundInterest(rate, slots)
  PROVE  NearBooks'
<1> DEFINE f == CompoundedRate(rate, slots)
           C == pool.cumulative_borrow_rate_wads
           C1 == pool'.cumulative_borrow_rate_wads
           B == pool.borrowed_amount_wads
           B1 == pool'.borrowed_amount_wads
<1>1. /\ f \in Nat /\ Wad <= f
      /\ B1 = (B * f) \div Wad /\ C1 = (C * f) \div Wad
      /\ loans' = loans /\ rounds' = rounds + 1
  BY CompoundFactors DEF CompoundInterest, Stores, TypeOK
<1>2. /\ C \in Nat /\ C1 \in Nat /\ B \in Nat /\ B1 \in Nat /\ rounds \in Nat
      /\ loans \in [Borrowers -> Loan]
  BY BookTypes, ReserveAssumption, Widths DEF TypeOK
<1> HIDE DEF f
<1> SUFFICES ASSUME NEW k \in Nat \ {0}, NEW q \in [Borrowers -> Nat],
                    Multiple(loans, q, k)
             PROVE  Wad * (C1 * Weighed(loans, q)) <= k * (Wad * B1 + (rounds + 1) * C1)
  BY <1>1 DEF NearBooks, Near, NearFor
<1>3. Wad * (C * Weighed(loans, q)) <= k * (Wad * B + rounds * C)
  BY DEF NearBooks, Near, NearFor
<1>4. PICK T \in Nat : T = Weighed(loans, q)
  BY <1>2, WeighedTyped
<1>5. CASE Borrowers = {}
  <2>1. T = 0
    BY <1>4, <1>5, SumEmpty DEF Weighed
  <2> HIDE DEF C, C1, B, B1
  <2>2. Wad * (C1 * T) = 0
    BY <1>2, <2>1, Widths, Z3
  <2>3. k * (Wad * B1 + (rounds + 1) * C1) \in Nat
    <3>1. \A x, y \in Nat : x * y \in Nat
      BY Z3
    <3>2. Wad * B1 \in Nat /\ (rounds + 1) * C1 \in Nat
      BY <1>2, <3>1, Widths
    <3> QED
      BY <3>1, <3>2
  <2> QED
    BY <1>4, <2>2, <2>3
<1>6. CASE Borrowers # {}
  <2>1. Wad <= C /\ Wad <= C1 /\ C \in Nat \ {0}
    <3>1. PICK b \in Borrowers : TRUE
      BY <1>6
    <3>2. /\ Wad <= loans[b].cumulative_borrow_rate_wads
          /\ loans[b].cumulative_borrow_rate_wads <= C
          /\ loans[b].cumulative_borrow_rate_wads <= C1
      BY <1>1, <3>1 DEF LoansBehindReserve, One
    <3>3. loans[b].cumulative_borrow_rate_wads \in Nat
      BY <1>2, <3>1, Widths DEF Loan
    <3> QED
      BY <1>2, <3>2, <3>3, Widths
  <2> HIDE DEF C, C1, B, B1
  <2> QED
    BY <1>1, <1>2, <1>3, <1>4, <2>1, RoundStaysNear
<1> QED
  BY <1>5, <1>6

\* The arithmetic of a loan that is changed together with the reserve.
LEMMA LoanMovesNear ==
  ASSUME NEW C \in Nat, NEW T \in Nat, NEW B \in Nat, NEW n \in Nat, NEW k \in Nat,
         NEW m \in Nat, NEW d \in Int, m * C = k,
         Wad * (C * T) <= k * (Wad * B + n * C)
  PROVE  Wad * (C * (T + d * m)) <= k * (Wad * (B + d) + n * C)
<1>1. \A x, y, z \in Int : x * (y + z) = x * y + x * z /\ x * y \in Int
  BY Z3
<1>2. C * (T + d * m) = C * T + d * k
  <2>1. C * (d * m) = d * (m * C) /\ d * m \in Int
    BY Z3
  <2> QED
    BY <1>1, <2>1
<1>3. C * T \in Int /\ d * k \in Int /\ n * C \in Int /\ Wad * B \in Int /\ Wad * d \in Int
  BY <1>1, Widths
<1>4. Wad * (C * T + d * k) = Wad * (C * T) + Wad * (d * k)
  BY <1>1, <1>3, Widths
<1>5. k * (Wad * (B + d) + n * C) = k * (Wad * B + n * C) + k * (Wad * d)
  <2>1. Wad * (B + d) + n * C = (Wad * B + n * C) + Wad * d
    <3>1. Wad * (B + d) = Wad * B + Wad * d
      BY <1>1, Widths
    <3> QED
      BY <1>3, <3>1
  <2>2. Wad * B + n * C \in Int
    BY <1>3
  <2> QED
    BY <1>1, <1>3, <2>1, <2>2
<1>6. Wad * (d * k) = k * (Wad * d)
  BY Widths, Z3
<1>7. /\ Wad * (C * T) \in Int /\ k * (Wad * B + n * C) \in Int
      /\ Wad * (d * k) \in Int /\ k * (Wad * d) \in Int
  <2>1. Wad * B + n * C \in Int
    BY <1>3
  <2> QED
    BY <1>1, <1>3, <2>1, Widths
<1>8. Wad * (C * T) + Wad * (d * k) <= k * (Wad * B + n * C) + k * (Wad * d)
  BY <1>6, <1>7
<1> QED
  BY <1>2, <1>4, <1>5, <1>8

\* A loan that takes up interest rounds down, and q takes the new rate.
LEMMA AccrualStaysNear ==
  ASSUME NEW ls \in [Borrowers -> Loan], NEW C \in 0..MaxU128, NEW B \in Nat, NEW n \in Nat,
         NEW b \in Borrowers, Wad <= ls[b].cumulative_borrow_rate_wads,
         Debt(ls[b], C) \in Nat, Accrue(ls[b], C) \in Loan, Near(ls, C, B, n)
  PROVE  Near([ls EXCEPT ![b] = Accrue(ls[b], C)], C, B, n)
<1> DEFINE new == [ls EXCEPT ![b] = Accrue(ls[b], C)]
<1> SUFFICES ASSUME NEW k \in Nat \ {0}, NEW q \in [Borrowers -> Nat], Multiple(new, q, k)
             PROVE  Wad * (C * Weighed(new, q)) <= k * (Wad * B + n * C)
  BY DEF Near, NearFor
<1>1. PICK c \in Nat \ {0} : c = ls[b].cumulative_borrow_rate_wads
  BY DebtBelowExact
<1>2. PICK D \in Nat : D = Debt(ls[b], C)
  OBVIOUS
<1>3. PICK a \in Nat : a = ls[b].borrowed_amount_wads
  BY DebtBelowExact
<1>4. c * D <= C * a
  BY <1>1, <1>2, <1>3, DebtBelowExact
<1>5. /\ new[b].cumulative_borrow_rate_wads = C /\ new[b].borrowed_amount_wads = D
      /\ new \in [Borrowers -> Loan] /\ \A x \in Borrowers \ {b} : new[x] = ls[x]
  BY <1>2 DEF Accrue
<1>6. C \in Nat
  BY Widths
<1> HIDE DEF new
<1>7. \A x, y \in Nat : x * y \in Nat
  BY Z3
<1>8. k * c \in Nat \ {0}
  BY Z3
<1> DEFINE r == [x \in Borrowers |-> IF x = b THEN k ELSE q[x] * c]
           f == [x \in Borrowers |-> new[x].borrowed_amount_wads * q[x]]
           g == [x \in Borrowers |-> ls[x].borrowed_amount_wads * r[x]]
<1>9. r \in [Borrowers -> Nat]
  BY <1>7
<1>10. q[b] * C = k /\ \A x \in Borrowers \ {b} : q[x] * ls[x].cumulative_borrow_rate_wads = k
  BY <1>5 DEF Multiple
<1>11. Multiple(ls, r, k * c)
  <2>1. r[b] * ls[b].cumulative_borrow_rate_wads = k * c
    BY <1>1
  <2>2. ASSUME NEW x \in Borrowers \ {b}
        PROVE  r[x] * ls[x].cumulative_borrow_rate_wads = k * c
    <3>1. PICK z \in Nat : z = ls[x].cumulative_borrow_rate_wads
      BY Widths DEF Loan
    <3>2. PICK y \in Nat : y = q[x]
      OBVIOUS
    <3>3. y * z = k /\ r[x] = y * c
      BY <1>10, <3>1, <3>2
    <3>4. (y * c) * z = (y * z) * c
      BY Z3
    <3> QED
      BY <3>1, <3>3, <3>4
  <2> HIDE DEF r
  <2> QED
    BY <2>1, <2>2 DEF Multiple
<1>12. ASSUME NEW x \in Borrowers
       PROVE  f[x] \in Int /\ g[x] \in Int /\ c * f[x] <= 1 * g[x]
  <2>1. f[x] \in Nat
    BY <1>5, WeighedTyped
  <2>2. g[x] \in Nat
    <3> HIDE DEF r
    <3> QED
      BY <1>9, WeighedTyped
  <2>3. CASE x = b
    <3>1. PICK y \in Nat : y = q[b]
      OBVIOUS
    <3>2. f[x] = D * y /\ g[x] = a * k /\ y * C = k
      BY <1>3, <1>5, <1>10, <2>3, <3>1
    <3>3. \A u \in Nat : \A s, t \in Nat : s <= t => u * s <= u * t
      BY Z3
    <3>4. c * D \in Nat /\ C * a \in Nat
      BY <1>6, <1>7
    <3>5. y * (c * D) <= y * (C * a)
      BY <1>4, <3>3, <3>4
    <3>6. y * (c * D) = c * (D * y) /\ y * (C * a) = a * (y * C)
      BY <1>6, Z3
    <3>7. c * (D * y) <= a * k
      BY <3>2, <3>5, <3>6
    <3> HIDE DEF f, g
    <3> QED
      BY <2>1, <2>2, <3>2, <3>7
  <2>4. CASE x # b
    <3>1. PICK z \in Nat : z = ls[x].borrowed_amount_wads
      BY WeighedTyped
    <3>2. PICK y \in Nat : y = q[x]
      OBVIOUS
    <3>3. f[x] = z * y /\ g[x] = z * (y * c)
      BY <1>5, <2>4, <3>1, <3>2
    <3>4. c * (z * y) = z * (y * c)
      BY Z3
    <3> HIDE DEF f, g
    <3> QED
      BY <2>1, <2>2, <3>3, <3>4
  <2> QED
    BY <2>1, <2>2, <2>3, <2>4
<1>13. PICK S \in Nat : S = Weighed(new, q)
  BY <1>5, WeighedTyped
<1>14. PICK T \in Nat : T = Weighed(ls, r)
  <2> HIDE DEF r
  <2> QED
    BY <1>9, WeighedTyped
<1>15. c * S <= T
  <2>1. SumFunctionOnSet(f, Borrowers) = S /\ SumFunctionOnSet(g, Borrowers) = T
    BY <1>13, <1>14 DEF Weighed
  <2> HIDE DEF f, g
  <2>2. c * SumFunctionOnSet(f, Borrowers) <= 1 * SumFunctionOnSet(g, Borrowers)
    <3>1. c \in Int /\ 1 \in Int /\ IsFiniteSet(Borrowers)
      BY ReserveAssumption
    <3>2. \A x \in Borrowers : f[x] \in Int /\ g[x] \in Int /\ c * f[x] <= 1 * g[x]
      BY <1>12
    <3> QED
      BY ONLY <3>1, <3>2, SumScaled
  <2> QED
    BY <2>1, <2>2
<1>16. Wad * (C * T) <= (k * c) * (Wad * B + n * C)
  <2> HIDE DEF r, f, g
  <2> QED
    BY <1>8, <1>9, <1>11, <1>14 DEF Near, NearFor
<1> HIDE DEF r, f, g
<1>17. Wad * (C * S) <= k * (Wad * B + n * C)
  <2>1. PICK y \in Nat : y = Wad * B + n * C
    <3>1. Wad * B \in Nat /\ n * C \in Nat
      BY <1>6, <1>7, Widths
    <3> QED
      BY <3>1
  <2>2. (k * c) * y = c * (k * y)
    BY Z3
  <2>3. c * (Wad * (C * S)) <= Wad * (C * T)
    <3>1. PICK w \in Nat : w = Wad * C
      BY <1>6, <1>7, Widths
    <3>2. c * (Wad * (C * S)) = (Wad * C) * (c * S) /\ Wad * (C * T) = (Wad * C) * T
      BY <1>6, Widths, Z3
    <3>3. c * S \in Nat
      BY <1>7
    <3>4. \A s, t \in Nat : s <= t => w * s <= w * t
      BY Z3
    <3> QED
      BY <1>15, <3>1, <3>2, <3>3, <3>4
  <2>4. Wad * (C * S) \in Nat /\ k * y \in Nat /\ Wad * (C * T) \in Nat
    <3>1. C * S \in Nat /\ C * T \in Nat
      BY <1>6, <1>7
    <3> QED
      BY <1>7, <3>1, Widths
  <2>5. c * (Wad * (C * S)) \in Nat /\ c * (k * y) \in Nat
    BY <1>7, <2>4
  <2>6. c * (Wad * (C * S)) <= c * (k * y)
    BY <1>16, <2>1, <2>2, <2>3, <2>4, <2>5
  <2> QED
    BY <2>1, <2>4, <2>6, Cancelled
<1> QED
  BY <1>13, <1>17

\* The steps that change one loan, and those that change none.
LEMMA LoanStepsStayNear ==
  ASSUME TypeOK, TypeOK', LoansBehindReserve, NearBooks, Next,
         ~\E rate \in YearlyRates, slots \in SlotCounts : CompoundInterest(rate, slots)
  PROVE  NearBooks'
<1> DEFINE cum == pool.cumulative_borrow_rate_wads
           B == pool.borrowed_amount_wads
<1>1. /\ cum \in 0..MaxU128 /\ B \in Nat /\ pool \in PoolRecord /\ rounds \in Nat
      /\ loans \in [Borrowers -> Loan] /\ loans' \in [Borrowers -> Loan]
  BY BookTypes, ReserveAssumption DEF TypeOK
<1>2. Near(loans, cum, B, rounds)
  BY DEF NearBooks
<1>3. ASSUME loans' = loans, rounds' = rounds, pool'.cumulative_borrow_rate_wads = cum,
             pool'.borrowed_amount_wads = B
      PROVE  NearBooks'
  <2>1. NearBooks' <=> Near(loans, cum, B, rounds)
    BY <1>3 DEF NearBooks
  <2> QED
    BY <1>2, <2>1
<1>4. ASSUME NEW b \in Borrowers, NEW loan \in Loan, NEW d \in Int,
             loans' = [loans EXCEPT ![b] = loan], rounds' = rounds,
             pool'.cumulative_borrow_rate_wads = cum,
             pool'.borrowed_amount_wads = B + d,
             loans[b].cumulative_borrow_rate_wads = cum,
             loan.cumulative_borrow_rate_wads = cum,
             loan.borrowed_amount_wads = loans[b].borrowed_amount_wads + d
      PROVE  NearBooks'
  <2>1. NearBooks' <=> Near(loans', cum, B + d, rounds)
    BY <1>4 DEF NearBooks
  <2> SUFFICES ASSUME NEW k \in Nat \ {0}, NEW q \in [Borrowers -> Nat],
                      Multiple(loans', q, k)
               PROVE  Wad * (cum * Weighed(loans', q))
                        <= k * (Wad * (B + d) + rounds * cum)
    BY <2>1 DEF Near, NearFor
  <2>2. Multiple(loans, q, k) /\ q[b] * cum = k
    BY <1>1, <1>4 DEF Multiple
  <2>3. PICK T \in Nat : T = Weighed(loans, q)
    BY <1>1, WeighedTyped
  <2>4. Wad * (cum * T) <= k * (Wad * B + rounds * cum)
    BY <1>2, <2>2, <2>3 DEF Near, NearFor
  <2>5. Weighed(loans', q) = T + d * q[b]
    <3>1. PICK a \in Nat : a = loans[b].borrowed_amount_wads
      BY <1>1, WeighedTyped
    <3>2. PICK y \in Nat : y = q[b]
      OBVIOUS
    <3>3. Weighed([loans EXCEPT ![b] = loan], q)
            = Weighed(loans, q) + (loan.borrowed_amount_wads * q[b]
                                   - loans[b].borrowed_amount_wads * q[b])
      BY <1>1, WeighedChange
    <3>4. Weighed(loans', q) = T + ((a + d) * y - a * y)
      BY <1>4, <2>3, <3>1, <3>2, <3>3
    <3>5. (a + d) * y = a * y + d * y /\ a * y \in Int /\ d * y \in Int
      BY Z3
    <3> QED
      BY <3>2, <3>4, <3>5
  <2>6. cum \in Nat
    BY <1>1, Widths
  <2>7. PICK m \in Nat : m = q[b]
    OBVIOUS
  <2> HIDE DEF cum, B
  <2>8. Wad * (cum * (T + d * m)) <= k * (Wad * (B + d) + rounds * cum)
    BY <1>1, <2>2, <2>4, <2>6, <2>7, LoanMovesNear
  <2> QED
    BY <2>5, <2>7, <2>8
<1>5. ASSUME NEW n, Lend(n) \/ Redeem(n) PROVE NearBooks'
  BY <1>1, <1>3, <1>5
     DEF Lend, Redeem, Stores, DepositLiquidity, RedeemCollateral, PoolRecord
<1>6. ASSUME NEW b \in Borrowers, NEW d \in Loans, TakeUp(b, d) PROVE NearBooks'
  <2>1. d \in Int
    BY ReserveAssumption, Widths DEF DecimalMax
  <2>2. /\ pool'.cumulative_borrow_rate_wads = cum /\ rounds' = rounds
        /\ pool'.borrowed_amount_wads = B + d
    BY <1>1, <1>6 DEF TakeUp, Stores, Borrow, PoolRecord
  <2>3. loans' = [loans EXCEPT ![b] = LoanBorrow(loans[b], d)] /\ UpToDate(b)
    BY <1>6 DEF TakeUp
  <2>4. LoanBorrow(loans[b], d) \in Loan
    BY <1>1, <2>3
  <2>5. /\ LoanBorrow(loans[b], d).cumulative_borrow_rate_wads = cum
        /\ LoanBorrow(loans[b], d).borrowed_amount_wads = loans[b].borrowed_amount_wads + d
    BY <1>1, <2>3 DEF LoanBorrow, Loan, UpToDate
  <2> QED
    BY <1>4, <2>1, <2>2, <2>3, <2>4, <2>5 DEF UpToDate
<1>7. ASSUME NEW b \in Borrowers, NEW paid, NEW s \in Nat, PayBack(b, paid, s)
      PROVE  NearBooks'
  <2>1. 0 - s \in Int /\ (\A x \in Nat : x - s = x + (0 - s))
    OBVIOUS
  <2>2. /\ pool'.cumulative_borrow_rate_wads = cum /\ rounds' = rounds
        /\ pool'.borrowed_amount_wads = B + (0 - s)
    BY <1>1, <1>7, <2>1 DEF PayBack, Stores, Repay, PoolRecord
  <2>3. loans' = [loans EXCEPT ![b] = LoanRepay(loans[b], s)] /\ UpToDate(b)
    BY <1>7 DEF PayBack
  <2>4. LoanRepay(loans[b], s) \in Loan
    BY <1>1, <2>3
  <2>5. /\ LoanRepay(loans[b], s).cumulative_borrow_rate_wads = cum
        /\ LoanRepay(loans[b], s).borrowed_amount_wads
             = loans[b].borrowed_amount_wads + (0 - s)
    <3>1. loans[b].borrowed_amount_wads \in Nat
      BY <1>1, DebtTyped
    <3>2. /\ LoanRepay(loans[b], s).cumulative_borrow_rate_wads = cum
          /\ LoanRepay(loans[b], s).borrowed_amount_wads = loans[b].borrowed_amount_wads - s
      BY <1>1, <2>3 DEF LoanRepay, Loan, UpToDate
    <3> QED
      BY <2>1, <3>1, <3>2
  <2> QED
    BY <1>4, <2>1, <2>2, <2>3, <2>4, <2>5 DEF UpToDate
<1>8. ASSUME NEW b \in Borrowers, AccrueInterest(b) PROVE NearBooks'
  <2>1. loans' = [loans EXCEPT ![b] = Accrue(loans[b], cum)] /\ pool' = pool
        /\ rounds' = rounds /\ Debt(loans[b], cum) # Err
    BY <1>8 DEF AccrueInterest, CanAccrue
  <2>2. Accrue(loans[b], cum) \in Loan
    BY <1>1, <2>1
  <2>3. Debt(loans[b], cum) \in Nat
    BY <2>2, Widths DEF Accrue, Loan, DecimalMax
  <2>4. Wad <= loans[b].cumulative_borrow_rate_wads
    BY DEF LoansBehindReserve, One
  <2>5. NearBooks' <=> Near([loans EXCEPT ![b] = Accrue(loans[b], cum)], cum, B, rounds)
    BY <2>1 DEF NearBooks
  <2> HIDE DEF cum, B
  <2>6. Near([loans EXCEPT ![b] = Accrue(loans[b], cum)], cum, B, rounds)
    BY <1>1, <1>2, <2>2, <2>3, <2>4, AccrualStaysNear
  <2> QED
    BY <2>5, <2>6
<1>9. CASE \E b \in Borrowers, r \in Repayments : PayBack(b, r[1], r[2])
  <2>1. \A r \in Repayments : r[2] \in Nat
    BY ReserveAssumption, Widths DEF DecimalMax
  <2> QED
    BY <1>7, <1>9, <2>1
<1>10. CASE \E b \in Borrowers : Close(b)
  <2>1. \A b \in Borrowers : loans[b].borrowed_amount_wads \in Nat
    BY <1>1, DebtTyped
  <2> QED
    BY <1>7, <1>10, <2>1 DEF Close
<1> QED
  BY <1>5, <1>6, <1>8, <1>9, <1>10 DEF Next

\* The books from the exact debts to what the loans come to.
LEMMA NearInUnits ==
  ASSUME TypeOK, LoansBehindReserve, NearBooks
  PROVE  DebtsNearTheBooks
<1> DEFINE C == pool.cumulative_borrow_rate_wads
           B == pool.borrowed_amount_wads
           c == [b \in Borrowers |-> loans[b].cumulative_borrow_rate_wads]
           f == [b \in Borrowers |-> IF Debt(loans[b], C) = Err THEN 0 ELSE Debt(loans[b], C)]
<1>1. /\ C \in 0..MaxU128 /\ C \in Nat /\ B \in Nat /\ rounds \in Nat
      /\ loans \in [Borrowers -> Loan]
  BY BookTypes, ReserveAssumption, Widths DEF TypeOK
<1>2. ASSUME NEW b \in Borrowers
      PROVE  /\ c[b] \in Nat \ {0} /\ f[b] \in Int
             /\ loans[b].borrowed_amount_wads \in Nat
             /\ c[b] * f[b] <= C * loans[b].borrowed_amount_wads
  <2>1. Wad <= loans[b].cumulative_borrow_rate_wads
    BY DEF LoansBehindReserve, One
  <2> DEFINE a == loans[b].borrowed_amount_wads
             debt == Debt(loans[b], C)
  <2> HIDE DEF C
  <2>2. c[b] \in Nat \ {0} /\ a \in Nat /\ debt \in Int /\ c[b] * debt <= C * a
    BY <1>1, <2>1, DebtBelowExact
  <2>3. CASE debt = Err
    <3>1. C * a \in Nat /\ c[b] * 0 = 0
      BY <1>1, <2>2, Z3
    <3> QED
      BY <2>2, <2>3, <3>1
  <2>4. CASE debt # Err
    BY <2>2, <2>4
  <2> QED
    BY <2>3, <2>4
<1>3. PICK k \in Nat \ {0} : \E q \in [Borrowers -> Nat] :
        \A b \in Borrowers : q[b] * c[b] = k
  <2>1. c \in [Borrowers -> Nat \ {0}]
    BY <1>2
  <2> HIDE DEF c
  <2> QED
    BY <2>1, MultipleExists
<1>4. PICK q \in [Borrowers -> Nat] : \A b \in Borrowers : q[b] * c[b] = k
  BY <1>3
<1>5. Multiple(loans, q, k)
  BY <1>4 DEF Multiple
<1> DEFINE g == [b \in Borrowers |-> loans[b].borrowed_amount_wads * q[b]]
<1>6. PICK T \in Nat : T = Weighed(loans, q)
  BY <1>1, WeighedTyped
<1>7. Wad * (C * T) <= k * (Wad * B + rounds * C)
  BY <1>5, <1>6 DEF NearBooks, Near, NearFor
<1> HIDE DEF C, B, c, f
<1>8. ASSUME NEW b \in Borrowers
      PROVE  g[b] \in Int /\ k * f[b] <= C * g[b]
  <2>1. PICK y \in Nat : y = q[b]
    OBVIOUS
  <2>2. PICK a \in Nat : a = loans[b].borrowed_amount_wads
    BY <1>2
  <2>3. PICK h \in Nat : h = c[b]
    BY <1>2
  <2>4. PICK D \in Int : D = f[b]
    BY <1>2
  <2>5. h * D <= C * a /\ y * h = k /\ g[b] = a * y
    BY <1>2, <1>4, <2>1, <2>2, <2>3, <2>4
  <2>6. \A s, t \in Int : s * t \in Int
    BY Z3
  <2>7. \A s, t \in Int : s <= t => y * s <= y * t
    BY Z3
  <2>8. h * D \in Int /\ C * a \in Int /\ a * y \in Int
    BY <1>1, <2>6
  <2>9. y * (h * D) <= y * (C * a)
    BY <2>5, <2>7, <2>8
  <2>10. y * (h * D) = (y * h) * D /\ y * (C * a) = C * (a * y)
    BY <1>1, Z3
  <2> HIDE DEF g
  <2> QED
    BY <2>4, <2>5, <2>8, <2>9, <2>10
<1> DEFINE O == SumFunctionOnSet(f, Borrowers)
<1>9. O \in Int /\ k * O <= C * T
  <2>1. IsFiniteSet(Borrowers) /\ k \in Int /\ C \in Int
    BY <1>1, ReserveAssumption
  <2>2. \A b \in Borrowers : f[b] \in Int /\ g[b] \in Int /\ k * f[b] <= C * g[b]
    BY <1>2, <1>8
  <2>3. T = SumFunctionOnSet(g, Borrowers)
    BY <1>6 DEF Weighed
  <2> HIDE DEF g
  <2>4. O \in Int
    BY ONLY <2>1, <2>2, SumType
  <2>5. k * SumFunctionOnSet(f, Borrowers) <= C * SumFunctionOnSet(g, Borrowers)
    BY ONLY <2>1, <2>2, SumScaled
  <2> QED
    BY <2>3, <2>4, <2>5
<1>10. DebtsNearTheBooks <=> Wad * (O - B) <= rounds * C
  BY DEF DebtsNearTheBooks, DebtOf, SumFunction, f, C, B
<1> HIDE DEF O, g
<1>11. Wad * (O - B) <= rounds * C
  <2>1. PICK y \in Nat : y = rounds * C
    BY <1>1, Z3
  <2>2. PICK w \in Nat : w = Wad * B
    BY <1>1, Widths, Z3
  <2>3. k * (Wad * O) <= k * (w + y)
    <3>1. \A s, t \in Int : s * t \in Int
      BY Z3
    <3>2. k * O \in Int /\ C * T \in Int /\ w + y \in Int
      BY <1>1, <1>9, <3>1
    <3>3. \A s, t \in Int : s <= t => Wad * s <= Wad * t
      BY Widths, Z3
    <3>4. Wad * (k * O) <= Wad * (C * T)
      BY <1>9, <3>2, <3>3
    <3>5. k * (Wad * O) = Wad * (k * O)
      BY <1>9, Widths, Z3
    <3>6. k * (Wad * O) \in Int /\ Wad * (C * T) \in Int /\ k * (w + y) \in Int
      BY <1>9, <3>1, <3>2, Widths
    <3> QED
      BY <1>7, <2>1, <2>2, <3>4, <3>5, <3>6
  <2>4. Wad * O \in Int /\ w + y \in Int
    BY <1>9, Widths, Z3
  <2>5. Wad * O <= w + y
    BY <2>3, <2>4, Cancelled
  <2>6. Wad * (O - B) = Wad * O - Wad * B
    BY <1>1, <1>9, Widths, Z3
  <2> QED
    BY <2>1, <2>2, <2>4, <2>5, <2>6
<1> QED
  BY <1>10, <1>11

(***************************************************************************)
(* Whatever the order in which loans take up interest, and however many    *)
(* rounds they let pass, the debts stay near what the reserve counts as    *)
(* borrowed, for any number of borrowers.                                  *)
(***************************************************************************)
THEOREM DebtsStayNear == Spec => []DebtsNearTheBooks
<1>1. Init => NearBooks
  <2> SUFFICES ASSUME Init, NEW k \in Nat \ {0}, NEW q \in [Borrowers -> Nat]
               PROVE  LET C == pool.cumulative_borrow_rate_wads
                          B == pool.borrowed_amount_wads
                      IN  Wad * (C * Weighed(loans, q)) <= k * (Wad * B + rounds * C)
    BY DEF NearBooks, Near, NearFor
  <2> DEFINE f == [b \in Borrowers |-> loans[b].borrowed_amount_wads * q[b]]
             C == pool.cumulative_borrow_rate_wads
  <2>1. \A b \in Borrowers : f[b] = 0
    <3>1. \A b \in Borrowers : loans[b].borrowed_amount_wads = 0 /\ q[b] \in Nat
      BY DEF Init, NewLoan
    <3>2. \A x \in Nat : 0 * x = 0
      OBVIOUS
    <3> QED
      BY <3>1, <3>2
  <2>2. Weighed(loans, q) = SumFunctionOnSet(f, Borrowers)
    BY DEF Weighed
  <2> HIDE DEF f
  <2>3. SumFunctionOnSet(f, Borrowers) = 0
    <3>1. \A b \in Borrowers : f[b] \in Nat
      BY <2>1
    <3> QED
      BY <2>1, <3>1, SumNatural, ReserveAssumption
  <2>4. pool.borrowed_amount_wads = 0 /\ rounds = 0 /\ C = Wad
    BY DEF Init, NewPool, One
  <2>5. Wad * (Wad * 0) = 0 /\ k * (Wad * 0 + 0 * Wad) = 0
    BY Widths, Z3
  <2> QED
    BY <2>2, <2>3, <2>4, <2>5
<1>2. ASSUME TypeOK, TypeOK', LoansBehindReserve, LoansBehindReserve', NearBooks, [Next]_vars
      PROVE  NearBooks'
  <2>1. CASE UNCHANGED vars
    BY <1>2, <2>1 DEF vars, NearBooks
  <2>2. CASE \E rate \in YearlyRates, slots \in SlotCounts : CompoundInterest(rate, slots)
    BY <1>2, <2>2, CompoundStaysNear
  <2> QED
    BY <1>2, <2>1, <2>2, LoanStepsStayNear
<1>3. TypeOK /\ LoansBehindReserve /\ NearBooks => DebtsNearTheBooks
  BY NearInUnits
<1> QED
  BY <1>1, <1>2, <1>3, LendingTypeOK, LoansBehind, PTL DEF Spec

=============================================================================
