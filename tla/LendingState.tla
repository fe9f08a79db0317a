---------------------------- MODULE LendingState ----------------------------
(***************************************************************************)
(* The lending functions of src/src/state/pool.rs (ReserveLiquidity) and   *)
(* the loan of src/src/state/ticket.rs (ObligationLiquidity).  No          *)
(* instruction calls them yet: they are a library on the Pool record, and  *)
(* are pure operators here as the others of PoolState.  Of a loan the two  *)
(* fields are kept that a function of the source changes.                  *)
(***************************************************************************)
EXTENDS PoolState

CONSTANT SlotsPerYear   \* SLOTS_PER_YEAR

ASSUME LendingAssumption == SlotsPerYear \in Nat \ {0}

\* A mutation: an odd exponent does not start from the base.
PowWithoutOddFactor(rate, exponent) ==
  LET Loop[s \in Nat \X Int \X Int] ==
        LET half   == s[1] \div 2
            square == TryMul(s[2], s[2], RateMax)
            ret    == IF half % 2 = 1 THEN TryMul(s[3], square, RateMax) ELSE s[3]
        IN  IF s[1] = 0 THEN s[3]
            ELSE IF square = Err THEN Err
            ELSE Loop[<<half, square, ret>>]
  IN  Loop[<<exponent, rate, One>>]

\* A mutation: an even exponent starts from the base too.
PowFromBase(rate, exponent) ==
  LET Loop[s \in Nat \X Int \X Int] ==
        LET half   == s[1] \div 2
            square == TryMul(s[2], s[2], RateMax)
            ret    == IF half % 2 = 1 THEN TryMul(s[3], square, RateMax) ELSE s[3]
        IN  IF s[1] = 0 THEN s[3]
            ELSE IF square = Err THEN Err
            ELSE Loop[<<half, square, ret>>]
  IN  Loop[<<exponent, rate, IF exponent = 0 THEN One ELSE rate>>]

\* A mutation: the products are not checked and wrap around.
PowWrapping(rate, exponent) ==
  LET Product(x, y) == ((x * y) % (RateMax + 1)) \div Wad
      Loop[s \in Nat \X Int \X Int] ==
        LET half   == s[1] \div 2
            square == Product(s[2], s[2])
            ret    == IF half % 2 = 1 THEN Product(s[3], square) ELSE s[3]
        IN  IF s[1] = 0 THEN s[3] ELSE Loop[<<half, square, ret>>]
  IN  Loop[<<exponent, rate, IF exponent % 2 = 1 THEN rate ELSE One>>]

\* A mutation: the loop turns once more.
PowOneTurnMore(rate, exponent) ==
  LET Loop[s \in Nat \X Int \X Int] ==
        LET half   == s[1] \div 2
            square == TryMul(s[2], s[2], RateMax)
            ret    == IF half % 2 = 1 THEN TryMul(s[3], square, RateMax) ELSE s[3]
        IN  IF square = Err THEN Err
            ELSE IF s[1] = 0 THEN s[3]
            ELSE Loop[<<half, square, ret>>]
  IN  Loop[<<exponent, rate, IF exponent % 2 = 1 THEN rate ELSE One>>]

(***************************************************************************)
(* Rate::try_pow: one turn of the loop for each bit of the exponent, on    *)
(* what is left of it, the base and the result.  The base is squared in    *)
(* the last turn too, after which it is not used.                          *)
(***************************************************************************)
TryPow(rate, exponent) ==
  LET Loop[s \in Nat \X Int \X Int] ==
        LET half   == s[1] \div 2
            square == TryMul(s[2], s[2], RateMax)
            ret    == IF half % 2 = 1 THEN TryMul(s[3], square, RateMax) ELSE s[3]
        IN  IF s[1] = 0 THEN s[3]
            ELSE IF square = Err THEN Err
            ELSE Loop[<<half, square, ret>>]
  IN  IF rate = Err THEN Err
      ELSE Loop[<<exponent, rate, IF exponent % 2 = 1 THEN rate ELSE One>>]

(***************************************************************************)
(* ReserveLiquidity::borrow and repay                                      *)
(***************************************************************************)

\* A mutation: the amount is rounded down before it is compared.
CanBorrowFloored(pl, d) ==
  /\ TryFloorU64(d) # Err /\ LiquidityAmount(pl) # Err
  /\ TryFloorU64(d) <= LiquidityAmount(pl)
  /\ TryRoundU64(d, DecimalMax) \in 0..pl.available_amount
  /\ TryAdd(pl.borrowed_amount_wads, d, DecimalMax) # Err

CanBorrow(pl, d) ==
  /\ TryCeilU64(d) # Err /\ LiquidityAmount(pl) # Err
  /\ TryCeilU64(d) <= LiquidityAmount(pl)
  /\ TryRoundU64(d, DecimalMax) \in 0..pl.available_amount
  /\ TryAdd(pl.borrowed_amount_wads, d, DecimalMax) # Err

\* A mutation: what is paid out is rounded up.
BorrowRoundedUp(pl, d) ==
  [pl EXCEPT !.available_amount = @ - TryCeilU64(d),
             !.borrowed_amount_wads = @ + d]

Borrow(pl, d) ==
  [pl EXCEPT !.available_amount = @ - TryRoundU64(d, DecimalMax),
             !.borrowed_amount_wads = @ + d]

\* A mutation: the addition is not checked against its width.
CanRepayUnchecked(pl, paid, settled) == settled <= pl.borrowed_amount_wads

CanRepay(pl, paid, settled) ==
  /\ pl.available_amount + paid <= MaxU64
  /\ settled <= pl.borrowed_amount_wads

Repay(pl, paid, settled) ==
  [pl EXCEPT !.available_amount = @ + paid,
             !.borrowed_amount_wads = @ - settled]

\* A mutation: the fee of the owner is not taken off.
UtilizationOfAll(pl) ==
  LET all == Decimal(pl.available_amount) + pl.borrowed_amount_wads
  IN  IF all = 0 \/ pl.borrowed_amount_wads < One
      THEN 0
      ELSE ToScaledVal(TryDiv(pl.borrowed_amount_wads, all, DecimalMax))

\* ReserveLiquidity::utilization_rate
UtilizationRate(pl) ==
  LET total == TotalSupply(pl)
  IN  IF total = Err THEN Err
      ELSE IF total = 0 \/ pl.borrowed_amount_wads < One THEN 0
      ELSE IF pl.borrowed_amount_wads > total THEN One
      ELSE ToScaledVal(TryDiv(pl.borrowed_amount_wads, total, DecimalMax))

(***************************************************************************)
(* ReserveLiquidity::compound_interest, at the yearly rate given, with the *)
(* share `fee` of the interest set aside for the owner of the reserve.     *)
(***************************************************************************)
CompoundedRate(rate, slots) ==
  TryPow(TryAdd(One, TryDivInt(rate, SlotsPerYear), RateMax), slots)

\* Mutations: the fee is taken of the debt as well as of its interest; the
\* last rate takes the place of the cumulative one.
FeeOfDebt(pl, compounded, fee) ==
  TryMul(TryMul(pl.borrowed_amount_wads, compounded, DecimalMax), fee, DecimalMax)

LastRate(pl, compounded) == compounded

NewUnclaimed(pl, compounded, fee) ==
  TryMul(TryMul(pl.borrowed_amount_wads, TrySub(compounded, One, RateMax), DecimalMax),
         fee, DecimalMax)

CumulativeRate(pl, compounded) ==
  TryMul(pl.cumulative_borrow_rate_wads, compounded, DecimalMax)

CanCompound(pl, compounded, fee) ==
  /\ CumulativeRate(pl, compounded) # Err
  /\ NewUnclaimed(pl, compounded, fee) # Err
  /\ TryAdd(pl.owner_unclaimed, NewUnclaimed(pl, compounded, fee), DecimalMax) # Err
  /\ TryMul(pl.borrowed_amount_wads, compounded, DecimalMax) # Err

Compound(pl, compounded, fee) ==
  [pl EXCEPT
     !.cumulative_borrow_rate_wads = CumulativeRate(pl, compounded),
     !.owner_unclaimed = @ + NewUnclaimed(pl, compounded, fee),
     !.borrowed_amount_wads = TryMul(@, compounded, DecimalMax)]

(***************************************************************************)
(* ObligationLiquidity                                                     *)
(***************************************************************************)
Loan ==
  [ cumulative_borrow_rate_wads : 0..MaxU128, borrowed_amount_wads : 0..DecimalMax ]

NewLoan(cumulative) ==
  [ cumulative_borrow_rate_wads |-> cumulative, borrowed_amount_wads |-> 0 ]

LoanBorrow(loan, d) == [loan EXCEPT !.borrowed_amount_wads = @ + d]

LoanRepay(loan, settled) == [loan EXCEPT !.borrowed_amount_wads = @ - settled]

\* What accrue_interest multiplies the debt by: try_div, then try_into.
LoanGrowth(loan, cumulative) ==
  ToScaledVal(TryDiv(cumulative, loan.cumulative_borrow_rate_wads, DecimalMax))

Debt(loan, cumulative) ==
  IF cumulative = loan.cumulative_borrow_rate_wads
  THEN loan.borrowed_amount_wads
  ELSE TryMul(loan.borrowed_amount_wads, LoanGrowth(loan, cumulative), DecimalMax)

\* Less is "Interest rate cannot be negative", equal leaves the loan alone.
CanAccrue(loan, cumulative) ==
  /\ cumulative >= loan.cumulative_borrow_rate_wads
  /\ Debt(loan, cumulative) # Err

\* A mutation: the rate up to which interest was taken up is not stored.
AccrueAgain(loan, cumulative) ==
  [loan EXCEPT !.borrowed_amount_wads = Debt(loan, cumulative)]

Accrue(loan, cumulative) ==
  [ cumulative_borrow_rate_wads |-> cumulative,
    borrowed_amount_wads |-> Debt(loan, cumulative) ]

=============================================================================
