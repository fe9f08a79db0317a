--------------------------- MODULE LendingReserve ---------------------------
(***************************************************************************)
(* One reserve that is lent from: lenders deposit and redeem, borrowers    *)
(* take up and pay back loans, and interest is compounded.  The functions  *)
(* are those of LendingState and PoolState, and arrive in any order.  What *)
(* the source leaves to callers it does not have yet is assumed of them    *)
(* here, and is the only discipline there is:                              *)
(*   - a loan and the reserve change by the same amount in one             *)
(*     transaction, and the loan has taken up all interest before that;    *)
(*   - what is paid covers what is settled (CalculateRepayResult gives     *)
(*     both, the one in whole tokens);                                     *)
(*   - the fee of the owner is at most all of the interest: the code       *)
(*     compares reserve_owner_fee_wad with nothing.                        *)
(* A loan may let any number of rounds of interest pass before it takes    *)
(* them up, by one quotient.  A reserve is packed between two calls.       *)
(***************************************************************************)
EXTENDS LendingState, FiniteSets, Functions

CONSTANTS
  Borrowers,
  Deposits, Redemptions,   \* the amounts lenders pass
  Loans,                   \* the Decimals borrowers ask for
  Repayments,              \* pairs <<paid, settled>>
  YearlyRates,             \* the borrow rates interest is compounded at
  SlotCounts,              \* the slots it is compounded over
  OwnerFee,                \* reserve_owner_fee_wad
  MaxRounds,               \* bound on the rounds of interest
  MaxLoan,                 \* bound on what a borrower takes up
  MaxLent                  \* bound on what lenders deposit

ASSUME ReserveAssumption ==
  /\ IsFiniteSet(Borrowers)
  /\ Deposits \subseteq 0..MaxU64 /\ Redemptions \subseteq 0..MaxU64
  /\ Loans \subseteq 0..DecimalMax
  /\ Repayments \subseteq (0..MaxU64) \X (0..DecimalMax)
  /\ YearlyRates \subseteq 0..RateMax /\ SlotCounts \subseteq Nat
  /\ OwnerFee \in Nat
  /\ MaxRounds \in Nat /\ MaxLoan \in 0..DecimalMax
  /\ MaxLent \in 0..MaxU64

ASSUME RepaymentAssumption == \A r \in Repayments : r[2] <= Decimal(r[1])

ASSUME FeeAssumption == OwnerFee <= One

VARIABLES
  pool,     \* the Pool record of the reserve
  loans,    \* loans[b]: the loan of b
  rounds    \* how often interest was compounded

vars == <<pool, loans, rounds>>

TypeOK ==
  /\ pool \in PoolRecord
  /\ loans \in [Borrowers -> Loan]
  /\ rounds \in 0..MaxRounds

Init ==
  /\ pool = NewPool(0, 0, 0, FALSE)
  /\ loans = [b \in Borrowers |-> NewLoan(One)]
  /\ rounds = 0

Stores(pl) == CanPack(pl) /\ pool' = pl

-----------------------------------------------------------------------------
Lend(n) ==
  /\ pool.available_amount + n <= MaxLent
  /\ CanDeposit(pool, n)
  /\ Stores(DepositLiquidity(pool, n))
  /\ UNCHANGED <<loans, rounds>>

Redeem(n) ==
  /\ CanRedeem(pool, n)
  /\ Stores(RedeemCollateral(pool, n))
  /\ UNCHANGED <<loans, rounds>>

UpToDate(b) ==
  loans[b].cumulative_borrow_rate_wads = pool.cumulative_borrow_rate_wads

TakeUp(b, d) ==
  /\ UpToDate(b)
  /\ CanBorrow(pool, d)
  /\ loans[b].borrowed_amount_wads + d <= MaxLoan
  /\ Stores(Borrow(pool, d))
  /\ loans' = [loans EXCEPT ![b] = LoanBorrow(@, d)]
  /\ UNCHANGED rounds

PayBack(b, paid, settled) ==
  /\ UpToDate(b)
  /\ CanRepay(pool, paid, settled)
  /\ settled <= loans[b].borrowed_amount_wads
  /\ Stores(Repay(pool, paid, settled))
  /\ loans' = [loans EXCEPT ![b] = LoanRepay(@, settled)]
  /\ UNCHANGED rounds

\* Paying back everything, rounded up to whole tokens.
Close(b) ==
  /\ loans[b].borrowed_amount_wads > 0
  /\ TryCeilU64(loans[b].borrowed_amount_wads) # Err
  /\ PayBack(b, TryCeilU64(loans[b].borrowed_amount_wads),
             loans[b].borrowed_amount_wads)

CompoundInterest(rate, slots) ==
  /\ rounds < MaxRounds
  /\ CompoundedRate(rate, slots) \in 0..RateMax
  /\ CanCompound(pool, CompoundedRate(rate, slots), OwnerFee)
  /\ Stores(Compound(pool, CompoundedRate(rate, slots), OwnerFee))
  /\ rounds' = rounds + 1
  /\ UNCHANGED loans

AccrueInterest(b) ==
  /\ ~UpToDate(b)
  /\ CanAccrue(loans[b], pool.cumulative_borrow_rate_wads)
  /\ loans' = [loans EXCEPT ![b] = Accrue(@, pool.cumulative_borrow_rate_wads)]
  /\ UNCHANGED <<pool, rounds>>

Next ==
  \/ \E n \in Deposits : Lend(n)
  \/ \E n \in Redemptions : Redeem(n)
  \/ \E b \in Borrowers, d \in Loans : TakeUp(b, d)
  \/ \E b \in Borrowers, r \in Repayments : PayBack(b, r[1], r[2])
  \/ \E b \in Borrowers : Close(b)
  \/ \E rate \in YearlyRates, slots \in SlotCounts : CompoundInterest(rate, slots)
  \/ \E b \in Borrowers : AccrueInterest(b)

Spec == Init /\ [][Next]_vars

-----------------------------------------------------------------------------
(***************************************************************************)
(* Properties                                                              *)
(***************************************************************************)

(***************************************************************************)
(* The fee of the owner of the reserve is always covered by the reserve:   *)
(* by what is in it and by what is owed to it.  So total_supply never      *)
(* takes its branch for more fee than liquidity, which would set the       *)
(* exchange rate back to its initial value.                                *)
(***************************************************************************)
FeeCovered ==
  pool.owner_unclaimed <= Decimal(pool.available_amount) + pool.borrowed_amount_wads

(***************************************************************************)
(* No redemption and no loan takes away what is reserved for the owner:    *)
(* whatever lowers the available amount leaves at least the fee in it.     *)
(* The amounts are rounded in three ways on the path (up for the check, to *)
(* the nearest for the loan, down for a redemption).                       *)
(***************************************************************************)
OwnerFeeReserved ==
  [][pool'.available_amount < pool.available_amount
       => Decimal(pool'.available_amount) >= pool'.owner_unclaimed]_vars

(***************************************************************************)
(* What belongs to the lenders, total_supply, falls only when collateral   *)
(* is redeemed, but for the rounding of a loan that is no whole number of  *)
(* tokens, which takes at most half a token.  Interest, with the fee taken *)
(* from it, and repayments never lower it.                                 *)
(***************************************************************************)
LendersKeepTheirs ==
  [][pool'.mint_total_supply >= pool.mint_total_supply
       => IF pool'.borrowed_amount_wads > pool.borrowed_amount_wads /\ rounds' = rounds
          THEN TotalSupply(pool') >= TotalSupply(pool) - HalfWad
          ELSE TotalSupply(pool') >= TotalSupply(pool)]_vars

(***************************************************************************)
(* No loan is ahead of the reserve in the interest it took up, so that     *)
(* accrue_interest never refuses one with NegativeInterestRate.            *)
(***************************************************************************)
LoansBehindReserve ==
  \A b \in Borrowers :
    /\ One <= loans[b].cumulative_borrow_rate_wads
    /\ loans[b].cumulative_borrow_rate_wads <= pool.cumulative_borrow_rate_wads

(***************************************************************************)
(* What the loans come to stays near what the reserve counts as borrowed.  *)
(* Interest is compounded on the reserve as a whole and taken up by each   *)
(* loan on its own, by the quotient of two truncated cumulative rates and  *)
(* for any number of rounds at once; so the debts, with the interest still *)
(* to be taken up, can get ahead, and the subtraction of the last          *)
(* repayment fail.  They get ahead by dust only: by at most one scaled     *)
(* unit for each round of interest, times the cumulative rate, whatever    *)
(* the number of loans.  A debt too wide to be computed does not count.    *)
(***************************************************************************)
DebtOf(b) ==
  LET debt == Debt(loans[b], pool.cumulative_borrow_rate_wads)
  IN  IF debt = Err THEN 0 ELSE debt

DebtsNearTheBooks ==
  Wad * (SumFunction([b \in Borrowers |-> DebtOf(b)]) - pool.borrowed_amount_wads)
    <= rounds * pool.cumulative_borrow_rate_wads

(***************************************************************************)
(* Utilization reaches one exactly when everything still in the reserve    *)
(* belongs to its owner.                                                   *)
(***************************************************************************)
FullyUsed ==
  pool.borrowed_amount_wads >= One =>
    (UtilizationRate(pool) = One <=> Decimal(pool.available_amount) <= pool.owner_unclaimed)

=============================================================================
