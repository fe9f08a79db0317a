CONSTANTS
  ann = ann
  ben = ben
  Wad = 100
  MaxU64 = 5
  MaxU128 = 40000
  MaxU192 = 4000000
  SlotsPerYear = 2

  Borrowers = {ann, ben}
  Deposits = {3}
  Redemptions = {2}
  Loans <- MCLoans
  Repayments <- MCRepayments
  YearlyRates = {26, 160}
  SlotCounts = {1, 3}
  OwnerFee = 80
  MaxRounds = 2
  MaxLoan = 160
  MaxLent = 3

SYMMETRY Alike
SPECIFICATION Spec
INVARIANTS
  TypeOK
  FeeCovered
  FullyUsed
  LoansBehindReserve
  DebtsNearTheBooks
PROPERTIES
  OwnerFeeReserved
  LendersKeepTheirs
CHECK_DEADLOCK FALSE
