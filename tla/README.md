# A verification project for Allwin (pooled savings on Solana)

TLA+ modules that model the program in `src/src`, TLC configurations that
check them on small instances, and theorems about them checked by TLAPS.
Line numbers refer to this commit; `PROJECT.json` maps every definition that
models code to its lines.

Contents: [The system](#the-system) ·
[Properties per component](#what-makes-each-component-correct) ·
[Modules](#modules) · [How the code is modelled](#how-the-code-is-modelled) ·
[Runs](#runs-and-bounds) · [Fairness](#fairness) · [Proofs](#proofs) ·
[Findings](#findings) · [Not modelled](#what-is-not-modelled-and-why) ·
[Plan](#plan)

## The system

Allwin is a fork of the SPL token-lending program. Savers put liquidity (a
token such as USDC) into a *pool* and get *collateral* tokens for it, which they
can redeem at any time; meanwhile the pool mines a reward token, shared among
the collateral. Borrowing, the lottery and claiming the reward are partly or not
yet there: the code keeps many functions of the lending program that no
instruction calls.

| Component | State | Operations |
|---|---|---|
| Instruction processor (`processor.rs`) | none of its own; reads and packs the accounts it is given | `InitPoolingManager`, `SetPoolingManagerOwner`, `InitPool`, `InitTicket`, `RefreshReserve`, `RefreshTicket`, `DepositPoolLiquidity`, `RedeemPoolCollateral`, `LotteryDraw` |
| Pool (`state/pool.rs`, `state/last_update.rs`) | available and borrowed liquidity, collateral supply, price, two mining indices, slot of the last refresh and a stale flag, pause and lock flags | `init`, `refresh_index`, `deposit_liquidity`, `redeem_collateral`, exchange rates, `pack` |
| Ticket (`state/ticket.rs`) | up to ten entries (pool, amount, index credited up to, value), unclaimed mine | `init`, `find_or_add`, `deposit`, `withdraw`, refresh |
| Pool manager (`state/pool_manager.rs`) | owner, quote currency, program ids | `init` |
| Fixed point (`math/`) | - | checked operations of `Decimal` (192 bits) and `Rate` (128 bits) |
| Price reader (`pyth.rs`, `processor.rs` 672-912) | - | `get_pyth_price`, `get_pyth_product_quote_currency` |
| Token program (external) | balances and mint supplies | Transfer, MintTo, Burn |
| Lending (`pool.rs` 304-389, `ticket.rs` 196-254, `rate.rs`) | the borrowed amount, the cumulative rate and the owner's fee of a pool; a loan | `borrow`, `repay`, `compound_interest` and `utilization_rate` of a pool; `borrow`, `repay` and `accrue_interest` of a loan; no instruction calls them |
| Mining (`state/mining.rs`) | up to ten entries (pool, amount outside of tickets, index credited up to), unclaimed mine | `find_or_add_reserve_in_vec`, `refresh_unclaimed`, `deposit`, `withdraw`; no instruction calls them |
| Codecs (`instruction.rs`, `unpack_util.rs`, the `Pack` impls) | - | bytes to values and back |

**How they interact.** Each instruction is one atomic transaction step: the
processor unpacks the accounts, compares the keys the pool has stored with the
accounts it was given, calls the functions of the pool, packs it, and calls the
token program. There are no threads; concurrency is the free interleaving of the
transactions of different users, of the clock, of the price feeds, and of what
holders do with their tokens without this program.

**Which behaviours are hard.**

* A deposit or a redemption needs the pool refreshed *in the same slot* and
  leaves it stale, so users use up each other's refresh.
* There are three books of the same value: the pool account, the token
  accounts, and the supply of the collateral mint. Two of them can be changed
  behind the back of the program (burns, donations).
* Deposits and redemptions convert through a rate with different roundings.
* A mining index only grows and is packed into 128 bits by a function that
  panics. Once `2 * speed * slots` no longer fits, every refresh fails and with
  it every redemption.
* A redemption needs a usable price although it uses none.
* Tickets remember up to which index they were credited, and entries come and
  go.
* Ten accounts per instruction, chosen by the caller.
* A handler packs the pool before it calls the token program, so that in the
  middle of a transaction the account records tokens that are not there yet.
* In the lending functions one amount is rounded up to be compared, to the
  nearest to be paid out, and not at all to be owed; the fee of the owner sits
  between them, and interest reaches the reserve and each loan at other times.
* `Rate::try_pow` truncates at every squaring, in a sequence that is another for
  every number of slots.
* Every account layout is written twice, as two lists of widths of which the
  compiler compares only the sums; lists get shorter in an account that keeps
  its old bytes.

Since no instruction borrows, accrues interest, pauses deposits or sets the
reentry lock, the reachable pools are all *at par*. The models keep those
fields and guards (so that a change of the code that uses them has its place),
and that the pools stay at par is a theorem and not an assumption.

## What makes each component correct

| Component | Properties | Where |
|---|---|---|
| Pool and processor | `CollateralAtPar`: no drift from a rate of one | run savers, proved |
| | `BooksInOrder`: the books drift in one direction only | runs savers, two_pools; proved |
| | `Redeemable`: nobody is locked in while the price is usable and the index fits | run savers, proved |
| | `SettledBeforeSupplyChanges`, `IndexWithinEmission`: no slot is shared by the wrong supply or emitted twice | run savers, proved |
| | `PoolHistoryKept`: nothing recorded is forgotten | run savers, proved |
| | `ImplementsParSavings`: all of it, seen by a saver | runs savers, two_pools; proved |
| | `WayOut`: a saver passes every check of a redemption of all of the account | run client, proved |
| | `SaversGetOut`: who keeps trying gets out | run client |
| Handlers step by step | `ImplementsClient`: a transaction happens at once or not at all | run transactions, proved |
| | `BooksWithPending`: the books are out by exactly the calls still to come | run transactions, proved |
| Ticket | `DepositsUniqueAndBounded`, `EntriesBehindPools` | run tickets, proved |
| | `CreditedOnce`: no stretch of an index is credited twice | run tickets, proved |
| Ticket and mining account | `MiningUniqueAndBounded` | run holder, proved |
| | `ImplementsEagerMining`: lazy entries credit as if every emission were shared out at once | run holder, proved |
| | `PositionsStay`: only a withdrawal that empties an entry moves a position that was looked up | run holder, proved |
| Lending | `FeeCovered`, `OwnerFeeReserved`: the fee of the owner is there | run lending, proved |
| | `LendersKeepTheirs`: only redemptions, and half a token of rounding, take from the lenders | run lending, proved |
| | `LoansBehindReserve`: no loan is refused its interest | run lending, proved |
| | `DebtsNearTheBooks`: what the loans come to gets ahead of the books by dust only | run lending, proved |
| | `FullyUsed`: utilization is one when only the owner's fee is left | run lending, proved |
| Compound interest | `NeverOvercharged`, `LosesLittle`, `InterestGrows`, `FailsOnlyWhenLarge` | run functions, proved |
| Attribute scanner | `NothingElseIsRead`, `CurrencyIsRead` | run functions, proved |
| | `ScanEnds` | run functions |
| Account codecs | `ReadsBack`, `KindsToldApart` | run functions, proved |
| Instruction codec | `NothingMadeUp`, `WholeOnesAreEntered` | run functions, proved |
| Documented behaviour | `EmissionAtMiningSpeed`, `AmountsGreaterThanZero`, `FirstDepositAtFiveToOne`, `OwnerIsTheOneNamed` | violated, see Findings |

`TypeOK` of `Processor`, `TicketLedger` and `LendingReserve`, and
`HolderTypeOK`, say more than that variables have types: a number is within the
width of the field it is packed into.

## Modules

```
FixedPoint           Decimal and Rate on scaled naturals, with their widths
  PoolState          the Pool record and the pure functions on it
    LendingState     the lending functions on it, a loan, Rate::try_pow
      LendingReserve a reserve with its lenders and borrowers
      SlotInterest   try_pow against interest compounded slot by slot
    MiningState      the Mining record and the pure functions on it
  PythOracle         a price feed and get_pyth_price
SplToken             balances and mints (external)
PoolManager          pool-manager accounts and the instructions on them
  Processor          = PoolState + PythOracle + SplToken + PoolManager:
                       the program and its environment
    SavingClient     clients that refresh and redeem in one transaction
    Transactions     the handlers step by step; implements SavingClient
    DocumentedBehaviour  what comments say and the code does not do
  ManagerOwnership   managers with the memory of who was named owner
ParSavings           the abstract specification of the program
TicketState          the Ticket record and the pure functions on it
  TicketLedger       a ticket beside the pools it refers to
    HolderMining     = TicketLedger + MiningState: a holder with both accounts
EagerMining          the abstract specification of what both credit
ProductAttributes    the loop that looks for the quote currency
ByteStrings          bytes, as far as a codec is concerned
  AccountCodec       the four Pack implementations
  InstructionCodec   PoolingInstruction::unpack and the dispatch
MCSavers, MCTwoPools, MCClient, MCDocumented, MCTransactions, MCTickets,
MCHolder, MCLending, MCFunctions      instances for TLC
ArithmeticProofs     lemmas on numbers, induction and sums
  ProcessorProofs    theorems of Processor and SavingClient, with those of
                     PoolState before them
    TransactionProofs   of Transactions
  LendingProofs      of LendingReserve
  TicketProofs       of TicketLedger
    HolderProofs     of HolderMining
  FunctionProofs     of SlotInterest
  ReaderProofs       of ProductAttributes, InstructionCodec and AccountCodec
```

Definitions introduced by a comment that calls them a mutation (such as
`PoolState!FreshOneSlotMore`) are not part of any specification. They are
plausible bugs; `PROJECT.json` pairs each with the property that notices it.

## How the code is modelled

* **Numbers.** A `Decimal` or a `Rate` is its scaled natural number. `Wad` and
  the three widths are constants, tied by `FixedPointAssumption` to what the
  real ones satisfy. A `Result` is a number or `Err`, which every operator
  passes on. Products are checked against the width before they are scaled
  back, as in the source, so that overflow is where the source has it.
* **Handlers.** One action per instruction, enabled when the whole handler
  succeeds; a failing instruction is rolled back by the runtime and is a
  stuttering step. The guard has each check of the handler, the checks of the
  arithmetic, the width check of packing, and the checks of the token program.
* **The value a handler works on.** `DepositFrom` and `RedeemFrom` take the pool
  they unpacked as a parameter, so that the same definition serves a single
  instruction and one that follows a refresh in its transaction
  (`SavingClient`).
* **Accounts.** The keys a pool stores are the constant `Wiring[p]`; the account
  list of a call is a record chosen from `AccountLists`. The program address
  derived from a manager is `PoolAuthority`; `Wiring` is a function of the
  account since an account is initialised at most once (`PoolHistoryKept`).
  Keys the program never compares are left out.
* **Environment.** `Tick` moves the clock, `OraclePublish` lets a feed show
  anything, `Transfer` and `Burn` are what holders do on their own. A `Transfer`
  to the supply account of a pool is a donation.
* **Packing.** `CanPack` is what `pack_decimal` panics on. Where bytes are is the
  subject of `AccountCodec` alone; the other modules work on records.
* **Tickets.** Entries do not affect each other, so the loop of
  `process_refresh_ticket` is an entry-wise function and two folds.
  `find_or_add_collateral_to_deposits`, `deposit` and `withdraw` are public and
  uncalled; they arrive as calls in any order. The auxiliary variable `peak` is
  read by `CreditedOnce` alone.
* **Transactions.** `Transactions` takes a deposit and a redemption apart: the
  checks and the packing are one step, each call to the token program another
  (`rest` is what is still to be done, `saved` the accounts at the start). A
  transaction may fail at every step. Its accounts are held while it runs, so
  others act between two transactions; what they see is `Seen`.
* **Mining accounts.** Positions count from one instead of zero. Both accounts
  of a holder leave it to the caller to credit an entry before its amount
  changes (`mining.rs` 108-131, `ticket.rs` 72-103); `HolderMining` assumes
  callers that do, and `TicketLedger` shows what holds without.
* **Lending.** The functions are a library: `LendingReserve` calls them in any
  order, under the little a caller has to do, which its first comment lists.
  Interest is compounded over any of `SlotCounts` at any of `YearlyRates`: the
  model of interest by utilization that would give the rate is not in the code.
  A loan takes up interest when it likes, any number of rounds at once. `rounds`
  bounds the run, and `DebtsNearTheBooks` counts with it.
* **`try_pow`.** A recursive function of the exponent, the base and the result,
  one turn of the loop each, with the squaring that is one more than needed. `SlotInterest` follows
  the slots and keeps `most`, a power rounded up at each of them.
* **The scanner.** One step per turn of the loop. An index beyond the array is a
  panic, a result of its own beside an error. The publisher frames each key and
  value by its length and is cut off where the array ends.
* **Codecs.** A byte is a pair of the value it belongs to and its place in it,
  so a field that is read at a wrong place, or across two fields, is seen.
  `PoolPacked` is the list of widths in `pack_into_slice`, `PoolUnpacked` the one
  in `unpack_from_slice`, and so for each account: that they agree is a property
  (`ReadsBack`) and not the way the model is written.

Assumptions on the constants, beyond types:

* `FixedPointAssumption`: `Wad` is a multiple of 100, `MaxU64 * Wad` and
  `Wad * Wad` fit `MaxU128`, `MaxU128 * Wad` fits `MaxU192`. The real values
  (10^18, 2^64-1, 2^128-1, 2^192-1) satisfy it.
* `WiringAssumption`: the owner who creates the token accounts of a pool does
  it right (mints, owners, mint authority, nothing minted before, no sharing
  between pools). `process_init_pool` checks none of it, so every property of
  the program depends on it.
* `SavingAssumption`: there are finitely many token accounts, however many, since
  what they hold is added up.
* `AttributesAssumption`: the key that is looked for is not empty (the real one
  is "quote_currency"). The zeros behind the last attribute frame an empty key.
* `CodecAssumption`: `MaxEntries = 10`, as in the source, whose lengths of
  accounts are literals that fit lists of ten entries and no other.
* `FeeAssumption`: the owner's fee is at most all of the interest. No check in the
  code says so: `reserve_owner_fee_wad` is an argument of `compound_interest`
  (`pool.rs:368`), a `u64` in scaled units and so up to 18.4, which the interest is
  multiplied by; the tests draw it from `0..WAD` (`pool.rs:1242`). With a fee of
  180% in the run `lending` the fee outgrows the reserve and the lenders pay for
  it: `FeeCovered`, `FullyUsed` and `LendersKeepTheirs` fail, while
  `OwnerFeeReserved` and `DebtsNearTheBooks` still hold. Whoever writes the
  instruction that compounds interest has to bound it.
* `RepaymentAssumption`: what is paid in tokens covers what is settled, as both
  come from one `CalculateRepayResult`.
* Mints, owners of token accounts and mint authorities do not change; delegates
  and frozen accounts are left out (`SplToken`).

## Runs and bounds

Every run checks deadlock too, but for two: `lending`, which ends when its
rounds of interest are used up, and `functions`, where each function ends. All
passing runs together fire every action and every disjunct of the next-state
relations.

| Run | Question | Bounds | Why they are enough |
|---|---|---|---|
| savers | the invariants, the action properties and the refinement of `ParSavings`, one pool | 2 savers, 3 tokens, slots 0-3, `MaxU64 = 30`, `Wad = 100`, `MaxU128 = 12943`, speed 30 | the index fits in slots 1 and 2 and may overflow in slot 3, so both sides of the horizon are reached; `MaxU64` stands for "all"; feeds show a usable, a negative and an unpackable price; one saver may name accounts of the other |
| two_pools | mixed-up accounts | 2 pools, 2 managers, 1 saver, 2 tokens, all 192 account lists | every position of the list is right or wrong independently of the others |
| client | the way out, and that who takes it often enough gets out | 2 savers with one token each, slots 0-1 | the interference that matters (another's deposit uses the refresh, the price fails, tokens come back) takes one other user |
| transactions | handlers step by step | the savers, amounts 1 and "all", slots 0-1 | lists that every check lets through and the first or the second call refuses; a transaction is a refresh, one of the two, or both |
| tickets | the list of deposits and its credit | 3 pools, room for 2, one emission; one pool may be held twice, another once, the third takes up room only (`OthersSmall`) | the bound binds, entries leave from the front and return, with partial withdrawals and a supply that changes between |
| holder | a ticket and a mining account together | 2 pools, a ticket with room for one, which holds the same pool all along (`TicketOfA`) and has the other refused, a mining account with room for both, two emissions, amounts of one | an entry is dropped and added again between two emissions, in either account |
| lending | one reserve | 2 borrowers (symmetric), 3 tokens, loans of 1.4 and 1.6 tokens, redemptions of two, two rounds of interest at 26% and 160% over 1 or 3 slots of a year of two, a fee of 80% | a loan that is paid out rounded down and one rounded up; with both, rests below half a token of either sign; a debt can outgrow what was lent |
| functions | the functions with no account of their own, one per behaviour | 59 rates by the percent over up to 40 slots; lists of up to three attributes over two bytes in an array of 9; records with all fields alike, or all but one; instructions cut off at every byte | all exponents up to 40 have all patterns of bits of their width; keys and values can look like each other and like lengths, and are cut off at every place; a field that is swapped with another, or shifted, is the odd one |
| emission, amounts, first_deposit, ownership | what comments say | the savers instance; two keys for ownership | each ends in a short counterexample |

The widths of the instances are small so that they are reached. `MaxU128` is
12943 and not a round number so that the horizon falls inside the run; the
proofs do not depend on these values.

The four parts of `functions` do not interact: a behaviour of `MCSpec` is one of
`SlotSpec`, `ScanSpec`, `AccountSpec` or `InstructionSpec` with the others idle.

In `lending` a loan may take up a round of interest before the next is
compounded, or both by one quotient (`accrue_interest`). What the borrowers owe
together is then not quite bounded by what the reserve counts as borrowed: the
quotient of two truncated cumulative rates can be larger than the product of
the rounds, so a debt gets ahead of the books and the last borrower cannot repay
all of it (`repay` subtracts it from the books, checked); TLC finds this five
states deep. So `DebtsNearTheBooks` states how far it can go, which is what is
checked and proved: by at most one scaled unit (10^-18 of a token) for each round
of interest, times the cumulative rate. Callers still to be written should know.

What TLC's passing runs show: on these instances, in every reachable state and
step, the properties of the table above. What they do not show: anything about
more savers, pools, slots or larger amounts; that is what the proofs are for.

## Fairness

`SavingClient` assumes some of the world, and the scanner that it is run to its
end (`WF(ScanNext)`: a function call does not stop in the middle; a program that
ran out of its budget would have failed). No other specification assumes any.
For `SavingClient`:

* `WF(Quote(p))`: a feed that shows nothing usable is eventually repaired. That
  is a promise of the oracle, outside the code. It may be lost again at once.
* `SF(Leave(p, a))`: a saver who wants to leave resends the transaction that
  refreshes the pool and redeems the whole account. Enabledness comes and goes
  (the price fails, others pay into the account), so weak fairness would
  promise nothing. Strong fairness is a client that retries until it succeeds,
  not a scheduling promise of the chain beyond including such a transaction
  sometime.

No fairness is assumed of `Tick`, of refreshes by others, or of deposits. The
property holds although a bare redemption could be starved for ever by others
who use up each refresh: the atomic transaction is what makes the difference,
since its refresh cannot be used up before its redemption. It is checked with
the mining index inside its width; beyond the horizon it is false, by the panic
described above.

## Proofs

`tlapm` proves, for all values of the constants that satisfy the assumptions:

| Theorem | Module | Statement |
|---|---|---|
| `TypeCorrect` | ProcessorProofs | `Spec => []TypeOK` |
| `BooksStayInOrder` | ProcessorProofs | `Spec => []BooksInOrder` |
| `CollateralStaysAtPar` | ProcessorProofs | `Spec => []CollateralAtPar` |
| `IndexStaysWithinEmission` | ProcessorProofs | `Spec => []IndexWithinEmission` |
| `CollateralIsRedeemable` | ProcessorProofs | `Spec => []Redeemable` |
| `SupplyChangesAreSettled` | ProcessorProofs | `Spec => SettledBeforeSupplyChanges` |
| `HistoryIsKept` | ProcessorProofs | `Spec => PoolHistoryKept` |
| `ProgramImplementsParSavings` | ProcessorProofs | `Spec => ImplementsParSavings` |
| `ClaimsAreCovered` | ProcessorProofs | `Spec => []Savings!Covered` |
| `ClientHistoryIsKept` | ProcessorProofs | `ClientSafety => PoolHistoryKept` |
| `ClientImplementsParSavings` | ProcessorProofs | `ClientSafety => ImplementsParSavings` |
| `TokensAreConserved` | ProcessorProofs | `ClientSafety => []Conserved` |
| `TheWayOutIsOpen` | ProcessorProofs | `ClientSafety => []WayOut` |
| `LeavingPaysInFull` | ProcessorProofs | a `Leave` empties the account and pays as much liquidity |
| `ManagersStay` | ProcessorProofs | an initialised manager is written by no step of `ClientSafety` |
| `TransactionsImplementClient` | TransactionProofs | `TxSpec => ImplementsClient` |
| `BooksAgreeWithPending` | TransactionProofs | `TxSpec => []BooksWithPending` |
| `LendingTypeOK` | LendingProofs | `Spec => []TypeOK` (of `LendingReserve`) |
| `FeeStaysCovered` | LendingProofs | `Spec => []FeeCovered` |
| `FeeReserved` | LendingProofs | `Spec => OwnerFeeReserved` |
| `LendersKeep` | LendingProofs | `Spec => LendersKeepTheirs` |
| `LoansBehind` | LendingProofs | `Spec => []LoansBehindReserve` |
| `FullUtilization` | LendingProofs | `Spec => []FullyUsed` |
| `DebtsStayNear` | LendingProofs | `Spec => []DebtsNearTheBooks`: the debts are ahead by at most the number of rounds times the cumulative rate, in scaled units |
| `TicketTypeOK` | TicketProofs | `Spec => []TypeOK` (of `TicketLedger`) |
| `DepositsStayUnique` | TicketProofs | `Spec => []DepositsUniqueAndBounded` |
| `EntriesStayBehind` | TicketProofs | `Spec => []EntriesBehindPools` |
| `CreditIsGivenOnce` | TicketProofs | `Spec => []CreditedOnce` |
| `HolderTypes` | HolderProofs | `HolderSpec => []HolderTypeOK` |
| `MiningStaysUnique` | HolderProofs | `HolderSpec => []MiningUniqueAndBounded` |
| `HolderEntriesStayBehind` | HolderProofs | `HolderSpec => []EntriesBehindPools` |
| `PositionsHold` | HolderProofs | `HolderSpec => PositionsStay` |
| `HolderImplementsEager` | HolderProofs | `HolderSpec => ImplementsEagerMining` |
| `InterestNeverOvercharged` | FunctionProofs | `SlotSpec => []NeverOvercharged` |
| `LittleInterestIsLost` | FunctionProofs | `SlotSpec => []LosesLittle` |
| `WaitingNeverPays` | FunctionProofs | `SlotSpec => []InterestGrows` |
| `OnlyLargePowersFail` | FunctionProofs | `SlotSpec => []FailsOnlyWhenLarge` |
| `NothingElseRead` | ReaderProofs | `ScanSpec => []NothingElseIsRead` |
| `CurrencyRead` | ReaderProofs | `ScanSpec => []CurrencyIsRead` |
| `ScanMovesOn` | ReaderProofs | `ScanSpec => [][MovesOn]_scanVars` |
| `ArgumentsAreTheCallers` | ReaderProofs | `InstructionSpec => []NothingMadeUp` |
| `WholeInstructionsAreEntered` | ReaderProofs | `InstructionSpec => []WholeOnesAreEntered` |
| `AccountsReadBack` | ReaderProofs | `AccountSpec => []ReadsBack` |
| `KindsStayApart` | ReaderProofs | `AccountSpec => []KindsToldApart` |

`PROJECT.json` also lists the theorems that state the inductive invariants
(`InvariantHolds`, `MiningInvariantHolds`, `ClientInvariantHolds`,
`TicketInvariant`, `ScanStaysAligned`, `AccountsHoldRecords`). Every property of every passing run
is a theorem, but for the two liveness properties.

Two things the proofs keep needing are in `ArithmeticProofs`. *Induction*: the
theorem of the library takes an operator as its parameter, which the provers
cannot instantiate, so ours is about a set of naturals (it has zero and every
successor, hence everything, by its least element), and a proof forms the set of
the numbers its claim holds of. The same serves subsets of a finite set. *Sums*:
`SumFunctionOnSet` is a choice among functions that satisfy a recursion; that
there is one, and only one value of it, is an induction on subsets, and what the
proofs use (a term taken out, changed, split, scaled, compared) follows from
those. `FlattenSeq`, `try_pow` and powers are recursive functions treated in the
same way: one exists, two agree, so it satisfies its equation.

The argument:

1. `ArithmeticProofs` has what the arithmetic does when nothing overflows:
   `(x * Wad) \div Wad = x`, a token amount scaled fits, dividing a number by
   itself gives `Wad`.
2. `ProcessorProofs` begins with what the functions of a pool do *at par* (as
   much collateral as liquidity, nothing borrowed, nothing owed to the owner):
   the rate is one, `CollateralFor` and `LiquidityFor` are the identity, and
   deposit, redemption and refresh leave the pool at par. It also has the
   arithmetic of an emission.
3. The inductive invariant of the program is
   `IInv == TypeOK /\ PoolsAtPar /\ NothingBeforeInit /\ BooksInOrder`.
   `BooksInOrder` alone is not inductive: a redemption keeps it only if it takes
   as much out of the vault as it burns, which needs `PoolsAtPar`; and `InitPool`
   sets the recorded supply to zero, which keeps it only if nothing has been
   minted before, which is `NothingBeforeInit`. Of the environment, a transfer
   cannot touch a vault (it belongs to a derived address, not to a user) except
   to add to it, and a burn only lowers what is outstanding.
4. `MInv` adds `IndexWithinEmission` and `NoInterest` (nothing is borrowed, so
   that the borrow index never moves). Its bound on the index is what shows that
   a refresh within the horizon can be packed, hence `Redeemable`.
5. For the refinement each action is mapped to one of `ParSavings`: a deposit to
   `Save`, a redemption to `Exit`, a transfer to `Pay` or, into a vault, to
   `Donate`, a burn to `GiveUp`, all others to a stutter.
6. A client's transaction steps from the refreshed pool, which is at par too, so
   the lemmas on deposits and redemptions serve again, and `ClientSafety` keeps
   `MInv` and refines `ParSavings`. That a saver can leave needs more: the token
   program burns no more of a mint than is outstanding, and nothing above says
   that this covers the account of a saver. `Conserved` does: every mint has
   issued what has been added to its accounts, a sum over all accounts
   (`HeldChange`), so that an account of collateral, which is one term of it, is
   within what is outstanding (`CollateralIsOutstanding`), hence within the books.
   `WInv` adds that the manager of an open pool stays initialised and that no lock
   is ever closed. `CanLeave` lists the checks of `Leave`; that it lists all of
   them is `LeaveIsItsChecks`.
7. `TransactionProofs`: in between two transactions the accounts are `Sound` (the
   invariant of `ProcessorProofs`, as a predicate on accounts). While one runs
   (`TxInv`), the accounts it found are Sound, and it has either done nothing
   (`Started`), refreshed (`RefreshDone`), or packed a pool and has one or both
   calls of that packing ahead of it (`Calling`, which says which calls were made
   and what they did). So the last call is one step of `SavingClient` on the
   accounts it found, every earlier step and every failure a stutter.
   `BooksWithPending` is what the packing and the calls that are left add up to.
8. `LendingProofs` first reduces each function of `LendingState` to what it does
   to four books (available, borrowed, the owner's fee, collateral): what a loan
   takes out is at most what `WhatMayLeave` says is not the owner's; the fee taken
   from a round of interest is at most that interest (`TimesAtMostOne`: a product
   with a number up to one, truncated, is no larger). `FeeCovered` with the types
   is then inductive, and makes `total_supply` the sum it looks like instead of
   its fallback, from which the two action properties follow. `LoansBehindReserve`
   is inductive on its own, since a compounded rate is at least one. The width of
   a debt needs `CanAccrue` alone. `FullyUsed` needs that the lenders own
   something as long as anything is borrowed (`Solvent`), since a loan leaves the
   owner's fee behind and a fee is never all of the interest. `DebtsNearTheBooks`
   holds in whatever order interest is taken up. The exact debt of a loan is its
   amount times the cumulative rate of the reserve over its own, and the sum of
   such fractions over all borrowers grows in a round by the factor the rate grows
   by, while the books lose less than one unit to truncation. To state that in
   integers `NearBooks` multiplies by a common multiple of the rates
   (`MultipleExists`), and says it of every such multiple, since a loan that takes
   up interest changes its rate. `NearBooks` is inductive with
   `LoansBehindReserve`, and `DebtBelowExact` leads from the exact debts to those
   the code computes.
9. `TicketProofs` has four lemmas on lists: an entry is added whose pool is not
   there, changed in place, taken out, or all are credited. Each keeps
   uniqueness and keeps entries behind their pools. The latter also needs that
   an index never falls (`IndexGrows`), which needs that its sum did not
   overflow, and so the types. `CreditedOnce` is not inductive, since it does not
   say how far what was credited reaches. `CreditInv` has a *level* for each
   pool: no higher than its index and than that of its entry, and what was
   credited is covered by the levels times the peaks. A refresh lifts the levels
   of the entries to their pools and credits no more than what it lifts.
10. `HolderProofs` uses that every step of a holder is a step of `TicketLedger` or
    leaves it alone, so the invariant of `TicketProofs` is kept without being
    proved again. Uniqueness is also what makes the entry `find_mining_index`
    returns the one that belongs to the pool (`FoundEntry`), which every step on
    the mining account needs. `PositionsHold` looks at what each step does to the
    list: it is appended to, changed in place, or loses the entry at a position,
    which moves those behind it and no other. For the refinement both accounts
    become lists of slices (pool, amount, index); what they hold of a pool and
    what is due to them are sums over the list (`Held`, `Due`) of which adding,
    changing or dropping a slice changes one term. A slice without an amount adds
    nothing, wherever its index is, which is why dropping one loses nothing; that
    initialising an account takes nothing away is `Blank`, an invariant of its
    own.
11. `FunctionProofs` carries inequalities between exact powers through the loop of
    `try_pow`, by an induction that halves the exponent (`HalvingInduction`).
    Along the slots `most`, the reference that rounds up, stays at or above the
    exact power (`MostCovers`) and close to it (`MostClose`). The loop is at most
    the power (`LoopBelow`), and at least the power of a base that is smaller by
    one part in `Wad` (`LoopAbove`); what those parts add up to over all slots is
    an inequality like Bernoulli's (`SharesOfSlots`). That interest grows compares
    the loop for an exponent with the loop for one less, for odd (`OddLoop`) and
    even ones (`EvenLoop`), from the fact that a larger base and a larger result
    give a larger one (`LoopMonotone`). As long as the square of the power fits, so
    does every product on the way (`LoopFits`).
12. `ReaderProofs` rests on where the pieces of a sequence lie that is put
    together of pieces (`FlatPlaces`). The scanner is always at the start of an
    attribute with no key before it, or behind the last with no key at all, where
    the zeros have the length zero and so are not the key (`ScanInv`). It moves
    two bytes or more at each turn (`ScanMovesOn`), the part of `ScanEnds` that
    needs no fairness. A field is read at its offset (`FieldPlaces`), whatever is
    behind it, since the layout that is read is the one that is written. What
    arrives of an instruction is a beginning of what was written, or all of it
    with something behind; all arguments are in it if and only if it is long
    enough (`InstructionInv`). An account is all zeros until it is packed and then
    holds the record packed last, field by field and entry by entry (`AccountInv`):
    the bytes behind a list that got shorter are never reached, and zeros unpack
    as no kind, since the version is not there.

The proofs use three modules of the library (`FiniteSetTheorems`,
`SequenceTheorems`, `TLAPS`) and no fact that is not proved there or here.

Only model-checked: `SaversGetOut` and `ScanEnds`. Both are liveness, which needs
to know when an action under fairness is enabled, and that is out of the reach of
the prover. What their steps rest on is proved: the scanner moves on at each turn
(`ScanMovesOn`), and whoever has collateral passes the checks of `Leave`
(`TheWayOutIsOpen`) and has none left after it (`LeavingPaysInFull`). The four
properties of comments that the code does not have are refuted by their runs.

## Findings

Four behaviours contradict what the source says of them. Each has a run that
ends in a counterexample.

| Run | The code | Says otherwise |
|---|---|---|
| emission | `pool.rs:122` divides one by fifty percent: lenders are credited twice the speed of each slot | `pool.rs:523` "Amount of mine token for this reserve per slot" |
| amounts | `processor.rs:499`, `619`: `u64::MAX` is resolved to the balance after the zero check, so a deposit or redemption of zero succeeds and marks the pool stale | `error.rs:44` "Invalid amount, must be greater than zero" |
| first_deposit | `state/mod.rs:26`: the initial ratio is 1 | `state/mod.rs:24` "ratio of 5:1 (collateral:liquidity)" |
| ownership | `processor.rs:144`: the handler returns Ok and does nothing | `instruction.rs:42` "Sets the new owner of a lending market." |

Observations no run is about: `use_pyth_oracle` is stored and never read;
`get_pyth_price` takes a clock and ignores the age of the price;
`Ticket::deposit` and `Ticket::withdraw` do not settle the entry first, so the
future caller has to; the unit tests in `pool.rs` and `ticket.rs` do not compile
against the code beside them (the property tests of `pool.rs` call functions that
are gone). `RefreshReserve` accrues no interest, which `instruction.rs:90` says it
does. `kink_util_rate` is stored and never read. `reentry_lock` is checked by
deposit and redemption and never set, and `RefreshReserve` checks neither it nor the
stale mark (`processor.rs:326`): what keeps others from a pool in the middle of a
transaction is the runtime, which holds its accounts, as `Transactions` has it.
`try_pow` squares once more than it needs to, and fails on powers that fit a
`Rate` when that last square does not (`FailsOnlyWhenLarge` states what is left).
A loan of less than half a token pays nothing out and is owed, one of half a
token or more below one pays a whole token. A product without a quote currency,
padded to the end of the array by an odd number of zeros, is a panic and not an
error. The comments on lengths at `mining.rs:136` and `pool_manager.rs:87` are not
the lengths used.

## What is not modelled, and why

* `process_lottery_draw` returns Ok without touching an account: every step of it
  is a stuttering step of `Processor`.
* Error codes, the entrypoint and logging: an error is `Err` or an action that is
  not enabled, whichever error it is.
* `Display` of the two numbers: formatting.
* The layout in memory of the Pyth structs: `get_pyth_price` reads three fields
  of a struct, which `PythOracle` has as a record.
* Rent, program ids, account owners and the magic number, version and type of a
  Pyth product: always right in the models; a wrong one makes the handler fail.
* Two hazards have no property. A stale price changes no decision of the program
  in this commit (`processor.rs:686`). What `InitPool` does not check
  (`processor.rs:154`) is an assumption, since every property depends on it.

## Plan

Done: all modules above, their runs, and the proofs listed.

What may follow:

1. `ScanEnds` and `SaversGetOut` themselves, with a prover for `ENABLED`. What they
   rest on besides is proved: `ScanMovesOn`, and `WayOut` with `LeavingPaysInFull`.
2. When the program gets instructions that borrow, or that take a ticket's
   deposits, the guards that `LendingReserve` and `HolderMining` assume of callers
   can be replaced by those of the handlers.
