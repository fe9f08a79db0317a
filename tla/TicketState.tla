---------------------------- MODULE TicketState -----------------------------
(***************************************************************************)
(* The Ticket account of src/src/state/ticket.rs: a list of collateral     *)
(* deposits, each with the mining index of its pool up to which it has     *)
(* been credited.  As in PoolState, the operators are pure.  The keys of   *)
(* the pool manager and of the owner are stored and never read, and are    *)
(* left out.                                                               *)
(***************************************************************************)
EXTENDS PoolState, PythOracle, Sequences, SequencesExt

CONSTANTS
  MaxReserves,    \* MAX_OBLIGATION_RESERVES, 10 in the source
  MintDecimals    \* mint_decimals of each pool

TicketCollateral(reserves) ==
  [ deposit_reserve : reserves, index : 0..MaxU128,
    deposited_amount : 0..MaxU64, market_value : 0..MaxU128 ]

TicketRecord(reserves) ==
  [ version : {0, 1}, slot : Nat, stale : BOOLEAN,
    deposits : Seq(TicketCollateral(reserves)),
    deposited_value : 0..MaxU128, unclaimed_mine : 0..MaxU128 ]

\* A zeroed account.
UninitializedTicket ==
  [ version |-> 0, slot |-> 0, stale |-> FALSE, deposits |-> << >>,
    deposited_value |-> 0, unclaimed_mine |-> 0 ]

\* Ticket::init with the empty list that process_init_ticket gives it.
NewTicket(now) ==
  [UninitializedTicket EXCEPT !.version = 1, !.slot = now, !.stale = TRUE]

(***************************************************************************)
(* The list of deposits                                                    *)
(***************************************************************************)
Holds(tk, reserve) ==
  \E i \in DOMAIN tk.deposits : tk.deposits[i].deposit_reserve = reserve

\* Mutations: a new entry that starts from the beginning of mining, and a
\* bound that is one too large.
NewCollateralFromZero(reserve, mining_index) ==
  [ deposit_reserve |-> reserve, index |-> 0, deposited_amount |-> 0,
    market_value |-> 0 ]

HasRoomForOneMore(tk) == Len(tk.deposits) <= MaxReserves

NewCollateral(reserve, mining_index) ==
  [ deposit_reserve |-> reserve, index |-> mining_index, deposited_amount |-> 0,
    market_value |-> 0 ]

HasRoom(tk) == Len(tk.deposits) < MaxReserves

CanFindOrAdd(tk, reserve) == Holds(tk, reserve) \/ HasRoom(tk)

FindOrAdd(tk, reserve, mining_index) ==
  IF Holds(tk, reserve)
  THEN tk
  ELSE [tk EXCEPT !.deposits = Append(@, NewCollateral(reserve, mining_index))]

\* A mutation: the sum is not checked against its width.
CanDepositUnchecked(tk, i, amount) == i \in DOMAIN tk.deposits

CanDepositTo(tk, i, amount) ==
  tk.deposits[i].deposited_amount + amount <= MaxU64

DepositTo(tk, i, amount) ==
  [tk EXCEPT !.deposits[i].deposited_amount = @ + amount]

\* Withdrawing everything drops the entry.
CanWithdrawFrom(tk, i, amount) == amount <= tk.deposits[i].deposited_amount

WithdrawFrom(tk, i, amount) ==
  IF amount = tk.deposits[i].deposited_amount
  THEN [tk EXCEPT !.deposits = RemoveAt(@, i)]
  ELSE [tk EXCEPT !.deposits[i].deposited_amount = @ - amount]

(***************************************************************************)
(* process_refresh_ticket, on the pools pl[r] as they are stored: for each *)
(* deposit its market value and the mine it earned since it was credited   *)
(* last.  The entries do not affect one another, so that the loop is an    *)
(* entry-wise function and two sums.                                       *)
(***************************************************************************)
MarketValue(pl, d) ==
  LET reserve == pl[d.deposit_reserve]
  IN  TryDivInt(TryMul(TryDiv(Decimal(d.deposited_amount),
                              CollateralExchangeRate(reserve), DecimalMax),
                       reserve.market_price, DecimalMax),
                PowerOfTen(MintDecimals[d.deposit_reserve]))

\* refresh_deposit_unclaimed
Earned(pl, d) ==
  TryMulInt(TrySub(pl[d.deposit_reserve].l_token_mining_index, d.index, DecimalMax),
            d.deposited_amount, DecimalMax)

\* A mutation: the index of the pool is added to that of the entry.
CreditedAdding(pl, d) ==
  [d EXCEPT !.market_value = MarketValue(pl, d),
            !.index = @ + pl[d.deposit_reserve].l_token_mining_index]

CreditedDeposit(pl, d) ==
  [d EXCEPT !.market_value = MarketValue(pl, d),
            !.index = pl[d.deposit_reserve].l_token_mining_index]

\* The terms are never negative: an addition of the loop overflows exactly
\* if the whole sum does.
SumOf(base, terms) ==
  IF \E i \in DOMAIN terms : terms[i] = Err
  THEN Err
  ELSE Checked(base + SumFunction(terms), DecimalMax)

DepositedValue(pl, tk) ==
  SumOf(0, [i \in DOMAIN tk.deposits |-> MarketValue(pl, tk.deposits[i])])

UnclaimedMine(pl, tk) ==
  SumOf(tk.unclaimed_mine, [i \in DOMAIN tk.deposits |-> Earned(pl, tk.deposits[i])])

RefreshedTicket(pl, tk, now) ==
  [tk EXCEPT !.deposits = [i \in DOMAIN tk.deposits |-> CreditedDeposit(pl, tk.deposits[i])],
             !.deposited_value = DepositedValue(pl, tk),
             !.unclaimed_mine = UnclaimedMine(pl, tk),
             !.slot = now, !.stale = FALSE]

\* The pools given must be those of the deposits, in their order; both sums
\* and every entry must fit the 128 bits they are packed into.
CanRefreshTicket(pl, tk, reserves, now) ==
  /\ tk.version # 0
  /\ reserves = [i \in DOMAIN tk.deposits |-> tk.deposits[i].deposit_reserve]
  /\ \A i \in DOMAIN tk.deposits :
       /\ IsInitialized(pl[reserves[i]])
       /\ Fresh(pl[reserves[i]], now)
       /\ PowerOfTen(MintDecimals[reserves[i]]) # Err
       /\ ToScaledVal(MarketValue(pl, tk.deposits[i])) # Err
       /\ Earned(pl, tk.deposits[i]) # Err
  /\ ToScaledVal(DepositedValue(pl, tk)) # Err
  /\ ToScaledVal(UnclaimedMine(pl, tk)) # Err

=============================================================================
