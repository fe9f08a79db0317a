---------------------------- MODULE TicketLedger ----------------------------
(***************************************************************************)
(* A ticket beside the pools its entries refer to.  The program executes   *)
(* InitTicket and RefreshTicket; find_or_add_collateral_to_deposits,       *)
(* deposit and withdraw are public functions that no instruction calls     *)
(* yet, so they are taken as calls that arrive in any order.  The pools    *)
(* refresh, grow and shrink as the handlers make them.                     *)
(***************************************************************************)
EXTENDS TicketState

CONSTANTS
  Reserves,         \* the pools
  TicketAmounts,    \* the amounts callers pass
  SupplyChanges,    \* the pools whose supply changes, each with an amount
  OpenedPool,       \* the pools when the ticket account is created
  MaxSlot           \* bound on the clock

ASSUME LedgerAssumption ==
  /\ IsFiniteSet(Reserves)
  /\ MaxReserves \in Nat \ {0} /\ MaxSlot \in Nat
  /\ MintDecimals \in [Reserves -> Nat]
  /\ OpenedPool \in [Reserves -> PoolRecord]
  /\ TicketAmounts \subseteq 0..MaxU64
  /\ SupplyChanges \subseteq Reserves \X (0..MaxU64)

VARIABLES
  slot,     \* the clock
  pool,     \* pool[r]: the Pool account r
  ticket,   \* the Ticket account
  peak      \* auxiliary: the most the ticket ever held of each pool

vars == <<slot, pool, ticket, peak>>

TypeOK ==
  /\ slot \in 0..MaxSlot
  /\ pool \in [Reserves -> PoolRecord]
  /\ ticket \in TicketRecord(Reserves)
  /\ peak \in [Reserves -> 0..MaxU64]

Init ==
  /\ slot = 0
  /\ pool = OpenedPool
  /\ ticket = UninitializedTicket
  /\ peak = [r \in Reserves |-> 0]

-----------------------------------------------------------------------------
Tick ==
  /\ slot < MaxSlot
  /\ slot' = slot + 1
  /\ UNCHANGED <<pool, ticket, peak>>

\* The part of a handler that concerns the pool record.
Stores(r, pl) ==
  /\ CanPack(pl)
  /\ pool' = [pool EXCEPT ![r] = pl]
  /\ UNCHANGED <<slot, ticket, peak>>

RefreshPool(r) ==
  /\ CanRefreshIndex(pool[r], slot)
  /\ Stores(r, UpdateSlot(RefreshIndex(pool[r], slot), slot))

Supplied(r, n) ==
  /\ Fresh(pool[r], slot) /\ CanDeposit(pool[r], n)
  /\ Stores(r, MarkStale(DepositLiquidity(pool[r], n)))

Redeemed(r, n) ==
  /\ Fresh(pool[r], slot) /\ CanRedeem(pool[r], n)
  /\ Stores(r, MarkStale(RedeemCollateral(pool[r], n)))

-----------------------------------------------------------------------------
\* process_init_ticket, under a pool manager that is initialised, which no
\* instruction undoes.
InitTicket ==
  /\ ticket.version = 0
  /\ ticket' = NewTicket(slot)
  /\ UNCHANGED <<slot, pool, peak>>

\* process_refresh_ticket, given the pool accounts `reserves` in this order.
RefreshTicket(reserves) ==
  /\ CanRefreshTicket(pool, ticket, reserves, slot)
  /\ ticket' = RefreshedTicket(pool, ticket, slot)
  /\ UNCHANGED <<slot, pool, peak>>

FindOrAddCollateral(r) ==
  /\ ticket.version # 0
  /\ CanFindOrAdd(ticket, r)
  /\ ticket' = FindOrAdd(ticket, r, pool[r].l_token_mining_index)
  /\ UNCHANGED <<slot, pool, peak>>

Deposit(i, n) ==
  LET r == ticket.deposits[i].deposit_reserve
      held == ticket.deposits[i].deposited_amount + n
  IN  /\ CanDepositTo(ticket, i, n)
      /\ ticket' = DepositTo(ticket, i, n)
      /\ peak' = [peak EXCEPT ![r] = IF held > @ THEN held ELSE @]
      /\ UNCHANGED <<slot, pool>>

Withdraw(i, n) ==
  /\ CanWithdrawFrom(ticket, i, n)
  /\ ticket' = WithdrawFrom(ticket, i, n)
  /\ UNCHANGED <<slot, pool, peak>>

ReserveLists == UNION {[1..n -> Reserves] : n \in 0..MaxReserves}

Next ==
  \/ Tick
  \/ \E r \in Reserves : RefreshPool(r)
  \/ \E c \in SupplyChanges : Supplied(c[1], c[2])
  \/ \E c \in SupplyChanges : Redeemed(c[1], c[2])
  \/ InitTicket
  \/ \E reserves \in ReserveLists : RefreshTicket(reserves)
  \/ \E r \in Reserves : FindOrAddCollateral(r)
  \/ \E i \in DOMAIN ticket.deposits, n \in TicketAmounts : Deposit(i, n)
  \/ \E i \in DOMAIN ticket.deposits, n \in TicketAmounts : Withdraw(i, n)

Spec == Init /\ [][Next]_vars

-----------------------------------------------------------------------------
(***************************************************************************)
(* Properties                                                              *)
(***************************************************************************)

(***************************************************************************)
(* The deposits of a ticket are unique by pool and at most MaxReserves, so *)
(* that they fit the array they are packed into, after any sequence of     *)
(* additions and of withdrawals that drop entries from the middle.         *)
(***************************************************************************)
DepositsUniqueAndBounded ==
  /\ Len(ticket.deposits) <= MaxReserves
  /\ \A i, j \in DOMAIN ticket.deposits :
       ticket.deposits[i].deposit_reserve = ticket.deposits[j].deposit_reserve
         => i = j

(***************************************************************************)
(* No entry is ahead of its pool, so that the subtraction in               *)
(* refresh_deposit_unclaimed cannot fail and lock the ticket.              *)
(***************************************************************************)
EntriesBehindPools ==
  \A i \in DOMAIN ticket.deposits :
    LET d == ticket.deposits[i]
    IN  d.index <= pool[d.deposit_reserve].l_token_mining_index

(***************************************************************************)
(* No stretch of a mining index is credited twice: what a ticket has been  *)
(* credited is at most the most it ever held of each pool times the index  *)
(* of the pool, however refreshes, deposits, withdrawals, dropped entries  *)
(* and entries added again follow one another.                             *)
(***************************************************************************)
CreditedOnce ==
  ticket.unclaimed_mine
    <= SumFunction([r \in Reserves |-> peak[r] * pool[r].l_token_mining_index])

=============================================================================
