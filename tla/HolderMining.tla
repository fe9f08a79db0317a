---------------------------- MODULE HolderMining ----------------------------
(***************************************************************************)
(* A holder with both accounts that earn mine: the ticket of TicketLedger, *)
(* for collateral deposited, and a mining account, for collateral held.    *)
(* The functions that change amounts do not credit an entry before they    *)
(* change it, in either account; callers that refresh the entry first are  *)
(* assumed here.  TicketLedger shows what is left without that.  A mining  *)
(* account is packed between two calls.                                    *)
(***************************************************************************)
EXTENDS TicketLedger, MiningState

CONSTANT MiningAmounts   \* the amounts callers pass for the mining account

ASSUME HolderAssumption ==
  MaxMiningVolume \in Nat \ {0} /\ MiningAmounts \subseteq 0..MaxU64

VARIABLE mining   \* the Mining account

holderVars == <<vars, mining>>

HolderTypeOK ==
  /\ TypeOK
  /\ mining \in MiningRecord(Reserves)

HolderInit ==
  /\ Init
  /\ mining = UninitializedMining

-----------------------------------------------------------------------------
\* Callers credit the whole ticket (RefreshTicket) before they change it.
TicketSettled ==
  \A i \in DOMAIN ticket.deposits :
    ticket.deposits[i].index = pool[ticket.deposits[i].deposit_reserve].l_token_mining_index

TicketNext ==
  /\ \/ Tick
     \/ \E r \in Reserves : RefreshPool(r)
     \/ \E c \in SupplyChanges : Supplied(c[1], c[2])
     \/ \E c \in SupplyChanges : Redeemed(c[1], c[2])
     \/ InitTicket
     \/ \E reserves \in ReserveLists : RefreshTicket(reserves)
     \/ \E r \in Reserves : FindOrAddCollateral(r)
     \/ TicketSettled /\ \E i \in DOMAIN ticket.deposits, n \in TicketAmounts : Deposit(i, n)
     \/ TicketSettled /\ \E i \in DOMAIN ticket.deposits, n \in TicketAmounts : Withdraw(i, n)
  /\ UNCHANGED mining

-----------------------------------------------------------------------------
StoresMining(mg) ==
  /\ CanPackMining(mg)
  /\ mining' = mg
  /\ UNCHANGED vars

InitMining ==
  /\ mining.version = 0
  /\ StoresMining(NewMining(<< >>))

AddReserve(r) ==
  /\ mining.version # 0
  /\ CanFindOrAddReserve(mining, r)
  /\ StoresMining(FindOrAddReserve(mining, r, pool[r].l_token_mining_index))

Entry(r) == FindMiningIndex(mining, r)

CreditMining(r) ==
  /\ Entry(r) # Err
  /\ CanRefreshUnclaimed(mining, Entry(r), pool[r])
  /\ StoresMining(RefreshUnclaimed(mining, Entry(r), pool[r]))

MiningSettled(r) == mining.mining_indices[Entry(r)].index = pool[r].l_token_mining_index

Acquire(r, n) ==
  /\ Entry(r) # Err
  /\ MiningSettled(r)
  /\ CanDepositMining(mining, Entry(r), n)
  /\ StoresMining(DepositMining(mining, Entry(r), n))

PartWith(r, n) ==
  /\ Entry(r) # Err
  /\ MiningSettled(r)
  /\ CanWithdrawMining(mining, Entry(r), n)
  /\ StoresMining(WithdrawMining(mining, Entry(r), n))

HolderNext ==
  \/ TicketNext
  \/ InitMining
  \/ \E r \in Reserves : AddReserve(r)
  \/ \E r \in Reserves : CreditMining(r)
  \/ \E r \in Reserves, n \in MiningAmounts : Acquire(r, n)
  \/ \E r \in Reserves, n \in MiningAmounts : PartWith(r, n)

HolderSpec == HolderInit /\ [][HolderNext]_holderVars

-----------------------------------------------------------------------------
(***************************************************************************)
(* Properties                                                              *)
(***************************************************************************)

(***************************************************************************)
(* The entries of a mining account are unique by pool and at most as many  *)
(* as the account has bytes for.  A pool listed twice would be found at    *)
(* its first entry only, and the other never be credited again.            *)
(***************************************************************************)
MiningUniqueAndBounded ==
  /\ Len(mining.mining_indices) <= MaxMiningVolume
  /\ \A i, j \in DOMAIN mining.mining_indices :
       mining.mining_indices[i].reserve = mining.mining_indices[j].reserve => i = j

(***************************************************************************)
(* A position that was looked up names the entry of its pool until a       *)
(* withdrawal empties this entry or one in front of it: adding a pool,     *)
(* crediting, depositing and withdrawing a part never move one.  So these  *)
(* withdrawals are the only calls over which a caller may not keep a       *)
(* position, for refresh_unclaimed, deposit and withdraw take the entry at *)
(* the position they are given, whichever pool it is of.                   *)
(***************************************************************************)
PositionsMoveWithARemoval ==
  \A r \in Reserves :
    Entry(r) # Err /\ Entry(r)' # Entry(r) =>
      \E q \in Reserves : Entry(q) \in 1..Entry(r) /\ ~Lists(mining', q)

PositionsStay == [][PositionsMoveWithARemoval]_mining

(***************************************************************************)
(* The entries of both accounts, drawn up lazily and dropped when they are *)
(* empty, together credit the holder as if every advance of an index were  *)
(* shared out at once: nothing is lost, credited twice, or credited for an *)
(* amount that was not held.                                               *)
(***************************************************************************)
TicketHeld(r) ==
  SumFunction([i \in DOMAIN ticket.deposits |->
                 LET d == ticket.deposits[i]
                 IN  IF d.deposit_reserve = r THEN d.deposited_amount ELSE 0])

MiningHeld(r) ==
  SumFunction([i \in DOMAIN mining.mining_indices |->
                 LET e == mining.mining_indices[i]
                 IN  IF e.reserve = r THEN e.un_coll_l_token_amount ELSE 0])

NotYetCredited ==
  SumFunction([i \in DOMAIN ticket.deposits |->
                 LET d == ticket.deposits[i]
                 IN  d.deposited_amount
                       * (pool[d.deposit_reserve].l_token_mining_index - d.index)])
  + SumFunction([i \in DOMAIN mining.mining_indices |->
                   LET e == mining.mining_indices[i]
                   IN  e.un_coll_l_token_amount
                         * (pool[e.reserve].l_token_mining_index - e.index)])

Eager == INSTANCE EagerMining WITH
  index <- [r \in Reserves |-> pool[r].l_token_mining_index],
  held  <- [r \in Reserves |-> TicketHeld(r) + MiningHeld(r)],
  owed  <- ticket.unclaimed_mine + mining.unclaimed_mine + NotYetCredited

ImplementsEagerMining == Eager!Spec

=============================================================================
