---------------------------- MODULE Transactions ----------------------------
(***************************************************************************)
(* The handlers of Processor taken apart.  A deposit or a redemption first *)
(* packs the pool with the new amounts, and only then invokes the token    *)
(* program, twice; in between, the pool account records liquidity that has *)
(* not arrived or collateral that is not burnt.  A transaction is a        *)
(* sequence of instructions, here a refresh followed by one of the two or  *)
(* any instruction alone, and may fail at every step: by a check of the    *)
(* handler, by a call that is refused, or by running out of its budget.    *)
(* The runtime then writes back the accounts as they were at its start.    *)
(* It holds the accounts of a transaction while it runs, so that everyone  *)
(* else acts between two transactions.                                     *)
(*                                                                         *)
(* What the world sees are the accounts as of the last transaction that    *)
(* succeeded.  They behave as those of SavingClient, where every           *)
(* transaction is one step.                                                *)
(***************************************************************************)
EXTENDS Processor, Sequences, Functions

VARIABLES
  rest,    \* the instructions and calls the running transaction still has
  saved    \* the accounts as they were at its start, and nothing between two

running == rest # << >>

allVars == <<vars, rest, saved>>

Accounts == [pool |-> pool, balance |-> balance, minted |-> minted]

Refresh(p)               == [step |-> "refresh", pool |-> p]
DepositOf(p, a, amount)  == [step |-> "deposit", pool |-> p, list |-> a, amount |-> amount]
RedeemOf(p, a, amount)   == [step |-> "redeem", pool |-> p, list |-> a, amount |-> amount]

TransferCall(from, to, authority, amount) ==
  [step |-> "transfer", from |-> from, to |-> to, authority |-> authority,
   amount |-> amount]
MintCall(mint, to, authority, amount) ==
  [step |-> "mint", mint |-> mint, to |-> to, authority |-> authority,
   amount |-> amount]
BurnCall(mint, from, authority, amount) ==
  [step |-> "burn", mint |-> mint, from |-> from, authority |-> authority,
   amount |-> amount]

Instructions ==
  {Refresh(p) : p \in Pools}
    \cup {DepositOf(p, a, n) : p \in Pools, a \in AccountLists, n \in Amounts}
    \cup {RedeemOf(p, a, n) : p \in Pools, a \in AccountLists, n \in Amounts}

TransactionsSent ==
  {<<i>> : i \in Instructions}
    \cup {<<Refresh(i.pool), i>> : i \in {j \in Instructions : j.step # "refresh"}}

TxInit ==
  /\ Init
  /\ rest = << >>
  /\ saved = << >>

Begin(tx) ==
  /\ ~running
  /\ rest' = tx
  /\ saved' = Accounts
  /\ UNCHANGED vars

-----------------------------------------------------------------------------
\* The next step of the transaction, which is replaced by the steps `calls`.
Now(kind) == running /\ Head(rest).step = kind

Continue(calls) ==
  /\ rest' = calls \o Tail(rest)
  /\ saved' = IF rest' = << >> THEN << >> ELSE saved
  /\ UNCHANGED <<slot, oracle, manager>>

RefreshStep ==
  /\ Now("refresh")
  /\ LET p == Head(rest).pool
     IN  CanRefresh(p) /\ pool' = [pool EXCEPT ![p] = Refreshed(p)]
  /\ UNCHANGED <<balance, minted>>
  /\ Continue(<< >>)

\* A mutation: the amount the caller passed is transferred, not the amount
\* it stands for.
CallsForTheRequest(a, amount, liquidity, collateral) ==
  << TransferCall(a.source, a.supply, a.signer, amount),
     MintCall(a.mint, a.destination, a.authority, collateral) >>

\* The two calls of process_deposit_pool_liquidity.
DepositCalls(a, amount, liquidity, collateral) ==
  << TransferCall(a.source, a.supply, a.signer, liquidity),
     MintCall(a.mint, a.destination, a.authority, collateral) >>

\* process_deposit_pool_liquidity up to its first call.
DepositStep ==
  /\ Now("deposit")
  /\ LET p == Head(rest).pool
         a == Head(rest).list
         amount == Head(rest).amount
         liquidity == Requested(a, amount)
         deposited == MarkStale(DepositLiquidity(pool[p], liquidity))
     IN  /\ amount # 0
         /\ Accepts(p, pool[p], a)
         /\ a.source # Supply(p)
         /\ a.destination # Wiring[p].collateral_supply
         /\ ~pool[p].deposit_paused
         /\ liquidity <= balance[a.source]
         /\ CanDeposit(pool[p], liquidity)
         /\ CanPack(deposited)
         /\ pool' = [pool EXCEPT ![p] = deposited]
         /\ Continue(DepositCalls(a, amount, liquidity, CollateralFor(pool[p], liquidity)))
  /\ UNCHANGED <<balance, minted>>

\* What process_redeem_pool_collateral packs before its first call.
PackedRedemption(pl, collateral) == MarkStale(RedeemCollateral(pl, collateral))

\* process_redeem_pool_collateral up to its first call.
RedeemStep ==
  /\ Now("redeem")
  /\ LET p == Head(rest).pool
         a == Head(rest).list
         amount == Head(rest).amount
         collateral == Requested(a, amount)
         redeemed == PackedRedemption(pool[p], collateral)
     IN  /\ amount # 0
         /\ Accepts(p, pool[p], a)
         /\ a.source # Wiring[p].collateral_supply
         /\ a.destination # Supply(p)
         /\ collateral <= balance[a.source]
         /\ CanRedeem(pool[p], collateral)
         /\ CanPack(redeemed)
         /\ pool' = [pool EXCEPT ![p] = redeemed]
         /\ Continue(<< BurnCall(a.mint, a.source, a.signer, collateral),
                        TransferCall(a.supply, a.destination, a.authority,
                                     LiquidityFor(pool[p], collateral)) >>)
  /\ UNCHANGED <<balance, minted>>

-----------------------------------------------------------------------------
TransferStep ==
  /\ Now("transfer")
  /\ LET c == Head(rest)
     IN  /\ CanTransfer(c.from, c.to, c.authority, c.amount)
         /\ balance' = Transferred(balance, c.from, c.to, c.amount)
  /\ UNCHANGED <<pool, minted>>
  /\ Continue(<< >>)

\* A mutation: the result of the call is not looked at.
MintUnchecked ==
  /\ Now("mint")
  /\ LET c == Head(rest)
     IN  IF CanMintTo(c.mint, c.to, c.authority, c.amount)
         THEN /\ balance' = Credited(balance, c.to, c.amount)
              /\ minted' = [minted EXCEPT ![c.mint] = @ + c.amount]
         ELSE UNCHANGED <<balance, minted>>
  /\ UNCHANGED pool
  /\ Continue(<< >>)

MintStep ==
  /\ Now("mint")
  /\ LET c == Head(rest)
     IN  /\ CanMintTo(c.mint, c.to, c.authority, c.amount)
         /\ balance' = Credited(balance, c.to, c.amount)
         /\ minted' = [minted EXCEPT ![c.mint] = @ + c.amount]
  /\ UNCHANGED pool
  /\ Continue(<< >>)

BurnStep ==
  /\ Now("burn")
  /\ LET c == Head(rest)
     IN  /\ CanBurn(c.mint, c.from, c.authority, c.amount)
         /\ balance' = Debited(balance, c.from, c.amount)
         /\ minted' = [minted EXCEPT ![c.mint] = @ - c.amount]
  /\ UNCHANGED pool
  /\ Continue(<< >>)

\* The transaction fails: every account is as it was, whatever it wrote.
Abort ==
  /\ running
  /\ rest' = << >>
  /\ pool' = saved.pool /\ balance' = saved.balance /\ minted' = saved.minted
  /\ saved' = << >>
  /\ UNCHANGED <<slot, oracle, manager>>

-----------------------------------------------------------------------------
Others ==
  /\ ~running
  /\ \/ Tick
     \/ \E p \in Pools, feed \in Feeds : OraclePublish(p, feed)
     \/ \E u \in Users, s, d \in TokenAccounts, n \in Amounts : Transfer(u, s, d, n)
     \/ \E u \in Users, s \in TokenAccounts, n \in Amounts : Burn(u, s, n)
     \/ \E m \in Managers, s \in Users, o \in ManagerOwners, c \in Currencies :
          InitManager(m, s, o, c)
     \/ \E p \in Pools, s \in Users, v \in Speeds : InitPool(p, s, v)
  /\ UNCHANGED <<rest, saved>>

TxNext ==
  \/ Others
  \/ \E tx \in TransactionsSent : Begin(tx)
  \/ RefreshStep
  \/ DepositStep
  \/ RedeemStep
  \/ TransferStep
  \/ MintStep
  \/ BurnStep
  \/ Abort

TxSpec == TxInit /\ [][TxNext]_allVars

-----------------------------------------------------------------------------
(***************************************************************************)
(* Properties                                                              *)
(***************************************************************************)

(***************************************************************************)
(* Seen from outside, a transaction happens at once or not at all: no      *)
(* order of its steps, no call that is refused after the pool was packed   *)
(* or after the first call went through, and no end of its budget leaves   *)
(* anything but what SavingClient does in one step.  So what is shown of   *)
(* Processor with whole handlers holds of the handlers step by step.       *)
(***************************************************************************)
Seen == IF running THEN saved ELSE Accounts

Client == INSTANCE SavingClient WITH
  pool <- Seen.pool, balance <- Seen.balance, minted <- Seen.minted

ImplementsClient == Client!ClientSafety

(***************************************************************************)
(* In the middle of a transaction the books of a pool it has packed are    *)
(* out by exactly the calls still to come: with these, what the supply     *)
(* account holds beyond the liquidity recorded, and what is recorded       *)
(* beyond the collateral outstanding, is what it was before.  So the calls *)
(* are for the amounts the pool was packed with, also when u64::MAX stands *)
(* for the whole of an account.                                            *)
(***************************************************************************)
Pending(Wanted(_)) ==
  SumFunction([i \in DOMAIN rest |-> IF Wanted(rest[i]) THEN rest[i].amount ELSE 0])

BooksWithPending ==
  running => \A p \in Pools : pool[p] # saved.pool[p] =>
    LET claim      == CollateralMint(p)
        IsIn(c)   == c.step = "transfer" /\ c.to = Supply(p)
        IsOut(c)  == c.step = "transfer" /\ c.from = Supply(p)
        IsMint(c) == c.step = "mint" /\ c.mint = claim
        IsBurn(c) == c.step = "burn" /\ c.mint = claim
    IN  /\ balance[Supply(p)] + Pending(IsIn) - Pending(IsOut)
               - pool[p].available_amount
             = saved.balance[Supply(p)] - saved.pool[p].available_amount
        /\ minted[claim] + Pending(IsMint) - Pending(IsBurn)
               - pool[p].mint_total_supply
             = saved.minted[claim] - saved.pool[p].mint_total_supply

=============================================================================
