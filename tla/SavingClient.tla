---------------------------- MODULE SavingClient ----------------------------
(***************************************************************************)
(* How savers reach the program: a deposit and a redemption need the pool  *)
(* refreshed in the same slot and leave it stale, so a client puts a       *)
(* RefreshReserve in front of them in one transaction, which the runtime   *)
(* executes as a whole or not at all.  Other callers keep sending single   *)
(* instructions, which run between such transactions.                      *)
(***************************************************************************)
EXTENDS Processor, FiniteSets

\* Accounts are created one at a time.
ASSUME SavingAssumption == IsFiniteSet(TokenAccounts)

RefreshAndDeposit(p, a, amount) ==
  CanRefresh(p) /\ \E pl \in {Refreshed(p)} : DepositFrom(p, pl, a, amount)

RefreshAndRedeem(p, a, amount) ==
  CanRefresh(p) /\ \E pl \in {Refreshed(p)} : RedeemFrom(p, pl, a, amount)

\* A saver leaves: the amount u64::MAX redeems the whole account.
Leave(p, a) == RefreshAndRedeem(p, a, MaxU64)

\* The oracle shows a price that a pool can store.
Usable(feed) == ToScaledVal(GetPythPrice(feed)) # Err

Quote(p) == \E feed \in Feeds : Usable(feed) /\ OraclePublish(p, feed)

ClientNext ==
  \/ Next
  \/ \E p \in Pools, a \in AccountLists, n \in Amounts : RefreshAndDeposit(p, a, n)
  \/ \E p \in Pools, a \in AccountLists, n \in Amounts : RefreshAndRedeem(p, a, n)

(***************************************************************************)
(* A feed that shows nothing usable is eventually repaired.  A saver who   *)
(* wants to leave sends the transaction again whenever it failed, so it is *)
(* taken if it could be taken again and again: between two attempts the    *)
(* price may be lost again and the balance may have changed.  Nothing is   *)
(* assumed of the clock, of the refreshes of others, or of deposits.       *)
(***************************************************************************)
Leavers(p) == {a \in AccountLists :
                 MintOf[a.source] = CollateralMint(p) /\ a.signer = OwnerOf[a.source]}

Fairness ==
  /\ \A p \in Pools : WF_vars(Quote(p))
  /\ \A p \in Pools : \A a \in Leavers(p) : SF_vars(Leave(p, a))

ClientSafety == Init /\ [][ClientNext]_vars

ClientSpec == ClientSafety /\ Fairness

\* What Leave checks, all of it.
CanLeave(p, a) ==
  LET pl         == Refreshed(p)
      collateral == Requested(a, MaxU64)
  IN  /\ CanRefresh(p)
      /\ Accepts(p, pl, a)
      /\ a.source # Wiring[p].collateral_supply
      /\ a.destination # Supply(p)
      /\ CanRedeem(pl, collateral)
      /\ CanPack(MarkStale(RedeemCollateral(pl, collateral)))
      /\ CanBurn(a.mint, a.source, a.signer, collateral)
      /\ CanTransfer(a.supply, a.destination, a.authority, LiquidityFor(pl, collateral))

\* The lists of a saver who passes the accounts the pool is wired to.
ProperLists(p) ==
  {a \in Leavers(p) :
     /\ a.manager = Wiring[p].manager /\ a.authority = PoolAuthority[a.manager]
     /\ a.supply = Supply(p) /\ a.mint = CollateralMint(p)
     /\ a.source # Wiring[p].collateral_supply
     /\ MintOf[a.destination] = Wiring[p].liquidity_mint
     /\ OwnerOf[a.destination] = OwnerOf[a.source]}

(***************************************************************************)
(* The way out is never blocked.  Whatever happened before, a saver who    *)
(* holds collateral and has room for what it is worth passes every check   *)
(* of Leave, of the pool and of the token program, as soon as the feed     *)
(* shows a usable price and while the mining index fits its width: the     *)
(* pool is open, its manager known, its lock open, and both what the pool  *)
(* records and what the token program holds cover the whole account.       *)
(***************************************************************************)
WayOut ==
  \A p \in Pools : \A a \in ProperLists(p) :
    /\ balance[a.source] > 0
    /\ balance[a.destination] + balance[a.source] <= MaxU64
    /\ UsablePrice(p) /\ WithinHorizon(p)
    => CanLeave(p, a)

(***************************************************************************)
(* Whoever keeps trying to leave gets out: as long as the mining index     *)
(* stays within its width, the collateral of a saver who goes on sending   *)
(* Leave is redeemed to the last token, whatever the others, the oracle    *)
(* and the clock do in between.                                            *)
(***************************************************************************)
SaversGetOut ==
  \A p \in Pools : \A a \in Leavers(p) :
    balance[a.source] > 0 ~> balance[a.source] = 0

=============================================================================
