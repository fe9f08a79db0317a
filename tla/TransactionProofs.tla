-------------------------- MODULE TransactionProofs --------------------------
(***************************************************************************)
(* A transaction is seen to happen at once or not at all, for every number *)
(* of pools and accounts, every wiring that satisfies the assumptions and  *)
(* every width.  The invariant says where a running transaction stands:    *)
(* nothing is done, or the pool is refreshed, or the pool is packed and a  *)
(* call or two are still to come, for the amounts it was packed with.      *)
(* Every step then keeps the place, and the last call completes what       *)
(* SavingClient does in one step from the accounts that were saved.        *)
(***************************************************************************)
EXTENDS Transactions, ProcessorProofs, SequenceTheorems

-----------------------------------------------------------------------------
(***************************************************************************)
(* The operators of SavingClient, as seen from here, are those of          *)
(* Processor; only the accounts they look at are the saved ones.           *)
(***************************************************************************)

\* The fixed-point operators.
LEMMA SameArithmetic ==
  /\ Client!Err = Err /\ Client!One = One /\ Client!DecimalMax = DecimalMax /\ Client!RateMax = RateMax
  /\ \A x, w : Client!Checked(x, w) = Checked(x, w)
  /\ \A n : Client!Decimal(n) = Decimal(n)
  /\ \A a, b, w : /\ Client!TryAdd(a, b, w) = TryAdd(a, b, w)
                  /\ Client!TrySub(a, b, w) = TrySub(a, b, w)
                  /\ Client!TryMul(a, b, w) = TryMul(a, b, w)
                  /\ Client!TryDiv(a, b, w) = TryDiv(a, b, w)
                  /\ Client!TryMulInt(a, b, w) = TryMulInt(a, b, w)
  /\ \A a, n : Client!TryDivInt(a, n) = TryDivInt(a, n)
  /\ \A a, w : Client!TryRoundU64(a, w) = TryRoundU64(a, w)
  /\ \A a : /\ Client!TryCeilU64(a) = TryCeilU64(a)
            /\ Client!TryFloorU64(a) = TryFloorU64(a)
            /\ Client!ToScaledVal(a) = ToScaledVal(a)
BY DEF Client!Err, Err, Client!One, One, Client!Checked, Checked, Client!Decimal, Decimal,
  Client!DecimalMax, DecimalMax, Client!RateMax, RateMax,
  Client!TryAdd, TryAdd, Client!TrySub, TrySub, Client!TryMul, TryMul, Client!TryDiv, TryDiv,
  Client!TryMulInt, TryMulInt, Client!TryDivInt, TryDivInt, Client!TryRoundU64, TryRoundU64,
  Client!TryCeilU64, TryCeilU64, Client!TryFloorU64, TryFloorU64, Client!ToScaledVal, ToScaledVal,
  Client!HalfWad, HalfWad

\* The functions on liquidity and collateral.
LEMMA SamePools ==
  ASSUME NEW pl, NEW n
  PROVE /\ Client!CollateralFor(pl, n) = CollateralFor(pl, n)
        /\ Client!LiquidityFor(pl, n) = LiquidityFor(pl, n)
        /\ Client!CanDeposit(pl, n) = CanDeposit(pl, n)
        /\ Client!CanRedeem(pl, n) = CanRedeem(pl, n)
        /\ Client!DepositLiquidity(pl, n) = DepositLiquidity(pl, n)
        /\ Client!RedeemCollateral(pl, n) = RedeemCollateral(pl, n)
<1>1. Client!TotalSupply(pl) = TotalSupply(pl)
  BY SameArithmetic DEF Client!TotalSupply, TotalSupply
<1>2. Client!InitialCollateralRate = InitialCollateralRate
  BY DEF Client!InitialCollateralRate, InitialCollateralRate, Client!InitialCollateralRatio, InitialCollateralRatio
<1>3. Client!CollateralExchangeRate(pl) = CollateralExchangeRate(pl)
  BY <1>1, <1>2, SameArithmetic DEF Client!CollateralExchangeRate, CollateralExchangeRate
<1>4. Client!CollateralFor(pl, n) = CollateralFor(pl, n)
  BY <1>3, SameArithmetic DEF Client!CollateralFor, CollateralFor, Client!LiquidityToCollateral, LiquidityToCollateral
<1>5. Client!LiquidityFor(pl, n) = LiquidityFor(pl, n)
  BY <1>3, SameArithmetic DEF Client!LiquidityFor, LiquidityFor, Client!CollateralToLiquidity, CollateralToLiquidity
<1>6. Client!LiquidityAmount(pl) = LiquidityAmount(pl)
  BY SameArithmetic DEF Client!LiquidityAmount, LiquidityAmount
<1> QED
  BY <1>4, <1>5, <1>6, SameArithmetic DEF Client!CanDeposit, CanDeposit, Client!CanRedeem, CanRedeem,
    Client!DepositLiquidity, DepositLiquidity, Client!RedeemCollateral, RedeemCollateral

\* The mark, the refresh and the packing of a pool.
LEMMA SameMarks ==
  ASSUME NEW pl, NEW now
  PROVE /\ Client!MarkStale(pl) = MarkStale(pl)
        /\ Client!CanPack(pl) = CanPack(pl)
        /\ Client!IsInitialized(pl) = IsInitialized(pl)
        /\ Client!Fresh(pl, now) = Fresh(pl, now)
        /\ Client!UpdateSlot(pl, now) = UpdateSlot(pl, now)
        /\ Client!RefreshIndex(pl, now) = RefreshIndex(pl, now)
        /\ Client!CanRefreshIndex(pl, now) = CanRefreshIndex(pl, now)
<1>1. Client!SlotsElapsed(pl, now) = SlotsElapsed(pl, now)
  BY SameArithmetic DEF Client!SlotsElapsed, SlotsElapsed
<1>2. Client!MineRatio = MineRatio
  BY SameArithmetic DEF Client!MineRatio, MineRatio, Client!FromPercent, FromPercent
<1>3. Client!Emission(pl, now) = Emission(pl, now)
  BY <1>1, <1>2, SameArithmetic DEF Client!Emission, Emission
<1>4. /\ Client!LTokenMiningIndex(pl, now) = LTokenMiningIndex(pl, now)
      /\ Client!OriginalShare(pl) = OriginalShare(pl)
  BY <1>3, SameArithmetic DEF Client!LTokenMiningIndex, LTokenMiningIndex, Client!OriginalShare, OriginalShare
<1>5. Client!BorrowMiningIndex(pl, now) = BorrowMiningIndex(pl, now)
  BY <1>3, <1>4, SameArithmetic DEF Client!BorrowMiningIndex, BorrowMiningIndex
<1>6. Client!Mines(pl) = Mines(pl) /\ Client!MinesBorrows(pl) = MinesBorrows(pl)
  BY <1>4, SameArithmetic DEF Client!Mines, Mines, Client!MinesBorrows, MinesBorrows
<1>7. Client!RefreshIndex(pl, now) = RefreshIndex(pl, now)
  BY <1>4, <1>5, <1>6 DEF Client!RefreshIndex, RefreshIndex
<1>8. Client!CanRefreshIndex(pl, now) = CanRefreshIndex(pl, now)
  BY <1>1, <1>4, <1>5, <1>6, SameArithmetic DEF Client!CanRefreshIndex, CanRefreshIndex
<1>9. Client!CanPack(pl) = CanPack(pl)
  BY SameArithmetic DEF Client!CanPack, CanPack
<1> QED
  BY <1>1, <1>7, <1>8, <1>9, SameArithmetic DEF Client!MarkStale, MarkStale, Client!IsInitialized, IsInitialized, Client!Fresh, Fresh,
    Client!UpdateSlot, UpdateSlot, Client!StaleAfterSlotsElapsed, StaleAfterSlotsElapsed

-----------------------------------------------------------------------------
(***************************************************************************)
(* The invariant                                                           *)
(***************************************************************************)

\* Accounts of the right types, with every pool at par.
Sound(s) ==
  /\ s.pool \in [Pools -> PoolRecord]
  /\ \A p \in Pools : AtPar(s.pool[p])
  /\ s.balance \in [TokenAccounts -> 0..MaxU64]
  /\ s.minted \in [Mints -> 0..MaxU64]

\* What a handler of the running transaction unpacks from account p.
Unpacks(p, pl) ==
  \/ pl = saved.pool[p]
  \/ Client!CanRefresh(p) /\ pl = Client!Refreshed(p)

\* Nothing is done yet, or the pool is refreshed.
Started == saved = Accounts /\ rest \in TransactionsSent

RefreshDone ==
  /\ balance = saved.balance /\ minted = saved.minted
  /\ \E i \in Instructions :
       /\ i.step # "refresh" /\ rest = <<i>>
       /\ Client!CanRefresh(i.pool)
       /\ pool = [saved.pool EXCEPT ![i.pool] = Client!Refreshed(i.pool)]

\* The pool is packed, with the amounts the calls still to come are for.
DepositPacked(p, pl, a, amount) ==
  LET n == Client!Requested(a, amount)
      deposited == MarkStale(DepositLiquidity(pl, n))
  IN  /\ amount # 0
      /\ Accepts(p, pl, a)
      /\ a.source # Supply(p)
      /\ a.destination # Wiring[p].collateral_supply
      /\ ~pl.deposit_paused
      /\ n <= saved.balance[a.source]
      /\ CanDeposit(pl, n)
      /\ CanPack(deposited)
      /\ pool = [saved.pool EXCEPT ![p] = deposited]
      /\ minted = saved.minted
      /\ \/ /\ rest = << TransferCall(a.source, a.supply, a.signer, n),
                         MintCall(a.mint, a.destination, a.authority, n) >>
            /\ balance = saved.balance
         \/ /\ rest = << MintCall(a.mint, a.destination, a.authority, n) >>
            /\ Client!CanTransfer(a.source, a.supply, a.signer, n)
            /\ balance = Transferred(saved.balance, a.source, a.supply, n)

RedeemPacked(p, pl, a, amount) ==
  LET n == Client!Requested(a, amount)
      redeemed == MarkStale(RedeemCollateral(pl, n))
  IN  /\ amount # 0
      /\ Accepts(p, pl, a)
      /\ a.source # Wiring[p].collateral_supply
      /\ a.destination # Supply(p)
      /\ n <= saved.balance[a.source]
      /\ CanRedeem(pl, n)
      /\ CanPack(redeemed)
      /\ pool = [saved.pool EXCEPT ![p] = redeemed]
      /\ \/ /\ rest = << BurnCall(a.mint, a.source, a.signer, n),
                         TransferCall(a.supply, a.destination, a.authority, n) >>
            /\ balance = saved.balance
            /\ minted = saved.minted
         \/ /\ rest = << TransferCall(a.supply, a.destination, a.authority, n) >>
            /\ Client!CanBurn(a.mint, a.source, a.signer, n)
            /\ balance = Debited(saved.balance, a.source, n)
            /\ minted = [saved.minted EXCEPT ![a.mint] = @ - n]

Calling ==
  \E p \in Pools, a \in AccountLists, amount \in Amounts : \E pl :
    /\ Unpacks(p, pl)
    /\ DepositPacked(p, pl, a, amount) \/ RedeemPacked(p, pl, a, amount)

TxInv ==
  /\ slot \in Nat
  /\ Sound(Accounts)
  /\ running => Sound(saved) /\ (Started \/ RefreshDone \/ Calling)

-----------------------------------------------------------------------------
(***************************************************************************)
(* Lists of steps, and what a handler unpacks                              *)
(***************************************************************************)

\* Sequences of at most two steps.
LEMMA ShortSequences ==
  ASSUME NEW x, NEW y
  PROVE  /\ <<x>> # << >> /\ <<x, y>> # << >>
         /\ Head(<<x>>) = x /\ Tail(<<x>>) = << >>
         /\ Head(<<x, y>>) = x /\ Tail(<<x, y>>) = <<y>>
         /\ << >> \o << >> = << >> /\ << >> \o <<x>> = <<x>>
         /\ <<x, y>> \o << >> = <<x, y>>
<1>1. <<x>> \in Seq({x, y}) /\ <<x, y>> \in Seq({x, y})
  OBVIOUS
<1> QED
  BY <1>1, ConcatEmptySeq

\* The instructions of a transaction.
LEMMA InstructionKinds ==
  ASSUME NEW i \in Instructions
  PROVE  /\ i.step \in {"refresh", "deposit", "redeem"}
         /\ i.step = "refresh" => \E p \in Pools : i = Refresh(p)
         /\ i.step = "deposit" =>
              \E p \in Pools, a \in AccountLists, n \in Amounts : i = DepositOf(p, a, n)
         /\ i.step = "redeem" =>
              \E p \in Pools, a \in AccountLists, n \in Amounts : i = RedeemOf(p, a, n)
  BY DEF Instructions, Refresh, DepositOf, RedeemOf

\* A transaction is an instruction, alone or after a refresh.
LEMMA SentKinds ==
  ASSUME NEW tx \in TransactionsSent
  PROVE  \E i \in Instructions :
           \/ tx = <<i>>
           \/ tx = <<Refresh(i.pool), i>> /\ i.step # "refresh"
  BY DEF TransactionsSent

\* While a transaction runs Seen is what was saved.
LEMMA SeenOf ==
  /\ running => Seen = saved
  /\ ~running => Seen = Accounts
  BY DEF Seen

\* The refresh of a pool that is as it was saved.
LEMMA SameRefresh ==
  ASSUME NEW p \in Pools, Seen.pool[p] = pool[p]
  PROVE  /\ Client!CanRefresh(p) = CanRefresh(p)
         /\ Client!Refreshed(p) = Refreshed(p)
<1>1. Client!GetPythPrice(oracle[p]) = GetPythPrice(oracle[p])
  BY SameArithmetic DEF Client!GetPythPrice, GetPythPrice, Client!PowerOfTen, PowerOfTen
<1>2. Client!Priced(p) = Priced(p)
  BY <1>1 DEF Client!Priced, Priced
<1> QED
  BY <1>1, <1>2, SameMarks, SameArithmetic
     DEF Client!CanRefresh, CanRefresh, Client!Refreshed, Refreshed

\* What is unpacked is at par, and a refresh has left the amounts alone.
LEMMA UnpacksAtPar ==
  ASSUME slot \in Nat, Sound(saved), running, NEW p \in Pools, NEW pl, Unpacks(p, pl)
  PROVE  /\ AtPar(pl)
         /\ pl.available_amount = saved.pool[p].available_amount
<1>1. AtPar(saved.pool[p]) /\ Seen = saved
  BY SeenOf DEF Sound
<1>2. ASSUME Client!CanRefresh(p), pl = Client!Refreshed(p)
      PROVE  AtPar(pl) /\ pl.available_amount = saved.pool[p].available_amount
  <2> DEFINE price == Client!GetPythPrice(oracle[p])
  <2>1. /\ pl = UpdateSlot(RefreshIndex([saved.pool[p] EXCEPT !.market_price = price], slot), slot)
        /\ CanPack(pl)
    BY <1>1, <1>2, SameMarks DEF Client!Refreshed, Client!CanRefresh, Client!Priced
  <2> QED
    BY <1>1, <2>1, RefreshAtPar
<1> QED
  BY <1>1, <1>2 DEF Unpacks

-----------------------------------------------------------------------------
(***************************************************************************)
(* The steps, one by one: each keeps the invariant, and is not seen or is  *)
(* one of SavingClient                                                     *)
(***************************************************************************)

\* A step inside a transaction is not seen.
LEMMA InsideUnseen ==
  ASSUME running, rest' # << >>, saved' = saved, UNCHANGED <<slot, oracle, manager>>
  PROVE  UNCHANGED Client!vars
  BY DEF running, Seen, Client!vars

\* Nor is its end, when nothing has changed.
LEMMA AbortUnseen ==
  ASSUME Abort
  PROVE  UNCHANGED Client!vars
  BY DEF Abort, running, Seen, Accounts, Client!vars

\* The first instruction of a transaction that has just begun.
LEMMA BeforeCalls ==
  ASSUME TxInv, running, Head(rest).step \in {"refresh", "deposit", "redeem"}
  PROVE  Started \/ RefreshDone
<1>1. ASSUME Calling PROVE FALSE
  <2>1. \E x, y : x.step \in {"transfer", "mint", "burn"} /\ (rest = <<x>> \/ rest = <<x, y>>)
    BY <1>1 DEF Calling, DepositPacked, RedeemPacked, TransferCall, MintCall, BurnCall
  <2> QED
    BY <2>1, ShortSequences
<1> QED
  BY <1>1 DEF TxInv

\* A refresh alone is seen; before another instruction it is not.
LEMMA RefreshStepKeeps ==
  ASSUME TxInv, RefreshStep
  PROVE  TxInv' /\ [Client!ClientNext]_(Client!vars)
<1>1. running /\ Head(rest).step = "refresh" /\ Seen = saved
  BY SeenOf DEF RefreshStep, Now
<1>2. Started
  <2>1. ASSUME RefreshDone PROVE FALSE
    BY <1>1, <2>1, ShortSequences, InstructionKinds DEF RefreshDone
  <2> QED
    BY <1>1, <2>1, BeforeCalls
<1>3. PICK i \in Instructions : \/ rest = <<i>>
                                \/ rest = <<Refresh(i.pool), i>> /\ i.step # "refresh"
  BY <1>2, SentKinds DEF Started
<1> DEFINE p == i.pool
           new == Refreshed(p)
<1>4. p \in Pools /\ Head(rest).pool = p
  BY <1>1, <1>3, ShortSequences, InstructionKinds DEF Instructions, Refresh, DepositOf, RedeemOf
<1>5. saved = Accounts /\ saved.pool = pool /\ saved.balance = balance /\ saved.minted = minted
  BY <1>2 DEF Started, Accounts
<1>6. /\ CanRefresh(p) /\ pool' = [pool EXCEPT ![p] = new]
      /\ UNCHANGED <<slot, oracle, manager, balance, minted>>
      /\ rest' = << >> \o Tail(rest)
      /\ saved' = IF rest' = << >> THEN << >> ELSE saved
  BY <1>4 DEF RefreshStep, Continue
<1>7. Client!CanRefresh(p) /\ Client!Refreshed(p) = new
  BY <1>1, <1>4, <1>5, <1>6, SameRefresh
<1>8. AtPar(new) /\ new \in PoolRecord
  <2>1. Unpacks(p, new)
    BY <1>7 DEF Unpacks
  <2> QED
    BY <1>1, <1>4, <2>1, UnpacksAtPar DEF TxInv, AtPar
<1>9. slot' \in Nat /\ Sound(Accounts)'
  BY <1>4, <1>6, <1>8 DEF TxInv, Sound, Accounts
<1>10. CASE rest = <<i>>
  <2>1. rest' = << >> /\ ~running'
    BY <1>6, <1>10, ShortSequences DEF running
  <2>2. Client!RefreshPool(p)
    <3>1. Seen' = Accounts'
      BY <2>1 DEF Seen
    <3>2. Seen.pool = pool /\ Seen.balance = balance /\ Seen.minted = minted
          /\ (Seen.pool)' = pool' /\ (Seen.balance)' = balance' /\ (Seen.minted)' = minted'
      BY <1>1, <1>5, <3>1 DEF Accounts
    <3> QED
      BY <1>6, <1>7, <3>2 DEF Client!RefreshPool
  <2> QED
    BY <1>4, <1>9, <2>1, <2>2 DEF TxInv, Client!ClientNext, Client!Next
<1>11. CASE rest = <<Refresh(p), i>> /\ i.step # "refresh"
  <2>1. rest' = <<i>> /\ rest' # << >> /\ saved' = saved
    BY <1>6, <1>11, ShortSequences
  <2>2. UNCHANGED Client!vars
    BY <1>1, <1>6, <2>1, InsideUnseen
  <2>3. UNCHANGED Seen
    BY <1>1, <2>1 DEF Seen, running
  <2>4. Client!CanRefresh(p)' /\ Client!Refreshed(p)' = new
    BY <1>6, <1>7, <2>3 DEF Client!CanRefresh, Client!Refreshed, Client!Priced
  <2>5. RefreshDone'
    BY <1>4, <1>5, <1>6, <1>11, <2>1, <2>4 DEF RefreshDone
  <2> QED
    BY <1>1, <1>9, <2>1, <2>2, <2>5 DEF TxInv
<1> QED
  BY <1>3, <1>10, <1>11

\* The pool from which the first handler after the refreshes works.
LEMMA HandlerUnpacks ==
  ASSUME TxInv, running, Head(rest).step \in {"deposit", "redeem"}
  PROVE  \E i \in Instructions :
           /\ rest = <<i>> /\ i.pool \in Pools
           /\ Unpacks(i.pool, pool[i.pool])
           /\ balance = saved.balance /\ minted = saved.minted
           /\ \A new : [pool EXCEPT ![i.pool] = new] = [saved.pool EXCEPT ![i.pool] = new]
<1>1. Sound(saved)
  BY DEF TxInv
<1>2. CASE Started
  <2>1. PICK i \in Instructions : \/ rest = <<i>>
                                  \/ rest = <<Refresh(i.pool), i>>
    BY <1>2, SentKinds DEF Started
  <2>2. rest = <<i>>
    BY <2>1, ShortSequences DEF Refresh
  <2> QED
    BY <1>2, <2>2, ShortSequences
       DEF Started, Unpacks, Accounts, Instructions, Refresh, DepositOf, RedeemOf
<1>3. CASE RefreshDone
  <2>1. PICK i \in Instructions :
          /\ rest = <<i>>
          /\ Client!CanRefresh(i.pool)
          /\ pool = [saved.pool EXCEPT ![i.pool] = Client!Refreshed(i.pool)]
    BY <1>3 DEF RefreshDone
  <2>2. i.pool \in Pools
    BY DEF Instructions, Refresh, DepositOf, RedeemOf
  <2> DEFINE x == Client!Refreshed(i.pool)
  <2> HIDE DEF x
  <2>3. saved.pool \in [Pools -> PoolRecord]
    BY <1>1 DEF Sound
  <2>4. pool[i.pool] = x
        /\ \A new : [pool EXCEPT ![i.pool] = new] = [saved.pool EXCEPT ![i.pool] = new]
    BY <2>1, <2>2, <2>3 DEF x
  <2> QED
    BY <1>3, <2>1, <2>2, <2>4 DEF RefreshDone, Unpacks, x
<1> QED
  BY <1>2, <1>3, BeforeCalls

\* Changing one pool to one at par.
LEMMA SoundPool ==
  ASSUME Sound(Accounts), NEW p \in Pools, NEW new, AtPar(new),
         pool' = [pool EXCEPT ![p] = new], UNCHANGED <<balance, minted>>
  PROVE  Sound(Accounts)'
  BY DEF Sound, Accounts, AtPar

\* A handler up to its first call.
LEMMA DepositStepKeeps ==
  ASSUME TxInv, DepositStep
  PROVE  TxInv' /\ UNCHANGED Client!vars
<1>1. running /\ Head(rest).step = "deposit" /\ Seen = saved
  BY SeenOf DEF DepositStep, Now
<1>2. PICK i \in Instructions :
         /\ rest = <<i>> /\ i.pool \in Pools
         /\ Unpacks(i.pool, pool[i.pool])
         /\ balance = saved.balance /\ minted = saved.minted
         /\ \A new : [pool EXCEPT ![i.pool] = new] = [saved.pool EXCEPT ![i.pool] = new]
  BY <1>1, HandlerUnpacks
<1>3. Head(rest) = i /\ Tail(rest) = << >>
  BY <1>2, ShortSequences
<1>4. PICK p \in Pools, a \in AccountLists, amount \in Amounts : i = DepositOf(p, a, amount)
  BY <1>1, <1>3, InstructionKinds
<1>5. i.pool = p /\ i.list = a /\ i.amount = amount
  BY <1>4 DEF DepositOf
<1> DEFINE pl == pool[p]
           n == Requested(a, amount)
           new == MarkStale(DepositLiquidity(pl, n))
<1>6. AtPar(pl)
  BY DEF TxInv, Sound, Accounts
<1>7. n \in 0..MaxU64
  BY AccountListTyped, ProcessorAssumption DEF Requested, TxInv, Sound, Accounts
<1>8. /\ amount # 0 /\ Accepts(p, pl, a)
      /\ a.source # Supply(p) /\ a.destination # Wiring[p].collateral_supply
      /\ ~pl.deposit_paused /\ n <= balance[a.source]
      /\ CanDeposit(pl, n) /\ CanPack(new)
      /\ pool' = [pool EXCEPT ![p] = new]
      /\ rest' = DepositCalls(a, amount, n, CollateralFor(pl, n)) \o << >>
      /\ saved' = IF rest' = << >> THEN << >> ELSE saved
      /\ UNCHANGED <<slot, oracle, manager, balance, minted>>
  BY <1>3, <1>5 DEF DepositStep, Continue
<1> HIDE DEF n
<1>9. AtPar(new) /\ CollateralFor(pl, n) = n
  BY <1>6, <1>7, <1>8, DepositAtPar
<1> HIDE DEF new
<1>10. /\ rest' = << TransferCall(a.source, a.supply, a.signer, n),
                     MintCall(a.mint, a.destination, a.authority, n) >>
       /\ rest' # << >> /\ saved' = saved
  BY <1>8, <1>9, ShortSequences DEF DepositCalls
<1>11. UNCHANGED Client!vars /\ UNCHANGED Seen
  BY <1>1, <1>8, <1>10, InsideUnseen DEF running, Seen
<1>12. slot' \in Nat /\ Sound(Accounts)' /\ Sound(saved)'
  BY <1>1, <1>8, <1>9, <1>10, SoundPool DEF TxInv, Sound
<1>13. Unpacks(p, pl) /\ pool' = [saved.pool EXCEPT ![p] = new]
  BY <1>2, <1>5, <1>8
<1> HIDE DEF pl
<1>14. n = Client!Requested(a, amount)
  BY <1>1, <1>2 DEF n, Requested, Client!Requested
<1>15. /\ (Client!Requested(a, amount))' = n
       /\ \E x : x = pl /\ Unpacks(p, x)'
  BY <1>8, <1>10, <1>11, <1>13, <1>14
     DEF Unpacks, Client!Requested, Client!CanRefresh, Client!Refreshed, Client!Priced
<1>16. \E x : x = pl /\ DepositPacked(p, x, a, amount)'
  BY <1>2, <1>8, <1>10, <1>13, <1>15 DEF DepositPacked, Accepts, new, ManagerInitialized
<1> QED
  BY <1>11, <1>12, <1>15, <1>16 DEF TxInv, Calling

LEMMA RedeemStepKeeps ==
  ASSUME TxInv, RedeemStep
  PROVE  TxInv' /\ UNCHANGED Client!vars
<1>1. running /\ Head(rest).step = "redeem" /\ Seen = saved
  BY SeenOf DEF RedeemStep, Now
<1>2. PICK i \in Instructions :
         /\ rest = <<i>> /\ i.pool \in Pools
         /\ Unpacks(i.pool, pool[i.pool])
         /\ balance = saved.balance /\ minted = saved.minted
         /\ \A new : [pool EXCEPT ![i.pool] = new] = [saved.pool EXCEPT ![i.pool] = new]
  BY <1>1, HandlerUnpacks
<1>3. Head(rest) = i /\ Tail(rest) = << >>
  BY <1>2, ShortSequences
<1>4. PICK p \in Pools, a \in AccountLists, amount \in Amounts : i = RedeemOf(p, a, amount)
  BY <1>1, <1>3, InstructionKinds
<1>5. i.pool = p /\ i.list = a /\ i.amount = amount
  BY <1>4 DEF RedeemOf
<1> DEFINE pl == pool[p]
           n == Requested(a, amount)
           new == PackedRedemption(pl, n)
<1>6. AtPar(pl)
  BY DEF TxInv, Sound, Accounts
<1>7. n \in 0..MaxU64
  BY AccountListTyped, ProcessorAssumption DEF Requested, TxInv, Sound, Accounts
<1>8. /\ amount # 0 /\ Accepts(p, pl, a)
      /\ a.source # Wiring[p].collateral_supply /\ a.destination # Supply(p)
      /\ n <= balance[a.source]
      /\ CanRedeem(pl, n) /\ CanPack(new)
      /\ pool' = [pool EXCEPT ![p] = new]
      /\ rest' = << BurnCall(a.mint, a.source, a.signer, n),
                    TransferCall(a.supply, a.destination, a.authority,
                                 LiquidityFor(pl, n)) >> \o << >>
      /\ saved' = IF rest' = << >> THEN << >> ELSE saved
      /\ UNCHANGED <<slot, oracle, manager, balance, minted>>
  BY <1>3, <1>5 DEF RedeemStep, Continue
<1> HIDE DEF n
<1>9. AtPar(new) /\ LiquidityFor(pl, n) = n
  BY <1>6, <1>7, <1>8, RedeemAtPar DEF PackedRedemption
<1> HIDE DEF new
<1>10. /\ rest' = << BurnCall(a.mint, a.source, a.signer, n),
                     TransferCall(a.supply, a.destination, a.authority, n) >>
       /\ rest' # << >> /\ saved' = saved
  BY <1>8, <1>9, ShortSequences
<1>11. UNCHANGED Client!vars /\ UNCHANGED Seen
  BY <1>1, <1>8, <1>10, InsideUnseen DEF running, Seen
<1>12. slot' \in Nat /\ Sound(Accounts)' /\ Sound(saved)'
  BY <1>1, <1>8, <1>9, <1>10, SoundPool DEF TxInv, Sound
<1>13. Unpacks(p, pl) /\ pool' = [saved.pool EXCEPT ![p] = new]
  BY <1>2, <1>5, <1>8
<1> HIDE DEF pl
<1>14. n = Client!Requested(a, amount)
  BY <1>1, <1>2 DEF n, Requested, Client!Requested
<1>15. /\ (Client!Requested(a, amount))' = n
       /\ \E x : x = pl /\ Unpacks(p, x)'
  BY <1>8, <1>10, <1>11, <1>13, <1>14
     DEF Unpacks, Client!Requested, Client!CanRefresh, Client!Refreshed, Client!Priced
<1>16. \E x : x = pl /\ RedeemPacked(p, x, a, amount)'
  BY <1>2, <1>8, <1>10, <1>13, <1>15 DEF RedeemPacked, Accepts, new, PackedRedemption, ManagerInitialized
<1> QED
  BY <1>11, <1>12, <1>15, <1>16 DEF TxInv, Calling

\* Changing balances and mints to others of their type.
LEMMA SoundTokens ==
  ASSUME Sound(Accounts), pool' = pool,
         balance' \in [TokenAccounts -> 0..MaxU64], minted' \in [Mints -> 0..MaxU64]
  PROVE  Sound(Accounts)'
  BY DEF Sound, Accounts

\* While calls are pending, one deposit or one redemption is under way.
LEMMA CallsPending ==
  ASSUME TxInv, running, Head(rest).step \in {"transfer", "mint", "burn"}
  PROVE  Calling
<1>1. ASSUME Started PROVE FALSE
  <2>1. \E i \in Instructions : \/ rest = <<i>> \/ rest = <<Refresh(i.pool), i>>
    BY <1>1, SentKinds DEF Started
  <2> QED
    BY <2>1, ShortSequences, InstructionKinds DEF Refresh
<1>2. ASSUME RefreshDone PROVE FALSE
  BY <1>2, ShortSequences, InstructionKinds DEF RefreshDone
<1> QED
  BY <1>1, <1>2 DEF TxInv

\* The two sides of a redemption are accounts of different mints.
LEMMA DifferentMints ==
  ASSUME NEW p \in Pools, NEW a \in AccountLists, a.supply = Supply(p)
  PROVE  /\ MintOf[a.destination] = CollateralMint(p) /\ MintOf[a.source] = MintOf[a.supply]
              => a.destination # a.source /\ a.destination # a.supply
         /\ MintOf[a.source] = CollateralMint(p) /\ MintOf[a.supply] = MintOf[a.destination]
              => a.source # a.destination /\ a.source # a.supply
  BY PoolKeysTyped, WiringAssumption

\* A deposit or a redemption from what was unpacked is a step of a client.
LEMMA ClientSteps ==
  ASSUME running, NEW p \in Pools, NEW a \in AccountLists, NEW amount \in Amounts,
         NEW pl, Unpacks(p, pl)
  PROVE  /\ Client!DepositFrom(p, pl, a, amount) => Client!ClientNext
         /\ Client!RedeemFrom(p, pl, a, amount) => Client!ClientNext
<1>1. CASE pl = saved.pool[p]
  <2>1. Seen.pool[p] = pl
    BY <1>1, SeenOf
  <2>2. /\ Client!DepositFrom(p, pl, a, amount) => Client!DepositPoolLiquidity(p, a, amount)
        /\ Client!RedeemFrom(p, pl, a, amount) => Client!RedeemPoolCollateral(p, a, amount)
    BY <2>1 DEF Client!DepositPoolLiquidity, Client!RedeemPoolCollateral
  <2> QED
    BY <2>2 DEF Client!ClientNext, Client!Next
<1>2. CASE Client!CanRefresh(p) /\ pl = Client!Refreshed(p)
  <2>1. /\ Client!DepositFrom(p, pl, a, amount) => Client!RefreshAndDeposit(p, a, amount)
        /\ Client!RedeemFrom(p, pl, a, amount) => Client!RefreshAndRedeem(p, a, amount)
    BY <1>2 DEF Client!RefreshAndDeposit, Client!RefreshAndRedeem
  <2> QED
    BY <2>1 DEF Client!ClientNext
<1> QED
  BY <1>1, <1>2 DEF Unpacks

\* The last call of a redemption.
LEMMA RedeemEnds ==
  ASSUME TxInv, TransferStep, NEW p \in Pools, NEW a \in AccountLists,
         NEW amount \in Amounts, NEW pl, Unpacks(p, pl), RedeemPacked(p, pl, a, amount)
  PROVE  TxInv' /\ Client!ClientNext
<1> DEFINE n == Client!Requested(a, amount)
<1>1. running /\ Head(rest).step = "transfer" /\ Seen = saved
  BY SeenOf DEF TransferStep, Now
<1>2. /\ rest = << TransferCall(a.supply, a.destination, a.authority, n) >>
      /\ Client!CanBurn(a.mint, a.source, a.signer, n)
      /\ balance = Debited(saved.balance, a.source, n)
      /\ minted = [saved.minted EXCEPT ![a.mint] = @ - n]
  BY <1>1, ShortSequences DEF RedeemPacked, BurnCall
<1>3. /\ CanTransfer(a.supply, a.destination, a.authority, n)
      /\ balance' = Transferred(balance, a.supply, a.destination, n)
      /\ UNCHANGED <<slot, oracle, manager, pool, minted>>
      /\ rest' = << >>
  BY <1>2, ShortSequences DEF TransferStep, TransferCall, Continue
<1>4. Sound(saved) /\ Sound(Accounts) /\ slot \in Nat
  BY <1>1 DEF TxInv
<1>5. AtPar(pl)
  BY <1>1, <1>4, UnpacksAtPar
<1>6. n \in 0..MaxU64
  BY <1>1, <1>4, AccountListTyped, ProcessorAssumption DEF Client!Requested, Sound
<1>7. LiquidityFor(pl, n) = n /\ a.supply = Supply(p) /\ a.mint = CollateralMint(p)
  <2>1. CanRedeem(pl, n) /\ Accepts(p, pl, a)
    BY DEF RedeemPacked
  <2> HIDE DEF n
  <2> QED
    BY <1>5, <1>6, <2>1, RedeemAtPar DEF Accepts
<1>8. TxInv'
  <2>1. balance \in [TokenAccounts -> 0..MaxU64] /\ minted \in [Mints -> 0..MaxU64]
    BY <1>4 DEF Sound, Accounts
  <2>2. /\ n <= balance[a.supply]
        /\ a.supply # a.destination => balance[a.destination] + n <= MaxU64
    BY <1>3, ProcessorAssumption DEF CanTransfer
  <2> HIDE DEF n
  <2>3. balance' \in [TokenAccounts -> 0..MaxU64]
    BY <1>3, <1>6, <2>1, <2>2, AccountListTyped, TransferTyped
  <2>4. Sound(Accounts)'
    BY <1>3, <1>4, <2>1, <2>3, SoundTokens
  <2> QED
    BY <1>3, <1>4, <2>4 DEF TxInv, running
<1>9. Client!CanTransfer(a.supply, a.destination, a.authority, n)
  <2>1. a.source # a.destination /\ a.source # a.supply
    BY <1>2, <1>3, <1>7, DifferentMints DEF Client!CanBurn, CanTransfer
  <2>2. saved.balance \in [TokenAccounts -> 0..MaxU64]
    BY <1>4 DEF Sound
  <2>3. balance[a.supply] = saved.balance[a.supply]
        /\ balance[a.destination] = saved.balance[a.destination]
    BY <1>2, <2>1, <2>2, AccountListTyped DEF Debited
  <2> QED
    BY <1>1, <1>3, <2>3 DEF CanTransfer, Client!CanTransfer
<1>10. Client!RedeemFrom(p, pl, a, amount)
  <2> HIDE DEF n
  <2>1. Seen' = Accounts' /\ Accounts' = [pool |-> pool, balance |-> balance', minted |-> minted]
    BY <1>3 DEF Seen, running, Accounts
  <2>2. (Seen.pool)' = pool /\ (Seen.balance)' = balance' /\ (Seen.minted)' = minted
    BY <2>1
  <2>3. Client!Accepts(p, pl, a) /\ Client!Supply(p) = Supply(p)
    BY SameMarks
       DEF RedeemPacked, Accepts, Client!Accepts, Client!ManagerInitialized, ManagerInitialized,
           Client!Supply, Supply, Client!CollateralMint, CollateralMint
  <2>4. balance' = Client!Transferred(Client!Debited(saved.balance, a.source, n),
                                      a.supply, a.destination, n)
    BY <1>2, <1>3 DEF Client!Transferred, Client!Debited, Client!Credited,
                      Transferred, Debited, Credited
  <2>5. pool = [saved.pool EXCEPT ![p] = Client!MarkStale(Client!RedeemCollateral(pl, n))]
        /\ Client!CanPack(Client!MarkStale(Client!RedeemCollateral(pl, n)))
        /\ Client!CanRedeem(pl, n) /\ Client!LiquidityFor(pl, n) = n
    BY <1>7, SameMarks, SamePools DEF RedeemPacked, n
  <2> QED
    BY <1>1, <1>2, <1>3, <1>9, <2>2, <2>3, <2>4, <2>5 DEF Client!RedeemFrom, RedeemPacked, n
<1> QED
  BY <1>1, <1>8, <1>10, ClientSteps

\* The first call of a redemption.
LEMMA RedeemBurns ==
  ASSUME TxInv, BurnStep, NEW p \in Pools, NEW a \in AccountLists,
         NEW amount \in Amounts, NEW pl, Unpacks(p, pl), RedeemPacked(p, pl, a, amount)
  PROVE  TxInv' /\ UNCHANGED Client!vars
<1> DEFINE n == Client!Requested(a, amount)
<1>1. running /\ Head(rest).step = "burn" /\ Seen = saved
  BY SeenOf DEF BurnStep, Now
<1>2. /\ rest = << BurnCall(a.mint, a.source, a.signer, n),
                   TransferCall(a.supply, a.destination, a.authority, n) >>
      /\ balance = saved.balance /\ minted = saved.minted
  BY <1>1, ShortSequences DEF RedeemPacked, TransferCall
<1> DEFINE last == TransferCall(a.supply, a.destination, a.authority, n)
<1>3. Head(rest) = BurnCall(a.mint, a.source, a.signer, n) /\ Tail(rest) = <<last>>
  BY <1>2, ShortSequences
<1>4. /\ CanBurn(a.mint, a.source, a.signer, n)
      /\ balance' = Debited(balance, a.source, n)
      /\ minted' = [minted EXCEPT ![a.mint] = @ - n]
      /\ UNCHANGED <<slot, oracle, manager, pool>>
      /\ rest' = <<last>> /\ rest' # << >> /\ saved' = saved
  <2> HIDE DEF last, n
  <2>1. /\ CanBurn(a.mint, a.source, a.signer, n)
        /\ balance' = Debited(balance, a.source, n)
        /\ minted' = [minted EXCEPT ![a.mint] = @ - n]
        /\ UNCHANGED <<slot, oracle, manager, pool>>
        /\ rest' = << >> \o Tail(rest)
        /\ saved' = IF rest' = << >> THEN << >> ELSE saved
    <3> DEFINE c == Head(rest)
    <3>1. c.mint = a.mint /\ c.from = a.source /\ c.authority = a.signer /\ c.amount = n
      BY <1>3 DEF BurnCall
    <3>2. /\ CanBurn(c.mint, c.from, c.authority, c.amount)
          /\ balance' = Debited(balance, c.from, c.amount)
          /\ minted' = [minted EXCEPT ![c.mint] = @ - c.amount]
          /\ UNCHANGED <<slot, oracle, manager, pool>>
          /\ rest' = << >> \o Tail(rest)
          /\ saved' = IF rest' = << >> THEN << >> ELSE saved
      BY DEF BurnStep, Continue
    <3> HIDE DEF c
    <3> QED
      BY <3>1, <3>2
  <2> QED
    BY <1>3, <2>1, ShortSequences
<1>5. Sound(saved) /\ Sound(Accounts) /\ slot \in Nat
  BY <1>1 DEF TxInv
<1>6. n \in 0..MaxU64
  BY <1>1, <1>5, AccountListTyped, ProcessorAssumption DEF Client!Requested, Sound
<1>7. UNCHANGED Client!vars /\ UNCHANGED Seen
  BY <1>1, <1>4, InsideUnseen DEF running, Seen
<1>8. slot' \in Nat /\ Sound(Accounts)' /\ Sound(saved)'
  <2> HIDE DEF n
  <2>1. balance \in [TokenAccounts -> 0..MaxU64] /\ minted \in [Mints -> 0..MaxU64]
    BY <1>5 DEF Sound, Accounts
  <2>2. balance[a.source] - n \in 0..MaxU64 /\ minted[a.mint] - n \in 0..MaxU64
    BY <1>4, <1>6, <2>1, AccountListTyped, Widths DEF CanBurn
  <2>3. balance' \in [TokenAccounts -> 0..MaxU64] /\ minted' \in [Mints -> 0..MaxU64]
    BY <1>4, <2>1, <2>2, AccountListTyped DEF Debited
  <2>4. Sound(Accounts)'
    BY <1>4, <1>5, <2>3, SoundTokens
  <2> QED
    BY <1>4, <1>5, <2>4 DEF Sound
<1>9. (Client!Requested(a, amount))' = n /\ Unpacks(p, pl)'
  BY <1>4, <1>7 DEF Unpacks, Client!Requested, Client!CanRefresh, Client!Refreshed, Client!Priced
<1>10. Client!CanBurn(a.mint, a.source, a.signer, n)'
  <2>1. Seen.balance = balance /\ Seen.minted = minted
    BY <1>1, <1>2
  <2>2. \A x : x = n => Client!CanBurn(a.mint, a.source, a.signer, x)'
    <3> HIDE DEF n
    <3> QED
      BY <1>4, <1>7, <2>1 DEF CanBurn, Client!CanBurn
  <2> QED
    BY <1>9, <2>2
<1>11. RedeemPacked(p, pl, a, amount)'
  BY <1>2, <1>4, <1>9, <1>10 DEF RedeemPacked, Accepts, ManagerInitialized
<1> QED
  BY <1>7, <1>8, <1>9, <1>11 DEF TxInv, Calling

\* The first call of a deposit.
LEMMA DepositTransfers ==
  ASSUME TxInv, TransferStep, NEW p \in Pools, NEW a \in AccountLists,
         NEW amount \in Amounts, NEW pl, Unpacks(p, pl), DepositPacked(p, pl, a, amount)
  PROVE  TxInv' /\ UNCHANGED Client!vars
<1> DEFINE n == Client!Requested(a, amount)
<1>1. running /\ Head(rest).step = "transfer" /\ Seen = saved
  BY SeenOf DEF TransferStep, Now
<1>2. /\ rest = << TransferCall(a.source, a.supply, a.signer, n),
                   MintCall(a.mint, a.destination, a.authority, n) >>
      /\ balance = saved.balance /\ minted = saved.minted
  BY <1>1, ShortSequences DEF DepositPacked, MintCall
<1> DEFINE last == MintCall(a.mint, a.destination, a.authority, n)
<1>3. Head(rest) = TransferCall(a.source, a.supply, a.signer, n) /\ Tail(rest) = <<last>>
  BY <1>2, ShortSequences
<1>4. /\ CanTransfer(a.source, a.supply, a.signer, n)
      /\ balance' = Transferred(balance, a.source, a.supply, n)
      /\ UNCHANGED <<slot, oracle, manager, pool, minted>>
      /\ rest' = <<last>> /\ rest' # << >> /\ saved' = saved
  <2> HIDE DEF last
  <2> QED
    BY <1>3, ShortSequences DEF TransferStep, TransferCall, Continue
<1>5. Sound(saved) /\ Sound(Accounts) /\ slot \in Nat
  BY <1>1 DEF TxInv
<1>6. n \in 0..MaxU64
  BY <1>1, <1>5, AccountListTyped, ProcessorAssumption DEF Client!Requested, Sound
<1>7. UNCHANGED Client!vars /\ UNCHANGED Seen
  BY <1>1, <1>4, InsideUnseen DEF running, Seen
<1>8. slot' \in Nat /\ Sound(Accounts)' /\ Sound(saved)'
  <2> HIDE DEF n
  <2>1. balance \in [TokenAccounts -> 0..MaxU64] /\ minted \in [Mints -> 0..MaxU64]
    BY <1>5 DEF Sound, Accounts
  <2>2. /\ n <= balance[a.source]
        /\ a.source # a.supply => balance[a.supply] + n <= MaxU64
    BY <1>4, ProcessorAssumption DEF CanTransfer
  <2>3. balance' \in [TokenAccounts -> 0..MaxU64]
    BY <1>4, <1>6, <2>1, <2>2, AccountListTyped, TransferTyped
  <2>4. Sound(Accounts)'
    BY <1>4, <1>5, <2>1, <2>3, SoundTokens
  <2> QED
    BY <1>4, <1>5, <2>4 DEF Sound
<1>9. (Client!Requested(a, amount))' = n /\ Unpacks(p, pl)'
  BY <1>4, <1>7 DEF Unpacks, Client!Requested, Client!CanRefresh, Client!Refreshed, Client!Priced
<1>10. Client!CanTransfer(a.source, a.supply, a.signer, n)'
  <2>1. Seen.balance = balance
    BY <1>1, <1>2
  <2>2. \A x : x = n => Client!CanTransfer(a.source, a.supply, a.signer, x)'
    <3> HIDE DEF n
    <3> QED
      BY <1>4, <1>7, <2>1 DEF CanTransfer, Client!CanTransfer
  <2> QED
    BY <1>9, <2>2
<1>11. DepositPacked(p, pl, a, amount)'
  BY <1>2, <1>4, <1>9, <1>10 DEF DepositPacked, Accepts, ManagerInitialized
<1> QED
  BY <1>7, <1>8, <1>9, <1>11 DEF TxInv, Calling

\* The last call of a deposit.
LEMMA DepositEnds ==
  ASSUME TxInv, MintStep, NEW p \in Pools, NEW a \in AccountLists,
         NEW amount \in Amounts, NEW pl, Unpacks(p, pl), DepositPacked(p, pl, a, amount)
  PROVE  TxInv' /\ Client!ClientNext
<1> DEFINE n == Client!Requested(a, amount)
<1>1. running /\ Head(rest).step = "mint" /\ Seen = saved
  BY SeenOf DEF MintStep, Now
<1>2. /\ rest = << MintCall(a.mint, a.destination, a.authority, n) >>
      /\ Client!CanTransfer(a.source, a.supply, a.signer, n)
      /\ balance = Transferred(saved.balance, a.source, a.supply, n)
      /\ minted = saved.minted
  BY <1>1, ShortSequences DEF DepositPacked, TransferCall
<1>3. /\ CanMintTo(a.mint, a.destination, a.authority, n)
      /\ balance' = Credited(balance, a.destination, n)
      /\ minted' = [minted EXCEPT ![a.mint] = @ + n]
      /\ UNCHANGED <<slot, oracle, manager, pool>>
      /\ rest' = << >>
  BY <1>2, ShortSequences DEF MintStep, MintCall, Continue
<1>4. Sound(saved) /\ Sound(Accounts) /\ slot \in Nat
  BY <1>1 DEF TxInv
<1>5. AtPar(pl)
  BY <1>1, <1>4, UnpacksAtPar
<1>6. n \in 0..MaxU64
  BY <1>1, <1>4, AccountListTyped, ProcessorAssumption DEF Client!Requested, Sound
<1>7. CollateralFor(pl, n) = n /\ a.supply = Supply(p) /\ a.mint = CollateralMint(p)
  <2>1. CanDeposit(pl, n) /\ Accepts(p, pl, a)
    BY DEF DepositPacked
  <2> HIDE DEF n
  <2> QED
    BY <1>5, <1>6, <2>1, DepositAtPar DEF Accepts
<1>8. TxInv'
  <2> HIDE DEF n
  <2>1. balance \in [TokenAccounts -> 0..MaxU64] /\ minted \in [Mints -> 0..MaxU64]
    BY <1>4 DEF Sound, Accounts
  <2>2. balance[a.destination] + n \in 0..MaxU64 /\ minted[a.mint] + n \in 0..MaxU64
    BY <1>3, <1>6, <2>1, AccountListTyped, ProcessorAssumption, Widths DEF CanMintTo
  <2>3. balance' \in [TokenAccounts -> 0..MaxU64] /\ minted' \in [Mints -> 0..MaxU64]
    BY <1>3, <2>1, <2>2, AccountListTyped DEF Credited
  <2>4. Sound(Accounts)'
    BY <1>3, <1>4, <2>3, SoundTokens
  <2> QED
    BY <1>3, <1>4, <2>4 DEF TxInv, running
<1>9. Client!CanMintTo(a.mint, a.destination, a.authority, n)
  <2> HIDE DEF n
  <2>1. a.destination # a.source /\ a.destination # a.supply
    BY <1>2, <1>3, <1>7, DifferentMints DEF Client!CanTransfer, CanMintTo
  <2>2. saved.balance \in [TokenAccounts -> 0..MaxU64]
    BY <1>4 DEF Sound
  <2>3. balance[a.destination] = saved.balance[a.destination]
    BY <1>2, <2>1, <2>2, AccountListTyped DEF Transferred, Credited, Debited
  <2> QED
    BY <1>1, <1>2, <1>3, <2>3 DEF CanMintTo, Client!CanMintTo
<1>10. Client!DepositFrom(p, pl, a, amount)
  <2> HIDE DEF n
  <2>1. Seen' = Accounts' /\ Accounts' = [pool |-> pool, balance |-> balance', minted |-> minted']
    BY <1>3 DEF Seen, running, Accounts
  <2>2. (Seen.pool)' = pool /\ (Seen.balance)' = balance' /\ (Seen.minted)' = minted'
    BY <2>1
  <2>3. Client!Accepts(p, pl, a) /\ Client!Supply(p) = Supply(p)
    BY SameMarks
       DEF DepositPacked, Accepts, Client!Accepts, Client!ManagerInitialized, ManagerInitialized,
           Client!Supply, Supply, Client!CollateralMint, CollateralMint
  <2>4. balance' = Client!Credited(Client!Transferred(saved.balance, a.source, a.supply, n),
                                   a.destination, n)
    BY <1>2, <1>3 DEF Client!Transferred, Client!Debited, Client!Credited,
                      Transferred, Debited, Credited
  <2>5. pool = [saved.pool EXCEPT ![p] = Client!MarkStale(Client!DepositLiquidity(pl, n))]
        /\ Client!CanPack(Client!MarkStale(Client!DepositLiquidity(pl, n)))
        /\ Client!CanDeposit(pl, n) /\ Client!CollateralFor(pl, n) = n
    BY <1>7, SameMarks, SamePools DEF DepositPacked, n
  <2> QED
    BY <1>1, <1>2, <1>3, <1>9, <2>2, <2>3, <2>4, <2>5 DEF Client!DepositFrom, DepositPacked, n
<1> QED
  BY <1>1, <1>8, <1>10, ClientSteps

\* Between two transactions the accounts are seen as they are.
LEMMA OthersSeen ==
  ASSUME Others
  PROVE  /\ Seen.pool = pool /\ Seen.balance = balance /\ Seen.minted = minted
         /\ (Seen.pool)' = pool' /\ (Seen.balance)' = balance' /\ (Seen.minted)' = minted'
<1>1. ~running /\ ~running'
  BY DEF Others, running
<1>2. Seen = Accounts /\ Seen' = Accounts'
  BY <1>1 DEF Seen
<1> QED
  BY <1>2 DEF Accounts

\* What the others do is seen at once.
LEMMA OthersKeep ==
  ASSUME TxInv, Others
  PROVE  TxInv' /\ Client!ClientNext
<1>1. ~running' /\ slot \in Nat /\ Sound(Accounts)
  BY DEF Others, running, TxInv
<1>2. /\ balance \in [TokenAccounts -> 0..MaxU64] /\ minted \in [Mints -> 0..MaxU64]
      /\ pool \in [Pools -> PoolRecord] /\ \A p \in Pools : AtPar(pool[p])
  BY <1>1 DEF Sound, Accounts
<1>3. /\ Seen.pool = pool /\ Seen.balance = balance /\ Seen.minted = minted
      /\ (Seen.pool)' = pool' /\ (Seen.balance)' = balance' /\ (Seen.minted)' = minted'
  BY OthersSeen
<1>4. CASE Tick
  <2>1. Client!Tick
    BY <1>3, <1>4 DEF Client!Tick, Tick
  <2>2. slot' \in Nat /\ Sound(Accounts)'
    BY <1>1, <1>4 DEF Tick, Sound, Accounts
  <2> QED
    BY <1>1, <2>1, <2>2 DEF TxInv, Client!ClientNext, Client!Next
<1>5. ASSUME NEW p \in Pools, NEW feed \in Feeds, OraclePublish(p, feed)
      PROVE  TxInv' /\ Client!ClientNext
  <2>1. Client!OraclePublish(p, feed)
    BY <1>3, <1>5 DEF Client!OraclePublish, OraclePublish
  <2>2. slot' \in Nat /\ Sound(Accounts)'
    BY <1>1, <1>5 DEF OraclePublish, Sound, Accounts
  <2> QED
    BY <1>1, <2>1, <2>2 DEF TxInv, Client!ClientNext, Client!Next
<1>6. ASSUME NEW u \in Users, NEW s \in TokenAccounts, NEW d \in TokenAccounts,
             NEW n \in Amounts, Transfer(u, s, d, n)
      PROVE  TxInv' /\ Client!ClientNext
  <2>1. Client!Transfer(u, s, d, n)
    BY <1>3, <1>6
       DEF Client!Transfer, Transfer, Client!UserTransfer, UserTransfer,
           Client!CanTransfer, CanTransfer, Client!Transferred, Transferred,
           Client!Credited, Credited, Client!Debited, Debited
  <2>2. n \in 0..MaxU64 /\ n <= balance[s] /\ (s # d => balance[d] + n <= MaxU64)
    BY <1>6, ProcessorAssumption DEF Transfer, UserTransfer, CanTransfer
  <2>3. balance' \in [TokenAccounts -> 0..MaxU64] /\ UNCHANGED <<slot, pool, minted>>
    BY <1>2, <1>6, <2>2, TransferTyped DEF Transfer, UserTransfer
  <2>4. slot' \in Nat /\ Sound(Accounts)'
    BY <1>1, <1>2, <2>3, SoundTokens
  <2> QED
    BY <1>1, <2>1, <2>4 DEF TxInv, Client!ClientNext, Client!Next
<1>7. ASSUME NEW u \in Users, NEW s \in TokenAccounts, NEW n \in Amounts, Burn(u, s, n)
      PROVE  TxInv' /\ Client!ClientNext
  <2>1. Client!Burn(u, s, n)
    BY <1>3, <1>7
       DEF Client!Burn, Burn, Client!UserBurn, UserBurn, Client!CanBurn, CanBurn,
           Client!Debited, Debited
  <2>2. n \in 0..MaxU64 /\ n <= balance[s] /\ n <= minted[MintOf[s]] /\ MintOf[s] \in Mints
    BY <1>7, ProcessorAssumption, TokenAssumption DEF Burn, UserBurn, CanBurn
  <2>3. balance[s] - n \in 0..MaxU64 /\ minted[MintOf[s]] - n \in 0..MaxU64
    BY <1>2, <2>2, Widths
  <2>4. /\ balance' \in [TokenAccounts -> 0..MaxU64] /\ minted' \in [Mints -> 0..MaxU64]
        /\ UNCHANGED <<slot, pool>>
    BY <1>2, <1>7, <2>2, <2>3 DEF Burn, UserBurn, Debited
  <2>5. slot' \in Nat /\ Sound(Accounts)'
    BY <1>1, <2>4, SoundTokens
  <2> QED
    BY <1>1, <2>1, <2>5 DEF TxInv, Client!ClientNext, Client!Next
<1>8. ASSUME NEW m \in Managers, NEW s \in Users, NEW o \in ManagerOwners,
             NEW c \in Currencies, InitManager(m, s, o, c)
      PROVE  TxInv' /\ Client!ClientNext
  <2>1. Client!InitManager(m, s, o, c)
    BY <1>3, <1>8
       DEF Client!InitManager, InitManager, Client!InitPoolingManager, InitPoolingManager,
           Client!ManagerInitialized, ManagerInitialized
  <2>2. slot' \in Nat /\ Sound(Accounts)'
    BY <1>1, <1>8 DEF InitManager, Sound, Accounts
  <2> QED
    BY <1>1, <2>1, <2>2 DEF TxInv, Client!ClientNext, Client!Next
<1>9. ASSUME NEW p \in Pools, NEW s \in Users, NEW v \in Speeds, InitPool(p, s, v)
      PROVE  TxInv' /\ Client!ClientNext
  <2>1. Client!GetPythPrice(oracle[p]) = GetPythPrice(oracle[p])
    BY SameArithmetic DEF Client!GetPythPrice, GetPythPrice, Client!PowerOfTen, PowerOfTen
  <2> DEFINE new == NewPool(slot, GetPythPrice(oracle[p]), v, FALSE)
  <2>2. Client!NewPool(slot, GetPythPrice(oracle[p]), v, FALSE) = new
    BY SameArithmetic DEF Client!NewPool, NewPool
  <2>3. Client!InitPool(p, s, v)
    BY <1>3, <1>9, <2>1, <2>2, SameArithmetic, SameMarks
       DEF Client!InitPool, InitPool, Client!ManagerInitialized, ManagerInitialized
  <2>4. CanPack(new) /\ pool' = [pool EXCEPT ![p] = new] /\ UNCHANGED <<slot, balance, minted>>
    BY <1>9 DEF InitPool
  <2>5. AtPar(new)
    BY <1>1, <2>4, NewPoolAtPar, ProcessorAssumption
  <2> HIDE DEF new
  <2>6. slot' \in Nat /\ Sound(Accounts)'
    BY <1>1, <2>4, <2>5, SoundPool
  <2> QED
    BY <1>1, <2>3, <2>6 DEF TxInv, Client!ClientNext, Client!Next
<1> QED
  BY <1>4, <1>5, <1>6, <1>7, <1>8, <1>9 DEF Others

\* A transaction that fails leaves the accounts that were saved.
LEMMA AbortKeeps ==
  ASSUME TxInv, Abort
  PROVE  TxInv'
  BY DEF TxInv, Abort, running, Sound, Accounts

\* One that begins saves them.
LEMMA BeginKeeps ==
  ASSUME TxInv, NEW tx \in TransactionsSent, Begin(tx)
  PROVE  TxInv' /\ UNCHANGED Client!vars
<1>1. tx # << >>
  BY SentKinds, ShortSequences
<1>2. running' /\ ~running /\ saved' = Accounts /\ Accounts' = Accounts /\ rest' = tx
      /\ UNCHANGED <<slot, oracle, manager>>
  BY <1>1 DEF Begin, running, vars, Accounts
<1>3. Seen' = Seen
  BY <1>2 DEF Seen
<1>4. TxInv'
  BY <1>2 DEF TxInv, Sound, Started
<1> QED
  BY <1>2, <1>3, <1>4 DEF Client!vars

-----------------------------------------------------------------------------
(***************************************************************************)
(* The invariant holds, and the steps implement SavingClient               *)
(***************************************************************************)
LEMMA TxInitEstablishes == TxInit => TxInv /\ Client!Init
<1> SUFFICES ASSUME TxInit PROVE TxInv /\ Client!Init
  OBVIOUS
<1>1. IInv /\ ~running
  BY InitEstablishesIInv DEF TxInit, running
<1>2. TxInv
  BY <1>1, ProcessorAssumption
     DEF IInv, TypeOK, TokenTypeOK, PoolsAtPar, TxInv, Sound, Accounts
<1>3. Seen.pool = pool /\ Seen.balance = balance /\ Seen.minted = minted
  BY <1>1 DEF Seen, Accounts
<1>4. Client!UninitializedPool = UninitializedPool /\ Client!ManagerInit = ManagerInit
  BY DEF Client!UninitializedPool, UninitializedPool, Client!ManagerInit, ManagerInit,
         Client!UninitializedManager, UninitializedManager
<1> QED
  BY <1>2, <1>3, <1>4 DEF TxInit, Init, Client!Init

\* Every step keeps the invariant and is a step of SavingClient or a stutter.
LEMMA TxNextKeeps ==
  TxInv /\ [TxNext]_allVars => TxInv' /\ [Client!ClientNext]_(Client!vars)
<1> SUFFICES ASSUME TxInv, [TxNext]_allVars
             PROVE  TxInv' /\ [Client!ClientNext]_(Client!vars)
  OBVIOUS
<1>1. ASSUME Now("transfer") \/ Now("mint") \/ Now("burn")
      PROVE  \E p \in Pools, a \in AccountLists, amount \in Amounts : \E pl :
               /\ Unpacks(p, pl)
               /\ DepositPacked(p, pl, a, amount) \/ RedeemPacked(p, pl, a, amount)
  BY <1>1, CallsPending DEF Now, Calling
<1>2. CASE TransferStep
  BY <1>1, <1>2, DepositTransfers, RedeemEnds DEF TransferStep
<1>3. CASE MintStep
  <2>1. ASSUME NEW p, NEW pl, NEW a, NEW amount, RedeemPacked(p, pl, a, amount)
        PROVE  FALSE
    <3>1. \E x, y : /\ rest = <<x, y>> \/ rest = <<x>>
                    /\ x.step # "mint"
      BY <2>1 DEF RedeemPacked, BurnCall, TransferCall
    <3> QED
      BY <1>3, <3>1, ShortSequences DEF MintStep, Now
  <2> QED
    BY <1>1, <1>3, <2>1, DepositEnds DEF MintStep
<1>4. CASE BurnStep
  <2>1. ASSUME NEW p, NEW pl, NEW a, NEW amount, DepositPacked(p, pl, a, amount)
        PROVE  FALSE
    <3>1. \E x, y : /\ rest = <<x, y>> \/ rest = <<x>>
                    /\ x.step # "burn"
      BY <2>1 DEF DepositPacked, MintCall, TransferCall
    <3> QED
      BY <1>4, <3>1, ShortSequences DEF BurnStep, Now
  <2> QED
    BY <1>1, <1>4, <2>1, RedeemBurns DEF BurnStep
<1>5. CASE UNCHANGED allVars
  <2>1. Seen' = Seen /\ Client!vars' = Client!vars
    BY <1>5 DEF allVars, vars, Seen, Accounts, running, Client!vars
  <2>2. UNCHANGED <<slot, oracle, pool, manager, balance, minted, rest, saved>>
    BY <1>5 DEF allVars, vars
  <2>3. Sound(Accounts)' = Sound(Accounts) /\ Sound(saved)' = Sound(saved)
        /\ running' = running
    BY <2>2 DEF Sound, Accounts, running
  <2>4. Started' = Started
    BY <2>2 DEF Started, Accounts
  <2>5. \A p : /\ (Client!CanRefresh(p))' = Client!CanRefresh(p)
               /\ (Client!Refreshed(p))' = Client!Refreshed(p)
    BY <2>1, <2>2 DEF Client!CanRefresh, Client!Refreshed, Client!Priced
  <2>6. RefreshDone' = RefreshDone
    BY <2>2, <2>5 DEF RefreshDone
  <2>7. Calling => Calling'
    <3> SUFFICES ASSUME NEW p \in Pools, NEW a \in AccountLists, NEW amount \in Amounts,
                        NEW pl, Unpacks(p, pl)
                 PROVE  /\ Unpacks(p, pl)'
                        /\ DepositPacked(p, pl, a, amount) => DepositPacked(p, pl, a, amount)'
                        /\ RedeemPacked(p, pl, a, amount) => RedeemPacked(p, pl, a, amount)'
      BY DEF Calling
    <3>1. Unpacks(p, pl)'
      BY <2>2, <2>5 DEF Unpacks
    <3>2. (Client!Requested(a, amount))' = Client!Requested(a, amount)
      BY <2>1 DEF Client!Requested
    <3>3. Accepts(p, pl, a)' = Accepts(p, pl, a)
      BY <2>2 DEF Accepts, ManagerInitialized
    <3>4. \A s, d, h, n : (Client!CanTransfer(s, d, h, n))' = Client!CanTransfer(s, d, h, n)
      BY <2>1 DEF Client!CanTransfer
    <3>5. \A m, d, h, n : (Client!CanBurn(m, d, h, n))' = Client!CanBurn(m, d, h, n)
      BY <2>1 DEF Client!CanBurn
    <3> QED
      BY <2>2, <3>1, <3>2, <3>3, <3>4, <3>5 DEF DepositPacked, RedeemPacked
  <2>8. TxInv'
    BY <2>2, <2>3, <2>4, <2>6, <2>7 DEF TxInv
  <2> QED
    BY <2>1, <2>8
<1> QED
  BY <1>2, <1>3, <1>4, <1>5, RefreshStepKeeps, DepositStepKeeps, RedeemStepKeeps,
     AbortKeeps, AbortUnseen, OthersKeep, BeginKeeps DEF TxNext

LEMMA TxInvariantHolds == TxSpec => []TxInv
<1>1. TxInit => TxInv
  BY TxInitEstablishes
<1>2. TxInv /\ [TxNext]_allVars => TxInv'
  BY TxNextKeeps
<1> QED
  BY <1>1, <1>2, PTL DEF TxSpec

(***************************************************************************)
(* Seen from outside, the handlers with their calls to the token program   *)
(* one by one, and with transactions that fail at any of them, do nothing  *)
(* but what SavingClient does with each transaction in one step.           *)
(***************************************************************************)
THEOREM TransactionsImplementClient == TxSpec => ImplementsClient
<1>1. TxInit => Client!Init
  BY TxInitEstablishes
<1>2. TxInv /\ [TxNext]_allVars => [Client!ClientNext]_(Client!vars)
  BY TxNextKeeps
<1> QED
  BY <1>1, <1>2, TxInvariantHolds, PTL DEF TxSpec, ImplementsClient, Client!ClientSafety

-----------------------------------------------------------------------------
(***************************************************************************)
(* In the middle of a transaction                                          *)
(***************************************************************************)

\* What is packed before the calls has the amounts.
LEMMA PackedAmounts ==
  ASSUME TxInv, running, NEW p \in Pools, NEW a \in AccountLists, NEW amount \in Amounts,
         NEW pl, Unpacks(p, pl),
         DepositPacked(p, pl, a, amount) \/ RedeemPacked(p, pl, a, amount)
  PROVE  LET n == Client!Requested(a, amount)
             d == IF DepositPacked(p, pl, a, amount) THEN n ELSE 0 - n
         IN  /\ n \in 0..MaxU64
             /\ pool[p].available_amount = saved.pool[p].available_amount + d
             /\ pool[p].mint_total_supply = saved.pool[p].mint_total_supply + d
             /\ \A q \in Pools : q # p => pool[q] = saved.pool[q]
<1> DEFINE n == Client!Requested(a, amount)
<1>1. Sound(saved) /\ slot \in Nat /\ Seen = saved
  BY SeenOf DEF TxInv
<1>2. n \in 0..MaxU64
  BY <1>1, AccountListTyped, ProcessorAssumption DEF Client!Requested, Sound
<1>3. AtPar(pl) /\ AtPar(saved.pool[p]) /\ pl.available_amount = saved.pool[p].available_amount
  BY <1>1, UnpacksAtPar DEF Sound
<1>4. pl.mint_total_supply = saved.pool[p].mint_total_supply
  BY <1>3 DEF AtPar
<1>5. saved.pool \in [Pools -> PoolRecord]
  BY <1>1 DEF Sound
<1>6. CASE DepositPacked(p, pl, a, amount)
  <2> DEFINE new == MarkStale(DepositLiquidity(pl, n))
  <2>1. CanDeposit(pl, n) /\ pool = [saved.pool EXCEPT ![p] = new]
    BY <1>6 DEF DepositPacked
  <2> HIDE DEF n
  <2>2. /\ new.available_amount = pl.available_amount + n
        /\ new.mint_total_supply = pl.mint_total_supply + n
        /\ DepositLiquidity(pl, n) =
              [pl EXCEPT !.available_amount = @ + n, !.mint_total_supply = @ + n]
    BY <1>2, <1>3, <2>1, DepositAtPar
  <2> HIDE DEF new
  <2> QED
    BY <1>2, <1>3, <1>4, <1>5, <1>6, <2>1, <2>2 DEF n
<1>7. CASE RedeemPacked(p, pl, a, amount) /\ ~DepositPacked(p, pl, a, amount)
  <2> DEFINE new == MarkStale(RedeemCollateral(pl, n))
  <2>1. CanRedeem(pl, n) /\ pool = [saved.pool EXCEPT ![p] = new]
    BY <1>7 DEF RedeemPacked
  <2> HIDE DEF n
  <2>2. /\ new.available_amount = pl.available_amount - n
        /\ new.mint_total_supply = pl.mint_total_supply - n
        /\ RedeemCollateral(pl, n) =
              [pl EXCEPT !.mint_total_supply = @ - n, !.available_amount = @ - n]
    BY <1>2, <1>3, <2>1, RedeemAtPar
  <2> HIDE DEF new
  <2>4. pl.available_amount \in Nat /\ pl.mint_total_supply \in Nat
    BY <1>3 DEF AtPar, PoolRecord
  <2>5. pool[p] = new /\ \A q \in Pools : q # p => pool[q] = saved.pool[q]
    BY <1>5, <2>1
  <2>6. \A x, y \in Nat : x - y = x + (0 - y)
    OBVIOUS
  <2>7. /\ new.available_amount = saved.pool[p].available_amount + (0 - n)
        /\ new.mint_total_supply = saved.pool[p].mint_total_supply + (0 - n)
    BY <1>2, <1>3, <1>4, <2>2, <2>4, <2>6
  <2> QED
    BY <1>2, <1>7, <2>5, <2>7 DEF n
<1> QED
  BY <1>6, <1>7

-----------------------------------------------------------------------------
\* The sums over the one or two calls that are left.
LEMMA SumOfOne ==
  ASSUME NEW x, NEW f, DOMAIN f = DOMAIN <<x>>, f[1] \in Int
  PROVE  SumFunction(f) = f[1]
<1>1. DOMAIN f = 1..(0 + 1) /\ (1..0 = {})
  OBVIOUS
<1>2. SumFunctionOnSet(f, 1..(0 + 1)) = SumFunctionOnSet(f, 1..0) + f[0 + 1]
  <2>1. 0 \in Nat /\ \A i \in 1..(0 + 1) : f[i] \in Int
    OBVIOUS
  <2> QED
    BY <2>1, SumLast
<1> QED
  BY <1>1, <1>2, SumEmpty DEF SumFunction

LEMMA SumOfTwo ==
  ASSUME NEW x, NEW y, NEW f, DOMAIN f = DOMAIN <<x, y>>, f[1] \in Int, f[2] \in Int
  PROVE  SumFunction(f) = f[1] + f[2]
<1>1. DOMAIN f = 1..2 /\ (1..0 = {}) /\ (1 + 1 = 2) /\ (0 + 1 = 1)
  OBVIOUS
<1>2. SumFunctionOnSet(f, 1..(0 + 1)) = SumFunctionOnSet(f, 1..0) + f[0 + 1]
  <2>1. 0 \in Nat /\ \A i \in 1..(0 + 1) : f[i] \in Int
    OBVIOUS
  <2> QED
    BY <2>1, SumLast
<1>3. SumFunctionOnSet(f, 1..(1 + 1)) = SumFunctionOnSet(f, 1..1) + f[1 + 1]
  <2>1. 1 \in Nat /\ \A i \in 1..(1 + 1) : f[i] \in Int
    OBVIOUS
  <2> QED
    BY <2>1, SumLast
<1> QED
  BY <1>1, <1>2, <1>3, SumEmpty DEF SumFunction

\* In the middle of a deposit.
LEMMA DepositBooks ==
  ASSUME TxInv, running, NEW p \in Pools, NEW a \in AccountLists, NEW amount \in Amounts,
         NEW pl, Unpacks(p, pl), DepositPacked(p, pl, a, amount)
  PROVE  BooksWithPending
<1> DEFINE n == Client!Requested(a, amount)
           in == TransferCall(a.source, a.supply, a.signer, n)
           mint == MintCall(a.mint, a.destination, a.authority, n)
           IsIn(c)   == c.step = "transfer" /\ c.to = Supply(p)
           IsOut(c)  == c.step = "transfer" /\ c.from = Supply(p)
           IsMint(c) == c.step = "mint" /\ c.mint = CollateralMint(p)
           IsBurn(c) == c.step = "burn" /\ c.mint = CollateralMint(p)
           f1 == [i \in DOMAIN rest |-> IF IsIn(rest[i]) THEN rest[i].amount ELSE 0]
           f2 == [i \in DOMAIN rest |-> IF IsOut(rest[i]) THEN rest[i].amount ELSE 0]
           f3 == [i \in DOMAIN rest |-> IF IsMint(rest[i]) THEN rest[i].amount ELSE 0]
           f4 == [i \in DOMAIN rest |-> IF IsBurn(rest[i]) THEN rest[i].amount ELSE 0]
<1>1. /\ n \in 0..MaxU64
      /\ pool[p].available_amount = saved.pool[p].available_amount + n
      /\ pool[p].mint_total_supply = saved.pool[p].mint_total_supply + n
      /\ \A q \in Pools : q # p => pool[q] = saved.pool[q]
  BY PackedAmounts
<1>2. /\ a.source # Supply(p) /\ a.supply = Supply(p) /\ a.mint = CollateralMint(p)
      /\ minted = saved.minted
  BY DEF DepositPacked, Accepts
<1>3. /\ saved.balance \in [TokenAccounts -> 0..MaxU64] /\ saved.minted \in [Mints -> 0..MaxU64]
      /\ saved.pool[p].available_amount \in Nat /\ saved.pool[p].mint_total_supply \in Nat
      /\ Supply(p) \in TokenAccounts /\ CollateralMint(p) \in Mints
  BY PoolKeysTyped DEF TxInv, Sound, AtPar, PoolRecord
<1> HIDE DEF n
<1>4. n \in Nat /\ n \in Int
  BY <1>1, Widths
<1>5. /\ balance[Supply(p)] = saved.balance[Supply(p)] + (n - SumFunction(f1))
      /\ SumFunction(f1) \in {0, n} /\ SumFunction(f2) = 0
      /\ SumFunction(f3) = n /\ SumFunction(f4) = 0
  <2>1. CASE rest = <<in, mint>> /\ balance = saved.balance
    <3>1. /\ DOMAIN f1 = DOMAIN <<in, mint>> /\ DOMAIN f2 = DOMAIN <<in, mint>>
          /\ DOMAIN f3 = DOMAIN <<in, mint>> /\ DOMAIN f4 = DOMAIN <<in, mint>>
      BY <2>1
    <3>2. rest[1] = in /\ rest[2] = mint /\ 1 \in DOMAIN rest /\ 2 \in DOMAIN rest
      BY <2>1
    <3>3. /\ f1[1] = n /\ f1[2] = 0 /\ f2[1] = 0 /\ f2[2] = 0
          /\ f3[1] = 0 /\ f3[2] = n /\ f4[1] = 0 /\ f4[2] = 0
      BY <1>2, <3>2 DEF TransferCall, MintCall
    <3> HIDE DEF f1, f2, f3, f4, in, mint
    <3>4. /\ SumFunction(f1) = n /\ SumFunction(f2) = 0
          /\ SumFunction(f3) = n /\ SumFunction(f4) = 0
      BY <1>4, <3>1, <3>3, SumOfTwo
    <3> QED
      BY <1>3, <1>4, <2>1, <3>4
  <2>2. CASE rest = <<mint>> /\ balance = Transferred(saved.balance, a.source, a.supply, n)
    <3>1. /\ DOMAIN f1 = DOMAIN <<mint>> /\ DOMAIN f2 = DOMAIN <<mint>>
          /\ DOMAIN f3 = DOMAIN <<mint>> /\ DOMAIN f4 = DOMAIN <<mint>>
      BY <2>2
    <3>2. rest[1] = mint /\ 1 \in DOMAIN rest
      BY <2>2
    <3>3. f1[1] = 0 /\ f2[1] = 0 /\ f3[1] = n /\ f4[1] = 0
      BY <1>2, <3>2 DEF MintCall
    <3> HIDE DEF f1, f2, f3, f4, in, mint
    <3>4. /\ SumFunction(f1) = 0 /\ SumFunction(f2) = 0
          /\ SumFunction(f3) = n /\ SumFunction(f4) = 0
      BY <1>4, <3>1, <3>3, SumOfOne
    <3>5. balance[Supply(p)] = saved.balance[Supply(p)] + n
      BY <1>2, <1>3, <2>2, AccountListTyped DEF Transferred, Credited, Debited
    <3> QED
      BY <1>3, <1>4, <3>4, <3>5
  <2> QED
    BY <2>1, <2>2 DEF DepositPacked, n
<1> HIDE DEF f1, f2, f3, f4
<1>6. /\ balance[Supply(p)] + SumFunction(f1) - SumFunction(f2) - pool[p].available_amount
           = saved.balance[Supply(p)] - saved.pool[p].available_amount
      /\ minted[CollateralMint(p)] + SumFunction(f3) - SumFunction(f4) - pool[p].mint_total_supply
           = saved.minted[CollateralMint(p)] - saved.pool[p].mint_total_supply
  <2>1. /\ saved.balance[Supply(p)] \in Int /\ saved.pool[p].available_amount \in Int
        /\ saved.minted[CollateralMint(p)] \in Int /\ saved.pool[p].mint_total_supply \in Int
    BY <1>3, Widths
  <2>2. \A k \in {0, n} : \A x, y \in Int : /\ (x + (n - k)) + k - 0 - (y + n) = x - y
                                          /\ x + n - 0 - (y + n) = x - y
    BY <1>4
  <2>3. minted[CollateralMint(p)] = saved.minted[CollateralMint(p)]
    BY <1>2
  <2> QED
    BY <2>1, <2>2, <2>3, <1>1, <1>5
<1> QED
  BY <1>1, <1>6 DEF BooksWithPending, Pending, f1, f2, f3, f4

\* In the middle of a redemption.
LEMMA RedeemBooks ==
  ASSUME TxInv, running, NEW p \in Pools, NEW a \in AccountLists, NEW amount \in Amounts,
         NEW pl, Unpacks(p, pl),
         RedeemPacked(p, pl, a, amount), ~DepositPacked(p, pl, a, amount)
  PROVE  BooksWithPending
<1> DEFINE n == Client!Requested(a, amount)
           burn == BurnCall(a.mint, a.source, a.signer, n)
           out == TransferCall(a.supply, a.destination, a.authority, n)
           IsIn(c)   == c.step = "transfer" /\ c.to = Supply(p)
           IsOut(c)  == c.step = "transfer" /\ c.from = Supply(p)
           IsMint(c) == c.step = "mint" /\ c.mint = CollateralMint(p)
           IsBurn(c) == c.step = "burn" /\ c.mint = CollateralMint(p)
           f1 == [i \in DOMAIN rest |-> IF IsIn(rest[i]) THEN rest[i].amount ELSE 0]
           f2 == [i \in DOMAIN rest |-> IF IsOut(rest[i]) THEN rest[i].amount ELSE 0]
           f3 == [i \in DOMAIN rest |-> IF IsMint(rest[i]) THEN rest[i].amount ELSE 0]
           f4 == [i \in DOMAIN rest |-> IF IsBurn(rest[i]) THEN rest[i].amount ELSE 0]
<1>1. /\ n \in 0..MaxU64
      /\ pool[p].available_amount = saved.pool[p].available_amount + (0 - n)
      /\ pool[p].mint_total_supply = saved.pool[p].mint_total_supply + (0 - n)
      /\ \A q \in Pools : q # p => pool[q] = saved.pool[q]
  BY PackedAmounts
<1>2. a.destination # Supply(p) /\ a.supply = Supply(p) /\ a.mint = CollateralMint(p)
  BY DEF RedeemPacked, Accepts
<1>3. /\ saved.balance \in [TokenAccounts -> 0..MaxU64] /\ saved.minted \in [Mints -> 0..MaxU64]
      /\ saved.pool[p].available_amount \in Nat /\ saved.pool[p].mint_total_supply \in Nat
      /\ Supply(p) \in TokenAccounts /\ CollateralMint(p) \in Mints
  BY PoolKeysTyped DEF TxInv, Sound, AtPar, PoolRecord
<1> HIDE DEF n
<1>4. n \in Nat /\ n \in Int
  BY <1>1, Widths
<1>5. /\ balance[Supply(p)] = saved.balance[Supply(p)]
      /\ SumFunction(f1) = 0 /\ SumFunction(f2) = n
      /\ SumFunction(f3) = 0 /\ SumFunction(f4) \in {0, n}
      /\ minted[CollateralMint(p)] = saved.minted[CollateralMint(p)] - n + SumFunction(f4)
  <2>1. CASE rest = <<burn, out>> /\ balance = saved.balance /\ minted = saved.minted
    <3>1. /\ DOMAIN f1 = DOMAIN <<burn, out>> /\ DOMAIN f2 = DOMAIN <<burn, out>>
          /\ DOMAIN f3 = DOMAIN <<burn, out>> /\ DOMAIN f4 = DOMAIN <<burn, out>>
      BY <2>1
    <3>2. rest[1] = burn /\ rest[2] = out /\ 1 \in DOMAIN rest /\ 2 \in DOMAIN rest
      BY <2>1
    <3>3. /\ f1[1] = 0 /\ f1[2] = 0 /\ f2[1] = 0 /\ f2[2] = n
          /\ f3[1] = 0 /\ f3[2] = 0 /\ f4[1] = n /\ f4[2] = 0
      BY <1>2, <3>2 DEF TransferCall, BurnCall
    <3> HIDE DEF f1, f2, f3, f4, burn, out
    <3>4. /\ SumFunction(f1) = 0 /\ SumFunction(f2) = n
          /\ SumFunction(f3) = 0 /\ SumFunction(f4) = n
      BY <1>4, <3>1, <3>3, SumOfTwo
    <3> QED
      BY <1>3, <1>4, <2>1, <3>4
  <2>2. CASE /\ rest = <<out>>
             /\ Client!CanBurn(a.mint, a.source, a.signer, n)
             /\ balance = Debited(saved.balance, a.source, n)
             /\ minted = [saved.minted EXCEPT ![a.mint] = @ - n]
    <3>1. /\ DOMAIN f1 = DOMAIN <<out>> /\ DOMAIN f2 = DOMAIN <<out>>
          /\ DOMAIN f3 = DOMAIN <<out>> /\ DOMAIN f4 = DOMAIN <<out>>
      BY <2>2
    <3>2. rest[1] = out /\ 1 \in DOMAIN rest
      BY <2>2
    <3>3. f1[1] = 0 /\ f2[1] = n /\ f3[1] = 0 /\ f4[1] = 0
      BY <1>2, <3>2 DEF TransferCall
    <3> HIDE DEF f1, f2, f3, f4, burn, out
    <3>4. /\ SumFunction(f1) = 0 /\ SumFunction(f2) = n
          /\ SumFunction(f3) = 0 /\ SumFunction(f4) = 0
      BY <1>4, <3>1, <3>3, SumOfOne
    <3>5. a.source # Supply(p)
      BY <1>2, <2>2, AccountListTyped, ClaimsAreNotSupplies DEF Client!CanBurn
    <3>6. balance[Supply(p)] = saved.balance[Supply(p)]
      BY <1>3, <2>2, <3>5, AccountListTyped DEF Debited
    <3>7. minted[CollateralMint(p)] = saved.minted[CollateralMint(p)] - n
      BY <1>2, <1>3, <2>2
    <3> QED
      BY <1>3, <1>4, <3>4, <3>6, <3>7
  <2> QED
    BY <2>1, <2>2 DEF RedeemPacked, n
<1> HIDE DEF f1, f2, f3, f4
<1>6. balance[Supply(p)] + SumFunction(f1) - SumFunction(f2) - pool[p].available_amount
           = saved.balance[Supply(p)] - saved.pool[p].available_amount
  <2>1. saved.balance[Supply(p)] \in Int /\ saved.pool[p].available_amount \in Int
    BY <1>3, Widths
  <2>2. \A x, y, k \in Int : x + 0 - k - (y + (0 - k)) = x - y
    OBVIOUS
  <2> QED
    BY <2>1, <2>2, <1>1, <1>4, <1>5
<1>7. minted[CollateralMint(p)] + SumFunction(f3) - SumFunction(f4) - pool[p].mint_total_supply
           = saved.minted[CollateralMint(p)] - saved.pool[p].mint_total_supply
  BY <1>1, <1>3, <1>4, <1>5, Widths
<1> QED
  BY <1>1, <1>6, <1>7 DEF BooksWithPending, Pending, f1, f2, f3, f4


\* Before the calls nothing is pending, and a refresh leaves the amounts.
LEMMA RefreshedBooks ==
  ASSUME TxInv, running, RefreshDone
  PROVE  BooksWithPending
<1>1. Sound(saved) /\ slot \in Nat
  BY DEF TxInv
<1>2. PICK i \in Instructions :
         /\ i.step # "refresh" /\ rest = <<i>>
         /\ Client!CanRefresh(i.pool)
         /\ pool = [saved.pool EXCEPT ![i.pool] = Client!Refreshed(i.pool)]
  BY DEF RefreshDone
<1>3. i.pool \in Pools /\ i.step \notin {"transfer", "mint", "burn"}
  BY InstructionKinds DEF Instructions, Refresh, DepositOf, RedeemOf
<1> DEFINE p == i.pool
           new == Client!Refreshed(i.pool)
<1>4. AtPar(new) /\ new.available_amount = saved.pool[p].available_amount
      /\ AtPar(saved.pool[p])
  BY <1>1, <1>2, <1>3, UnpacksAtPar DEF Unpacks, Sound
<1>5. new.mint_total_supply = saved.pool[p].mint_total_supply
  BY <1>4 DEF AtPar
<1> HIDE DEF new
<1>6. /\ pool[p].available_amount = saved.pool[p].available_amount
      /\ pool[p].mint_total_supply = saved.pool[p].mint_total_supply
      /\ \A q \in Pools : q # p => pool[q] = saved.pool[q]
  BY <1>1, <1>2, <1>3, <1>4, <1>5 DEF Sound, new
<1> DEFINE none == [k \in DOMAIN rest |-> 0]
           claim == CollateralMint(p)
<1>7. SumFunction(none) = 0
  <2>1. DOMAIN none = DOMAIN <<i>> /\ none[1] = 0
    BY <1>2
  <2> HIDE DEF none
  <2> QED
    BY <2>1, SumOfOne
<1>8. \A k \in DOMAIN rest : rest[k] = i
  BY <1>2
<1>9. /\ Supply(p) \in TokenAccounts /\ claim \in Mints
      /\ saved.balance[Supply(p)] \in Int /\ saved.minted[claim] \in Int
      /\ saved.pool[p].available_amount \in Int /\ saved.pool[p].mint_total_supply \in Int
      /\ balance = saved.balance /\ minted = saved.minted
  BY <1>1, <1>3, <1>4, PoolKeysTyped, Widths DEF Sound, AtPar, PoolRecord, RefreshDone
<1> DEFINE IsIn(c)   == c.step = "transfer" /\ c.to = Supply(p)
           IsOut(c)  == c.step = "transfer" /\ c.from = Supply(p)
           IsMint(c) == c.step = "mint" /\ c.mint = claim
           IsBurn(c) == c.step = "burn" /\ c.mint = claim
<1>10. /\ [k \in DOMAIN rest |-> IF IsIn(rest[k]) THEN rest[k].amount ELSE 0] = none
       /\ [k \in DOMAIN rest |-> IF IsOut(rest[k]) THEN rest[k].amount ELSE 0] = none
       /\ [k \in DOMAIN rest |-> IF IsMint(rest[k]) THEN rest[k].amount ELSE 0] = none
       /\ [k \in DOMAIN rest |-> IF IsBurn(rest[k]) THEN rest[k].amount ELSE 0] = none
  BY <1>3, <1>8
<1> HIDE DEF none
<1>11. /\ balance[Supply(p)] + SumFunction(none) - SumFunction(none)
             - pool[p].available_amount
           = saved.balance[Supply(p)] - saved.pool[p].available_amount
       /\ minted[claim] + SumFunction(none) - SumFunction(none) - pool[p].mint_total_supply
           = saved.minted[claim] - saved.pool[p].mint_total_supply
  BY <1>6, <1>7, <1>9
<1> QED
  BY <1>6, <1>10, <1>11 DEF BooksWithPending, Pending

(***************************************************************************)
(* The calls to the token program are for the amounts the pool was packed  *)
(* with: in the middle of a transaction the books are out by exactly what  *)
(* is pending.                                                             *)
(***************************************************************************)
THEOREM BooksAgreeWithPending == TxSpec => []BooksWithPending
<1>1. TxInv => BooksWithPending
  <2> SUFFICES ASSUME TxInv, running PROVE BooksWithPending
    BY DEF BooksWithPending
  <2>1. CASE Started
    BY <2>1 DEF Started, Accounts, BooksWithPending
  <2>2. CASE Calling
    BY <2>2, DepositBooks, RedeemBooks DEF Calling
  <2> QED
    BY <2>1, <2>2, RefreshedBooks DEF TxInv
<1> QED
  BY <1>1, TxInvariantHolds, PTL

=============================================================================
