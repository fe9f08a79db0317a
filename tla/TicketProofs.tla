---------------------------- MODULE TicketProofs ----------------------------
(***************************************************************************)
(* What a ticket keeps, for any pools, amounts and widths and any sequence *)
(* of calls.  A list of deposits changes in four ways only: an entry of a  *)
(* pool it does not hold is added at the end, an entry is changed in       *)
(* place, an entry is taken out, and all entries are credited; and an      *)
(* index of a pool never falls.  The theorems follow from these lemmas.    *)
(***************************************************************************)
EXTENDS TicketLedger, ArithmeticProofs, SequenceTheorems

(***************************************************************************)
(* Lists of deposits                                                       *)
(***************************************************************************)
TicketEntry == TicketCollateral(Reserves)

Unique(s) ==
  \A i, j \in DOMAIN s : s[i].deposit_reserve = s[j].deposit_reserve => i = j

Behind(s, pl) ==
  \A i \in DOMAIN s : s[i].index <= pl[s[i].deposit_reserve].l_token_mining_index

\* An entry of a pool the list does not hold.
LEMMA AddedEntry ==
  ASSUME NEW s \in Seq(TicketEntry), NEW e \in TicketEntry, NEW pl, Unique(s), Behind(s, pl),
         \A i \in DOMAIN s : s[i].deposit_reserve # e.deposit_reserve,
         e.index <= pl[e.deposit_reserve].l_token_mining_index
  PROVE  /\ Append(s, e) \in Seq(TicketEntry) /\ Len(Append(s, e)) = Len(s) + 1
         /\ Unique(Append(s, e)) /\ Behind(Append(s, e), pl)
<1> DEFINE t == Append(s, e)
<1>1. /\ t \in Seq(TicketEntry) /\ Len(t) = Len(s) + 1
      /\ \A i \in 1..Len(s) : t[i] = s[i]
      /\ t[Len(s) + 1] = e
  BY AppendProperties
<1>2. DOMAIN t = 1..Len(t) /\ DOMAIN s = 1..Len(s) /\ Len(s) \in Nat
  BY <1>1, LenProperties
<1> HIDE DEF t
<1>3. \A i \in DOMAIN t : i \in DOMAIN s \/ i = Len(s) + 1
  BY <1>1, <1>2
<1>4. Unique(t)
  BY <1>1, <1>2, <1>3 DEF Unique
<1>5. Behind(t, pl)
  BY <1>1, <1>2, <1>3 DEF Behind
<1> QED
  BY <1>1, <1>4, <1>5 DEF t

\* An entry changed in place, of the same pool and up to the same index.
LEMMA ChangedEntry ==
  ASSUME NEW s \in Seq(TicketEntry), NEW i \in DOMAIN s, NEW e \in TicketEntry, NEW pl,
         Unique(s), Behind(s, pl),
         e.deposit_reserve = s[i].deposit_reserve, e.index = s[i].index
  PROVE  LET t == [s EXCEPT ![i] = e]
         IN  t \in Seq(TicketEntry) /\ Len(t) = Len(s) /\ Unique(t) /\ Behind(t, pl)
<1> DEFINE t == [s EXCEPT ![i] = e]
<1>1. DOMAIN s = 1..Len(s) /\ Len(s) \in Nat
  BY LenProperties
<1>2. t \in Seq(TicketEntry) /\ Len(t) = Len(s)
      /\ \A j \in 1..Len(s) : t[j] = IF j = i THEN e ELSE s[j]
  BY <1>1, ExceptSeq
<1>3. DOMAIN t = DOMAIN s
  OBVIOUS
<1> HIDE DEF t
<1>4. \A j \in DOMAIN t : /\ t[j].deposit_reserve = s[j].deposit_reserve
                          /\ t[j].index = s[j].index
  BY <1>1, <1>2, <1>3
<1>5. Unique(t)
  BY <1>3, <1>4 DEF Unique
<1>6. Behind(t, pl)
  BY <1>3, <1>4 DEF Behind
<1> QED
  BY <1>2, <1>5, <1>6 DEF t

\* An element taken out: those behind it move down by one.
AfterRemoval(i, j) == IF j < i THEN j ELSE j + 1

LEMMA RemovedElement ==
  ASSUME NEW S, NEW s \in Seq(S), NEW i \in DOMAIN s
  PROVE  LET t == RemoveAt(s, i)
         IN  /\ t \in Seq(S) /\ Len(t) = Len(s) - 1
             /\ \A j \in DOMAIN t : /\ AfterRemoval(i, j) \in DOMAIN s
                                   /\ t[j] = s[AfterRemoval(i, j)]
             /\ \A j, k \in DOMAIN t : AfterRemoval(i, j) = AfterRemoval(i, k) => j = k
<1> DEFINE t == RemoveAt(s, i)
           front == SubSeq(s, 1, i - 1)
           back == SubSeq(s, i + 1, Len(s))
<1>1. DOMAIN s = 1..Len(s) /\ Len(s) \in Nat /\ i \in 1..Len(s)
      /\ \A j \in 1..Len(s) : s[j] \in S
  BY LenProperties, ElementOfSeq
<1>2. front \in Seq(S) /\ Len(front) = i - 1
      /\ \A j \in 1..(i - 1) : front[j] = s[j]
  <2>1. \A j \in 1..(i - 1) : s[j] \in S
    BY <1>1
  <2>2. /\ front \in Seq(S)
        /\ Len(front) = IF 1 <= i - 1 THEN (i - 1) - 1 + 1 ELSE 0
        /\ \A j \in 1..((i - 1) - 1 + 1) : front[j] = s[1 + j - 1]
    BY <1>1, <2>1, SubSeqProperties, Z3
  <2> HIDE DEF front
  <2>3. \A j \in 1..(i - 1) : j \in 1..((i - 1) - 1 + 1) /\ 1 + j - 1 = j
    BY <1>1
  <2> QED
    BY <1>1, <2>2, <2>3
<1>3. back \in Seq(S) /\ Len(back) = Len(s) - i
      /\ \A j \in 1..(Len(s) - i) : back[j] = s[i + j]
  <2>1. \A j \in (i + 1)..Len(s) : s[j] \in S
    BY <1>1
  <2>2. /\ back \in Seq(S)
        /\ Len(back) = IF i + 1 <= Len(s) THEN Len(s) - (i + 1) + 1 ELSE 0
        /\ \A j \in 1..(Len(s) - (i + 1) + 1) : back[j] = s[(i + 1) + j - 1]
    BY <1>1, <2>1, SubSeqProperties, Z3
  <2> HIDE DEF back
  <2>3. \A j \in 1..(Len(s) - i) : j \in 1..(Len(s) - (i + 1) + 1) /\ (i + 1) + j - 1 = i + j
    BY <1>1
  <2> QED
    BY <1>1, <2>2, <2>3
<1>4. t = front \o back
  BY DEF RemoveAt
<1> HIDE DEF t, front, back
<1>5. /\ t \in Seq(S) /\ Len(t) = Len(s) - 1
      /\ \A j \in 1..(Len(s) - 1) : t[j] = IF j <= i - 1 THEN front[j] ELSE back[j - (i - 1)]
  <2>1. /\ front \o back \in Seq(S)
        /\ Len(front \o back) = Len(front) + Len(back)
        /\ \A j \in 1..(Len(front) + Len(back)) :
             (front \o back)[j] = IF j <= Len(front) THEN front[j] ELSE back[j - Len(front)]
    BY <1>2, <1>3, ConcatProperties
  <2>2. Len(front) + Len(back) = Len(s) - 1
    BY <1>1, <1>2, <1>3
  <2> QED
    BY <1>2, <1>4, <2>1, <2>2
<1>6. DOMAIN t = 1..(Len(s) - 1)
  BY <1>5, LenProperties
<1>7. \A j \in DOMAIN t : AfterRemoval(i, j) \in DOMAIN s /\ t[j] = s[AfterRemoval(i, j)]
  <2> SUFFICES ASSUME NEW j \in 1..(Len(s) - 1)
               PROVE  AfterRemoval(i, j) \in DOMAIN s /\ t[j] = s[AfterRemoval(i, j)]
    BY <1>6
  <2>1. CASE j < i
    BY <1>1, <1>2, <1>5, <2>1 DEF AfterRemoval
  <2>2. CASE ~(j < i)
    <3>1. j - (i - 1) \in 1..(Len(s) - i) /\ i + (j - (i - 1)) = j + 1 /\ ~(j <= i - 1)
      BY <1>1, <2>2
    <3>2. t[j] = back[j - (i - 1)]
      BY <1>5, <3>1
    <3>3. back[j - (i - 1)] = s[i + (j - (i - 1))]
      BY <1>3, <3>1
    <3> QED
      BY <1>1, <2>2, <3>1, <3>2, <3>3 DEF AfterRemoval
  <2> QED
    BY <2>1, <2>2
<1>8. \A j, k \in DOMAIN t : AfterRemoval(i, j) = AfterRemoval(i, k) => j = k
  BY <1>1, <1>6 DEF AfterRemoval
<1> QED
  BY <1>5, <1>7, <1>8 DEF t

LEMMA RemovedEntry ==
  ASSUME NEW s \in Seq(TicketEntry), NEW i \in DOMAIN s, NEW pl, Unique(s), Behind(s, pl)
  PROVE  LET t == RemoveAt(s, i)
         IN  t \in Seq(TicketEntry) /\ Len(t) = Len(s) - 1 /\ Unique(t) /\ Behind(t, pl)
<1> DEFINE t == RemoveAt(s, i)
<1>1. /\ t \in Seq(TicketEntry) /\ Len(t) = Len(s) - 1
      /\ \A j \in DOMAIN t : AfterRemoval(i, j) \in DOMAIN s /\ t[j] = s[AfterRemoval(i, j)]
      /\ \A j, k \in DOMAIN t : AfterRemoval(i, j) = AfterRemoval(i, k) => j = k
  BY RemovedElement
<1> HIDE DEF t
<1>2. Unique(t)
  BY <1>1 DEF Unique
<1>3. Behind(t, pl)
  BY <1>1 DEF Behind
<1> QED
  BY <1>1, <1>2, <1>3 DEF t

\* All entries rewritten, each for the same pool and up to its index.
LEMMA CreditedEntries ==
  ASSUME NEW s \in Seq(TicketEntry), NEW t \in [DOMAIN s -> TicketEntry],
         NEW pl \in [Reserves -> PoolRecord], Unique(s),
         \A i \in DOMAIN s :
           /\ t[i].deposit_reserve = s[i].deposit_reserve
           /\ t[i].index = pl[s[i].deposit_reserve].l_token_mining_index
  PROVE  t \in Seq(TicketEntry) /\ Len(t) = Len(s) /\ Unique(t) /\ Behind(t, pl)
<1>1. DOMAIN s = 1..Len(s) /\ Len(s) \in Nat /\ \A i \in DOMAIN s : s[i] \in TicketEntry
  BY LenProperties, ElementOfSeq
<1>2. t \in [1..Len(s) -> TicketEntry]
  BY <1>1
<1>3. t \in Seq(TicketEntry)
  BY <1>1, <1>2, SeqDef
<1>4. Len(t) = Len(s)
  <2>1. DOMAIN t = 1..Len(t) /\ Len(t) \in Nat /\ DOMAIN t = 1..Len(s)
    BY <1>2, <1>3, LenProperties
  <2> QED
    BY <1>1, <2>1
<1>5. DOMAIN t = DOMAIN s
  OBVIOUS
<1>6. Unique(t)
  BY <1>5 DEF Unique
<1>7. \A i \in DOMAIN s : pl[s[i].deposit_reserve].l_token_mining_index \in Int
  BY <1>1, Widths DEF TicketEntry, TicketCollateral, PoolRecord
<1>8. Behind(t, pl)
  BY <1>5, <1>7 DEF Behind
<1> QED
  BY <1>3, <1>4, <1>6, <1>8

(***************************************************************************)
(* Pools                                                                   *)
(***************************************************************************)
LEMMA ScaledFits ==
  ASSUME NEW x, ToScaledVal(x) # Err
  PROVE  x \in 0..MaxU128
  BY DEF ToScaledVal, Checked, Err

\* An emission that does not overflow is a natural number, and what it adds
\* to an index is one too.
LEMMA IndexGrows ==
  ASSUME NEW pl \in PoolRecord, NEW now, LTokenMiningIndex(pl, now) # Err
  PROVE  pl.l_token_mining_index <= LTokenMiningIndex(pl, now)
<1> DEFINE a == TryMulInt(Decimal(pl.total_mining_speed), SlotsElapsed(pl, now), DecimalMax)
           m == MineRatio
           e == Emission(pl, now)
           q == TryDivInt(e, pl.mint_total_supply)
<1>1. q # Err /\ LTokenMiningIndex(pl, now) = Checked(pl.l_token_mining_index + q, DecimalMax)
  BY DEF LTokenMiningIndex, TryAdd
<1>2. e # Err /\ pl.mint_total_supply # 0 /\ q = e \div pl.mint_total_supply
  BY <1>1 DEF TryDivInt
<1>3. e = (a * m) \div Wad /\ Checked(a * m, DecimalMax) # Err
  BY <1>2 DEF Emission, TryMul
<1>4. a * m \in Nat
  BY <1>3, Widths DEF Checked, DecimalMax
<1> HIDE DEF a, m
<1>5. e \in Nat
  BY <1>3, <1>4, Widths, Z3
<1>6. pl.mint_total_supply \in Nat \ {0} /\ pl.l_token_mining_index \in Nat
  BY <1>2, Widths DEF PoolRecord
<1> HIDE DEF e
<1>7. q \in Nat
  BY <1>2, <1>5, <1>6, Z3
<1> HIDE DEF q
<1> QED
  BY <1>1, <1>6, <1>7, Widths, CheckedResult DEF DecimalMax

LEMMA RefreshedPool ==
  ASSUME NEW pl \in PoolRecord, NEW now \in Nat, CanRefreshIndex(pl, now),
         CanPack(UpdateSlot(RefreshIndex(pl, now), now))
  PROVE  LET new == UpdateSlot(RefreshIndex(pl, now), now)
         IN  new \in PoolRecord /\ pl.l_token_mining_index <= new.l_token_mining_index
<1> DEFINE l == IF Mines(pl) THEN LTokenMiningIndex(pl, now) ELSE pl.l_token_mining_index
           b == IF MinesBorrows(pl) THEN BorrowMiningIndex(pl, now) ELSE pl.borrow_mining_index
           new == UpdateSlot(RefreshIndex(pl, now), now)
<1>1. new = [pl EXCEPT !.l_token_mining_index = l, !.borrow_mining_index = b,
                       !.slot = now, !.stale = FALSE]
  BY DEF UpdateSlot, RefreshIndex, PoolRecord
<1>2. pl.l_token_mining_index <= l
  BY IndexGrows, Widths DEF CanRefreshIndex, PoolRecord
<1> HIDE DEF l, b
<1>3. new.l_token_mining_index = l /\ new.borrow_mining_index = b
  BY <1>1 DEF PoolRecord
<1>4. l \in 0..MaxU128 /\ b \in 0..MaxU128
  BY <1>3, ScaledFits DEF CanPack
<1>5. new \in PoolRecord
  BY <1>1, <1>4 DEF PoolRecord
<1> QED
  BY <1>2, <1>3, <1>5

LEMMA SuppliedPool ==
  ASSUME NEW pl \in PoolRecord, NEW n \in 0..MaxU64, CanDeposit(pl, n)
  PROVE  LET new == MarkStale(DepositLiquidity(pl, n))
         IN  new \in PoolRecord /\ new.l_token_mining_index = pl.l_token_mining_index
<1>1. CollateralFor(pl, n) \in 0..MaxU64
  BY CheckedRange DEF CanDeposit, CollateralFor, LiquidityToCollateral, TryRoundU64
<1>2. pl.available_amount + n \in 0..MaxU64
      /\ pl.mint_total_supply + CollateralFor(pl, n) \in 0..MaxU64
  BY <1>1, Widths DEF CanDeposit, PoolRecord
<1> QED
  BY <1>2 DEF MarkStale, DepositLiquidity, PoolRecord

LEMMA RedeemedPool ==
  ASSUME NEW pl \in PoolRecord, NEW n \in 0..MaxU64, CanRedeem(pl, n)
  PROVE  LET new == MarkStale(RedeemCollateral(pl, n))
         IN  new \in PoolRecord /\ new.l_token_mining_index = pl.l_token_mining_index
<1>1. LiquidityFor(pl, n) \in 0..MaxU64
  BY CheckedRange DEF CanRedeem, LiquidityFor, CollateralToLiquidity, TryFloorU64
<1>2. pl.available_amount - LiquidityFor(pl, n) \in 0..MaxU64
      /\ pl.mint_total_supply - n \in 0..MaxU64
  BY <1>1, Widths DEF CanRedeem, PoolRecord
<1> QED
  BY <1>2 DEF MarkStale, RedeemCollateral, PoolRecord

(***************************************************************************)
(* The inductive invariant: uniqueness needs nothing but itself, but that  *)
(* no entry is ahead of its pool needs the types, for the sums to be       *)
(* monotone, and the types need that no call overflows.                    *)
(***************************************************************************)
IInv == TypeOK /\ DepositsUniqueAndBounded /\ EntriesBehindPools

LEMMA IInvOfList ==
  /\ DepositsUniqueAndBounded
       <=> Len(ticket.deposits) <= MaxReserves /\ Unique(ticket.deposits)
  /\ EntriesBehindPools <=> Behind(ticket.deposits, pool)
  BY DEF DepositsUniqueAndBounded, EntriesBehindPools, Unique, Behind

LEMMA IInvOfNextList ==
  /\ DepositsUniqueAndBounded'
       <=> Len(ticket.deposits') <= MaxReserves /\ Unique(ticket.deposits')
  /\ EntriesBehindPools' <=> Behind(ticket.deposits', pool')
  BY DEF DepositsUniqueAndBounded, EntriesBehindPools, Unique, Behind

\* A step of a pool: the ticket stays as it is and no index falls.
LEMMA PoolStep ==
  ASSUME IInv, NEW r \in Reserves, NEW new \in PoolRecord, Stores(r, new),
         pool[r].l_token_mining_index <= new.l_token_mining_index
  PROVE  IInv'
<1>1. pool \in [Reserves -> PoolRecord] /\ ticket \in TicketRecord(Reserves)
  BY DEF IInv, TypeOK
<1>2. pool' = [pool EXCEPT ![r] = new] /\ UNCHANGED <<slot, ticket, peak>>
  BY DEF Stores
<1>3. TypeOK'
  BY <1>1, <1>2 DEF IInv, TypeOK
<1>4. \A p \in Reserves : /\ pool[p].l_token_mining_index \in Int
                          /\ pool'[p].l_token_mining_index \in Int
                          /\ pool[p].l_token_mining_index <= pool'[p].l_token_mining_index
  <2>1. \A p \in Reserves : pool[p] \in PoolRecord /\ pool'[p] \in PoolRecord
    BY <1>1, <1>2
  <2>2. \A pl \in PoolRecord : pl.l_token_mining_index \in Int
    BY Widths DEF PoolRecord
  <2> QED
    BY <1>1, <1>2, <2>1, <2>2
<1>5. ticket.deposits \in Seq(TicketEntry)
  BY <1>1 DEF TicketRecord, TicketEntry
<1>6. \A i \in DOMAIN ticket.deposits :
        ticket.deposits[i].deposit_reserve \in Reserves /\ ticket.deposits[i].index \in Int
  <2>1. \A i \in DOMAIN ticket.deposits : ticket.deposits[i] \in TicketEntry
    BY <1>5, LenProperties, ElementOfSeq
  <2> QED
    BY <2>1, Widths DEF TicketEntry, TicketCollateral
<1>7. EntriesBehindPools'
  BY <1>2, <1>4, <1>6 DEF IInv, EntriesBehindPools
<1>8. DepositsUniqueAndBounded'
  BY <1>2 DEF IInv, DepositsUniqueAndBounded
<1> QED
  BY <1>3, <1>7, <1>8 DEF IInv

\* A step of the ticket: the pools stay as they are, and the list of the
\* ticket is one of those the lemmas on lists give.
LEMMA TicketStep ==
  ASSUME IInv, ticket' \in TicketRecord(Reserves), UNCHANGED <<slot, pool>>,
         peak' \in [Reserves -> 0..MaxU64],
         Len(ticket.deposits') <= MaxReserves,
         Unique(ticket.deposits'), Behind(ticket.deposits', pool)
  PROVE  IInv'
<1>1. TypeOK'
  BY DEF IInv, TypeOK
<1>2. EntriesBehindPools' /\ DepositsUniqueAndBounded'
  BY IInvOfNextList
<1> QED
  BY <1>1, <1>2 DEF IInv

LEMMA InitTicketKeeps ==
  ASSUME IInv, InitTicket
  PROVE  IInv'
<1>1. slot \in Nat
  BY LedgerAssumption DEF IInv, TypeOK
<1>2. ticket' = NewTicket(slot) /\ ticket'.deposits = << >>
  BY DEF InitTicket, NewTicket, UninitializedTicket
<1>3. << >> \in Seq(TicketCollateral(Reserves)) /\ Len(<< >>) = 0 /\ DOMAIN << >> = {}
  OBVIOUS
<1>4. ticket' \in TicketRecord(Reserves)
  <2>1. \A none \in Seq(TicketCollateral(Reserves)) :
          [ version |-> 1, slot |-> slot, stale |-> TRUE, deposits |-> none,
            deposited_value |-> 0, unclaimed_mine |-> 0 ] \in TicketRecord(Reserves)
    BY <1>1, Widths DEF TicketRecord
  <2>2. ticket' = [ version |-> 1, slot |-> slot, stale |-> TRUE, deposits |-> << >>,
                    deposited_value |-> 0, unclaimed_mine |-> 0 ]
    BY <1>2 DEF NewTicket, UninitializedTicket
  <2> QED
    BY <1>3, <2>1, <2>2
<1>5. Len(ticket.deposits') <= MaxReserves /\ Unique(ticket.deposits')
      /\ Behind(ticket.deposits', pool)
  BY <1>2, <1>3, LedgerAssumption DEF Unique, Behind
<1> QED
  BY <1>4, <1>5, TicketStep DEF InitTicket, IInv, TypeOK

\* What the invariant says of the list and of the pools.
LEMMA ListAndPools ==
  ASSUME IInv
  PROVE  /\ ticket \in TicketRecord(Reserves)
         /\ ticket.deposits \in Seq(TicketEntry)
         /\ DOMAIN ticket.deposits = 1..Len(ticket.deposits)
         /\ Len(ticket.deposits) \in Nat /\ Len(ticket.deposits) <= MaxReserves
         /\ \A i \in DOMAIN ticket.deposits : ticket.deposits[i] \in TicketEntry
         /\ Unique(ticket.deposits) /\ Behind(ticket.deposits, pool)
         /\ pool \in [Reserves -> PoolRecord]
         /\ slot \in Nat /\ peak \in [Reserves -> 0..MaxU64]
<1>1. ticket \in TicketRecord(Reserves) /\ pool \in [Reserves -> PoolRecord]
      /\ slot \in Nat /\ peak \in [Reserves -> 0..MaxU64]
  BY LedgerAssumption DEF IInv, TypeOK
<1>2. ticket.deposits \in Seq(TicketEntry)
  BY <1>1 DEF TicketRecord, TicketEntry
<1>3. DOMAIN ticket.deposits = 1..Len(ticket.deposits) /\ Len(ticket.deposits) \in Nat
  BY <1>2, LenProperties
<1>4. \A i \in DOMAIN ticket.deposits : ticket.deposits[i] \in TicketEntry
  BY <1>2, <1>3, ElementOfSeq
<1> QED
  BY <1>1, <1>2, <1>3, <1>4, IInvOfList DEF IInv

LEMMA ReplacedList ==
  ASSUME NEW tk \in TicketRecord(Reserves), NEW list \in Seq(TicketEntry)
  PROVE  /\ [tk EXCEPT !.deposits = list] \in TicketRecord(Reserves)
         /\ [tk EXCEPT !.deposits = list].deposits = list
  BY DEF TicketRecord, TicketEntry

LEMMA FindOrAddKeeps ==
  ASSUME IInv, NEW r \in Reserves, FindOrAddCollateral(r)
  PROVE  IInv'
<1> DEFINE s == ticket.deposits
           e == NewCollateral(r, pool[r].l_token_mining_index)
<1> USE ListAndPools
<1>1. ticket' = FindOrAdd(ticket, r, pool[r].l_token_mining_index)
      /\ CanFindOrAdd(ticket, r) /\ UNCHANGED <<slot, pool, peak>>
  BY DEF FindOrAddCollateral
<1>2. CASE Holds(ticket, r)
  BY <1>1, <1>2, TicketStep DEF FindOrAdd
<1>3. CASE ~Holds(ticket, r)
  <2>1. ticket' = [ticket EXCEPT !.deposits = Append(s, e)] /\ Len(s) < MaxReserves
    BY <1>1, <1>3 DEF FindOrAdd, CanFindOrAdd, HasRoom
  <2>2. pool[r].l_token_mining_index \in 0..MaxU128
    BY DEF PoolRecord
  <2>3. e \in TicketEntry /\ e.deposit_reserve = r /\ e.index = pool[r].l_token_mining_index
    BY <2>2, Widths DEF TicketEntry, TicketCollateral, NewCollateral
  <2>4. \A i \in DOMAIN s : s[i].deposit_reserve # r
    BY <1>3 DEF Holds
  <2>5. e.index <= pool[e.deposit_reserve].l_token_mining_index
    BY <2>2, <2>3, Widths
  <2> HIDE DEF s, e
  <2>6. /\ Append(s, e) \in Seq(TicketEntry) /\ Len(Append(s, e)) = Len(s) + 1
        /\ Unique(Append(s, e)) /\ Behind(Append(s, e), pool)
    BY <2>3, <2>4, <2>5, AddedEntry DEF s
  <2>7. ticket' \in TicketRecord(Reserves) /\ ticket.deposits' = Append(s, e)
    BY <2>1, <2>6, ReplacedList
  <2>8. Len(s) + 1 <= MaxReserves
    BY <2>1, LedgerAssumption DEF s
  <2> QED
    BY <1>1, <2>6, <2>7, <2>8, TicketStep
<1> QED
  BY <1>2, <1>3

LEMMA DepositKeeps ==
  ASSUME IInv, NEW i \in DOMAIN ticket.deposits, NEW n \in 0..MaxU64, Deposit(i, n)
  PROVE  IInv'
<1> DEFINE s == ticket.deposits
           e == [s[i] EXCEPT !.deposited_amount = @ + n]
<1> USE ListAndPools
<1>1. s[i] \in TicketEntry
  OBVIOUS
<1>2. s[i].deposited_amount \in 0..MaxU64 /\ s[i].deposit_reserve \in Reserves
  BY <1>1 DEF TicketEntry, TicketCollateral
<1>3. s[i].deposited_amount + n \in 0..MaxU64
  BY <1>2, Widths DEF Deposit, CanDepositTo
<1>4. /\ e \in TicketEntry /\ e.deposit_reserve = s[i].deposit_reserve
      /\ e.index = s[i].index
  BY <1>1, <1>3 DEF TicketEntry, TicketCollateral
<1>5. ticket' = [ticket EXCEPT !.deposits = [s EXCEPT ![i] = e]]
  BY DEF Deposit, DepositTo
<1>6. /\ [s EXCEPT ![i] = e] \in Seq(TicketEntry) /\ Len([s EXCEPT ![i] = e]) = Len(s)
      /\ Unique([s EXCEPT ![i] = e]) /\ Behind([s EXCEPT ![i] = e], pool)
  <2> HIDE DEF e
  <2> QED
    BY <1>4, ChangedEntry
<1>7. peak' \in [Reserves -> 0..MaxU64] /\ UNCHANGED <<slot, pool>>
  BY <1>2, <1>3 DEF Deposit
<1> HIDE DEF e
<1>8. ticket' \in TicketRecord(Reserves) /\ ticket.deposits' = [s EXCEPT ![i] = e]
  BY <1>5, <1>6, ReplacedList
<1> QED
  BY <1>6, <1>7, <1>8, TicketStep

LEMMA WithdrawKeeps ==
  ASSUME IInv, NEW i \in DOMAIN ticket.deposits, NEW n \in 0..MaxU64, Withdraw(i, n)
  PROVE  IInv'
<1> DEFINE s == ticket.deposits
           e == [s[i] EXCEPT !.deposited_amount = @ - n]
<1> USE ListAndPools
<1>1. s[i] \in TicketEntry
  OBVIOUS
<1>2. /\ n <= s[i].deposited_amount /\ ticket' = WithdrawFrom(ticket, i, n)
      /\ UNCHANGED <<slot, pool, peak>>
  BY DEF Withdraw, CanWithdrawFrom
<1>3. ASSUME NEW list \in Seq(TicketEntry), ticket' = [ticket EXCEPT !.deposits = list],
             Len(list) <= Len(s), Unique(list), Behind(list, pool)
      PROVE  IInv'
  <2>1. ticket' \in TicketRecord(Reserves) /\ ticket.deposits' = list
    BY <1>3, ReplacedList
  <2>2. Len(list) \in Nat /\ Len(list) <= MaxReserves
    BY <1>3, LenProperties, LedgerAssumption
  <2> QED
    BY <1>2, <1>3, <2>1, <2>2, TicketStep
<1>4. CASE n = s[i].deposited_amount
  <2>1. ticket' = [ticket EXCEPT !.deposits = RemoveAt(s, i)]
    BY <1>2, <1>4 DEF WithdrawFrom
  <2>2. /\ RemoveAt(s, i) \in Seq(TicketEntry) /\ Len(RemoveAt(s, i)) = Len(s) - 1
        /\ Unique(RemoveAt(s, i)) /\ Behind(RemoveAt(s, i), pool)
    BY RemovedEntry
  <2> QED
    BY <1>3, <2>1, <2>2
<1>5. CASE n # s[i].deposited_amount
  <2>1. ticket' = [ticket EXCEPT !.deposits = [s EXCEPT ![i] = e]]
    BY <1>2, <1>5 DEF WithdrawFrom
  <2>2. s[i].deposited_amount \in 0..MaxU64
    BY <1>1 DEF TicketEntry, TicketCollateral
  <2>3. s[i].deposited_amount - n \in 0..MaxU64
    BY <1>2, <2>2, Widths
  <2>4. /\ e \in TicketEntry /\ e.deposit_reserve = s[i].deposit_reserve
        /\ e.index = s[i].index
    BY <1>1, <2>3 DEF TicketEntry, TicketCollateral
  <2> HIDE DEF e
  <2>5. /\ [s EXCEPT ![i] = e] \in Seq(TicketEntry) /\ Len([s EXCEPT ![i] = e]) = Len(s)
        /\ Unique([s EXCEPT ![i] = e]) /\ Behind([s EXCEPT ![i] = e], pool)
    BY <2>4, ChangedEntry
  <2> DEFINE list == [s EXCEPT ![i] = e]
  <2>6. /\ list \in Seq(TicketEntry) /\ Len(list) <= Len(s) /\ Unique(list) /\ Behind(list, pool)
        /\ ticket' = [ticket EXCEPT !.deposits = list]
    BY <2>1, <2>5
  <2> HIDE DEF list
  <2> QED
    BY <1>3, <2>6
<1> QED
  BY <1>4, <1>5

LEMMA RefreshTicketKeeps ==
  ASSUME IInv, NEW reserves, RefreshTicket(reserves)
  PROVE  IInv'
<1> DEFINE s == ticket.deposits
           t == [i \in DOMAIN s |-> CreditedDeposit(pool, s[i])]
<1> USE ListAndPools
<1>1. /\ CanRefreshTicket(pool, ticket, reserves, slot)
      /\ ticket' = RefreshedTicket(pool, ticket, slot)
      /\ UNCHANGED <<slot, pool, peak>>
  BY DEF RefreshTicket
<1>2. ASSUME NEW i \in DOMAIN s
      PROVE  /\ CreditedDeposit(pool, s[i]) \in TicketEntry
             /\ CreditedDeposit(pool, s[i]).deposit_reserve = s[i].deposit_reserve
             /\ CreditedDeposit(pool, s[i]).index
                  = pool[s[i].deposit_reserve].l_token_mining_index
  <2>1. s[i] \in TicketEntry
    OBVIOUS
  <2>2. MarketValue(pool, s[i]) \in 0..MaxU128
    BY <1>1, ScaledFits DEF CanRefreshTicket
  <2>3. pool[s[i].deposit_reserve].l_token_mining_index \in 0..MaxU128
    BY <2>1 DEF TicketEntry, TicketCollateral, PoolRecord
  <2> QED
    BY <2>1, <2>2, <2>3 DEF CreditedDeposit, TicketEntry, TicketCollateral
<1>3. t \in [DOMAIN s -> TicketEntry]
  BY <1>2
<1>4. \A i \in DOMAIN s : /\ t[i].deposit_reserve = s[i].deposit_reserve
                          /\ t[i].index = pool[s[i].deposit_reserve].l_token_mining_index
  BY <1>2
<1>5. DepositedValue(pool, ticket) \in 0..MaxU128 /\ UnclaimedMine(pool, ticket) \in 0..MaxU128
  BY <1>1, ScaledFits DEF CanRefreshTicket
<1>6. ticket' = [ticket EXCEPT !.deposits = t, !.deposited_value = DepositedValue(pool, ticket),
                               !.unclaimed_mine = UnclaimedMine(pool, ticket),
                               !.slot = slot, !.stale = FALSE]
  BY <1>1 DEF RefreshedTicket
<1> HIDE DEF t
<1>7. t \in Seq(TicketEntry) /\ Len(t) = Len(s) /\ Unique(t) /\ Behind(t, pool)
  BY <1>3, <1>4, CreditedEntries
<1>8. ticket' \in TicketRecord(Reserves) /\ ticket.deposits' = t
  BY <1>5, <1>6, <1>7 DEF TicketRecord, TicketEntry
<1> QED
  BY <1>1, <1>7, <1>8, TicketStep

(***************************************************************************)
(* Theorems                                                                *)
(***************************************************************************)
LEMMA InitEstablishesIInv == Init => IInv
<1> SUFFICES ASSUME Init PROVE IInv
  OBVIOUS
<1>1. ticket = UninitializedTicket /\ ticket.deposits = << >> /\ DOMAIN << >> = {}
      /\ Len(<< >>) = 0 /\ << >> \in Seq(TicketCollateral(Reserves))
  BY DEF Init, UninitializedTicket
<1>2. ticket \in TicketRecord(Reserves)
  <2>1. \A none \in Seq(TicketCollateral(Reserves)) :
          [ version |-> 0, slot |-> 0, stale |-> FALSE, deposits |-> none,
            deposited_value |-> 0, unclaimed_mine |-> 0 ] \in TicketRecord(Reserves)
    BY Widths DEF TicketRecord
  <2>2. ticket = [ version |-> 0, slot |-> 0, stale |-> FALSE, deposits |-> << >>,
                   deposited_value |-> 0, unclaimed_mine |-> 0 ]
    BY <1>1 DEF UninitializedTicket
  <2> QED
    BY <1>1, <2>1, <2>2
<1>3. slot \in 0..MaxSlot /\ pool \in [Reserves -> PoolRecord] /\ peak \in [Reserves -> 0..MaxU64]
  BY LedgerAssumption, Widths DEF Init
<1>4. DepositsUniqueAndBounded /\ EntriesBehindPools
  BY <1>1, LedgerAssumption DEF DepositsUniqueAndBounded, EntriesBehindPools
<1> QED
  BY <1>2, <1>3, <1>4 DEF IInv, TypeOK

LEMMA NextKeepsIInv == IInv /\ [Next]_vars => IInv'
<1> SUFFICES ASSUME IInv, [Next]_vars PROVE IInv'
  OBVIOUS
<1>0. pool \in [Reserves -> PoolRecord] /\ slot \in Nat
  BY ListAndPools
<1>1. CASE UNCHANGED vars
  BY <1>1 DEF IInv, TypeOK, DepositsUniqueAndBounded, EntriesBehindPools, vars
<1>2. CASE Tick
  <2>1. slot' \in 0..MaxSlot /\ UNCHANGED <<pool, ticket, peak>>
    BY <1>0, <1>2, LedgerAssumption DEF Tick
  <2> QED
    BY <2>1 DEF IInv, TypeOK, DepositsUniqueAndBounded, EntriesBehindPools
<1>3. ASSUME NEW r \in Reserves, RefreshPool(r) PROVE IInv'
  <2> DEFINE new == UpdateSlot(RefreshIndex(pool[r], slot), slot)
  <2>1. pool[r] \in PoolRecord /\ CanRefreshIndex(pool[r], slot) /\ Stores(r, new) /\ CanPack(new)
    BY <1>0, <1>3 DEF RefreshPool, Stores
  <2>2. new \in PoolRecord /\ pool[r].l_token_mining_index <= new.l_token_mining_index
    BY <1>0, <2>1, RefreshedPool
  <2> HIDE DEF new
  <2> QED
    BY <2>1, <2>2, PoolStep
<1>4. ASSUME NEW r \in Reserves, NEW new \in PoolRecord, Stores(r, new),
             new.l_token_mining_index = pool[r].l_token_mining_index
      PROVE  IInv'
  <2>1. pool[r].l_token_mining_index \in Nat
    BY <1>0, Widths DEF PoolRecord
  <2> QED
    BY <1>4, <2>1, PoolStep
<1>5. ASSUME NEW c \in SupplyChanges, Supplied(c[1], c[2]) PROVE IInv'
  <2>1. c[1] \in Reserves /\ c[2] \in 0..MaxU64 /\ pool[c[1]] \in PoolRecord
    BY <1>0, LedgerAssumption
  <2> DEFINE new == MarkStale(DepositLiquidity(pool[c[1]], c[2]))
  <2>2. CanDeposit(pool[c[1]], c[2]) /\ Stores(c[1], new)
    BY <1>5 DEF Supplied
  <2>3. new \in PoolRecord /\ new.l_token_mining_index = pool[c[1]].l_token_mining_index
    BY <2>1, <2>2, SuppliedPool
  <2> HIDE DEF new
  <2> QED
    BY <1>4, <2>1, <2>2, <2>3
<1>6. ASSUME NEW c \in SupplyChanges, Redeemed(c[1], c[2]) PROVE IInv'
  <2>1. c[1] \in Reserves /\ c[2] \in 0..MaxU64 /\ pool[c[1]] \in PoolRecord
    BY <1>0, LedgerAssumption
  <2> DEFINE new == MarkStale(RedeemCollateral(pool[c[1]], c[2]))
  <2>2. CanRedeem(pool[c[1]], c[2]) /\ Stores(c[1], new)
    BY <1>6 DEF Redeemed
  <2>3. new \in PoolRecord /\ new.l_token_mining_index = pool[c[1]].l_token_mining_index
    BY <2>1, <2>2, RedeemedPool
  <2> HIDE DEF new
  <2> QED
    BY <1>4, <2>1, <2>2, <2>3
<1>7. \A n \in TicketAmounts : n \in 0..MaxU64
  BY LedgerAssumption
<1> QED
  BY <1>1, <1>2, <1>3, <1>5, <1>6, <1>7, InitTicketKeeps, RefreshTicketKeeps,
     FindOrAddKeeps, DepositKeeps, WithdrawKeeps DEF Next

(***************************************************************************)
(* The inductive invariant holds of every reachable state.                 *)
(***************************************************************************)
THEOREM TicketInvariant == Spec => []IInv
  BY InitEstablishesIInv, NextKeepsIInv, PTL DEF Spec

(***************************************************************************)
(* Every number of a ticket and of the pools beside it fits its field.     *)
(***************************************************************************)
THEOREM TicketTypeOK == Spec => []TypeOK
<1>1. IInv => TypeOK
  BY DEF IInv
<1> QED
  BY <1>1, TicketInvariant, PTL

(***************************************************************************)
(* The list of a ticket is unique by pool and fits the array it is packed  *)
(* into, whatever was added to it, emptied and taken out before.           *)
(***************************************************************************)
THEOREM DepositsStayUnique == Spec => []DepositsUniqueAndBounded
<1>1. IInv => DepositsUniqueAndBounded
  BY DEF IInv
<1> QED
  BY <1>1, TicketInvariant, PTL

(***************************************************************************)
(* No entry gets ahead of its pool: a ticket can never be locked by the    *)
(* subtraction of refresh_deposit_unclaimed.                               *)
(***************************************************************************)
THEOREM EntriesStayBehind == Spec => []EntriesBehindPools
<1>1. IInv => EntriesBehindPools
  BY DEF IInv
<1> QED
  BY <1>1, TicketInvariant, PTL

(***************************************************************************)
(* Credit                                                                  *)
(*                                                                         *)
(* That nothing is credited twice is not inductive: it does not say how    *)
(* far what was credited reaches.  The inductive invariant keeps a level   *)
(* for each pool: what was credited so far is covered by the part of each  *)
(* index below its level, times the peak, and the level is no higher than  *)
(* the index of the pool and than that of its entry, if it has one.  A     *)
(* refresh lifts the levels of the entries to their pools and credits at   *)
(* most what it lifts; nothing else moves a level.                         *)
(***************************************************************************)
MiningIndexOf(pl, r) == pl[r].l_token_mining_index

Covered(pk, level) == SumFunctionOnSet([r \in Reserves |-> pk[r] * level[r]], Reserves)

Levelled(level) ==
  /\ \A r \in Reserves : level[r] <= MiningIndexOf(pool, r)
  /\ \A i \in DOMAIN ticket.deposits :
       level[ticket.deposits[i].deposit_reserve] <= ticket.deposits[i].index
  /\ ticket.unclaimed_mine <= Covered(peak, level)

CreditInv ==
  /\ \A i \in DOMAIN ticket.deposits :
       ticket.deposits[i].deposited_amount <= peak[ticket.deposits[i].deposit_reserve]
  /\ \E level \in [Reserves -> Nat] : Levelled(level)

\* More of any pool, and higher levels, cover more.
LEMMA CoveredGrows ==
  ASSUME NEW p \in [Reserves -> Nat], NEW q \in [Reserves -> Nat],
         NEW k \in [Reserves -> Nat], NEW l \in [Reserves -> Nat],
         \A r \in Reserves : p[r] <= q[r] /\ k[r] <= l[r]
  PROVE  /\ Covered(p, k) \in Nat /\ Covered(q, l) \in Nat
         /\ Covered(p, k) <= Covered(q, l)
<1> DEFINE f == [r \in Reserves |-> p[r] * k[r]]
           g == [r \in Reserves |-> q[r] * l[r]]
<1>1. ASSUME NEW r \in Reserves
      PROVE  f[r] \in Nat /\ g[r] \in Nat /\ f[r] <= g[r]
  <2>1. \A w, x, y, z \in Nat : w <= x /\ y <= z
          => w * y \in Nat /\ x * z \in Nat /\ w * y <= x * z
    BY Z3
  <2>2. p[r] \in Nat /\ q[r] \in Nat /\ k[r] \in Nat /\ l[r] \in Nat
    OBVIOUS
  <2> QED
    BY <2>1, <2>2
<1> HIDE DEF f, g
<1>2. IsFiniteSet(Reserves)
  BY LedgerAssumption
<1>3. SumFunctionOnSet(f, Reserves) \in Nat /\ SumFunctionOnSet(g, Reserves) \in Nat
  BY <1>1, <1>2, SumNatural
<1>4. SumFunctionOnSet(f, Reserves) <= SumFunctionOnSet(g, Reserves)
  BY <1>1, <1>2, SumLess
<1> QED
  BY <1>3, <1>4 DEF Covered, f, g

\* What the invariant says of the numbers.
LEMMA LedgerNumbers ==
  ASSUME IInv
  PROVE  /\ \A r \in Reserves : MiningIndexOf(pool, r) \in Nat
         /\ peak \in [Reserves -> Nat]
         /\ ticket.unclaimed_mine \in Nat
         /\ \A i \in DOMAIN ticket.deposits :
              LET e == ticket.deposits[i]
              IN  /\ e.deposit_reserve \in Reserves /\ e.index \in Nat
                  /\ e.deposited_amount \in Nat
                  /\ e.index <= MiningIndexOf(pool, e.deposit_reserve)
<1>1. \A r \in Reserves : pool[r] \in PoolRecord
  BY ListAndPools
<1>2. \A r \in Reserves : MiningIndexOf(pool, r) \in Nat
  BY <1>1, Widths DEF MiningIndexOf, PoolRecord
<1>3. peak \in [Reserves -> Nat]
  BY ListAndPools, Widths
<1>4. ticket.unclaimed_mine \in Nat
  BY ListAndPools, Widths DEF TicketRecord
<1>5. \A i \in DOMAIN ticket.deposits : ticket.deposits[i] \in TicketEntry
  BY ListAndPools
<1> QED
  BY <1>2, <1>3, <1>4, <1>5, ListAndPools, Widths
     DEF TicketEntry, TicketCollateral, Behind, MiningIndexOf

LEMMA NextLedgerNumbers ==
  ASSUME IInv'
  PROVE  /\ \A r \in Reserves : MiningIndexOf(pool', r) \in Nat
         /\ peak' \in [Reserves -> Nat]
         /\ ticket'.unclaimed_mine \in Nat
<1>1. pool' \in [Reserves -> PoolRecord] /\ ticket' \in TicketRecord(Reserves)
      /\ peak' \in [Reserves -> 0..MaxU64]
  BY DEF IInv, TypeOK
<1>2. \A r \in Reserves : pool'[r] \in PoolRecord
  BY <1>1
<1> QED
  BY <1>1, <1>2, Widths DEF MiningIndexOf, PoolRecord, TicketRecord

\* A step that credits nothing: every entry stands where one of its pool
\* stood, or where its pool stands.
LEMMA CreditKept ==
  ASSUME IInv, IInv', CreditInv,
         \A r \in Reserves : /\ peak[r] <= peak'[r]
                             /\ MiningIndexOf(pool, r) <= MiningIndexOf(pool', r),
         ticket'.unclaimed_mine \in {0, ticket.unclaimed_mine},
         NEW list, ticket'.deposits = list,
         \A i \in DOMAIN list :
           LET r == list[i].deposit_reserve
           IN  /\ list[i].deposited_amount <= peak'[r]
               /\ \/ \E j \in DOMAIN ticket.deposits :
                       /\ ticket.deposits[j].deposit_reserve = r
                       /\ ticket.deposits[j].index = list[i].index
                  \/ r \in Reserves /\ list[i].index = MiningIndexOf(pool, r)
  PROVE  CreditInv'
<1>1. PICK level \in [Reserves -> Nat] : Levelled(level)
  BY DEF CreditInv
<1>2. \A r \in Reserves : level[r] \in Nat /\ level[r] <= MiningIndexOf(pool, r)
  BY <1>1 DEF Levelled
<1>3. \A r \in Reserves : level[r] <= MiningIndexOf(pool', r)
  BY <1>2, LedgerNumbers, NextLedgerNumbers
<1>4. \A i \in DOMAIN list : level[list[i].deposit_reserve] <= list[i].index
  BY <1>1, <1>2 DEF Levelled
<1>5. Covered(peak, level) \in Nat /\ Covered(peak', level) \in Nat
      /\ Covered(peak, level) <= Covered(peak', level)
  BY <1>2, LedgerNumbers, NextLedgerNumbers, CoveredGrows
<1>6. ticket'.unclaimed_mine <= Covered(peak', level)
  BY <1>1, <1>5, LedgerNumbers DEF Levelled
<1>7. Levelled(level)'
  BY <1>3, <1>4, <1>6 DEF Levelled
<1> QED
  BY <1>7 DEF CreditInv

LEMMA DepositKeepsCredit ==
  ASSUME IInv, IInv', CreditInv, NEW i \in DOMAIN ticket.deposits, NEW n \in 0..MaxU64,
         Deposit(i, n)
  PROVE  CreditInv'
<1> DEFINE s == ticket.deposits
           r == s[i].deposit_reserve
           held == s[i].deposited_amount + n
           e == [s[i] EXCEPT !.deposited_amount = @ + n]
           list == [s EXCEPT ![i] = e]
<1>1. /\ s[i] \in TicketEntry /\ n \in Nat /\ s \in Seq(TicketEntry)
      /\ ticket \in TicketRecord(Reserves)
  BY ListAndPools, Widths
<1>2. /\ e.deposit_reserve = r /\ e.index = s[i].index /\ e.deposited_amount = held
  BY <1>1 DEF TicketEntry, TicketCollateral
<1>3. ticket' = [ticket EXCEPT !.deposits = list]
  BY DEF Deposit, DepositTo
<1>4. /\ peak' = [peak EXCEPT ![r] = IF held > @ THEN held ELSE @]
      /\ UNCHANGED <<slot, pool>>
  BY DEF Deposit
<1>5. ticket'.deposits = list /\ ticket'.unclaimed_mine = ticket.unclaimed_mine
  BY <1>1, <1>3 DEF TicketRecord
<1>6. DOMAIN list = DOMAIN s /\ \A j \in DOMAIN s : list[j] = IF j = i THEN e ELSE s[j]
  OBVIOUS
<1>7. r \in Reserves /\ held \in Nat
  BY <1>1, LedgerNumbers
<1>8. \A p \in Reserves : peak[p] \in Nat /\ peak[p] <= peak'[p]
  <2> HIDE DEF held, r
  <2> QED
    BY <1>4, <1>7, LedgerNumbers
<1>9. held <= peak'[r]
  <2> HIDE DEF held, r
  <2> QED
    BY <1>4, <1>7, LedgerNumbers
<1> HIDE DEF e, list, held
<1>10. ASSUME NEW j \in DOMAIN list
       PROVE  /\ list[j].deposited_amount <= peak'[list[j].deposit_reserve]
              /\ \E k \in DOMAIN s : /\ s[k].deposit_reserve = list[j].deposit_reserve
                                     /\ s[k].index = list[j].index
  <2>1. CASE j = i
    BY <1>2, <1>6, <1>9, <2>1
  <2>2. CASE j # i
    <3>1. list[j] = s[j] /\ j \in DOMAIN s
      BY <1>6, <2>2
    <3>2. s[j].deposited_amount <= peak[s[j].deposit_reserve]
          /\ s[j].deposit_reserve \in Reserves /\ s[j].deposited_amount \in Nat
      BY <3>1, LedgerNumbers DEF CreditInv
    <3>3. peak'[s[j].deposit_reserve] \in Nat
      BY <3>2, NextLedgerNumbers
    <3> HIDE DEF s
    <3> QED
      BY <1>8, <3>1, <3>2, <3>3
  <2> QED
    BY <2>1, <2>2
<1>11. \A p \in Reserves : MiningIndexOf(pool, p) <= MiningIndexOf(pool', p)
  BY <1>4, LedgerNumbers
<1> QED
  BY <1>5, <1>8, <1>10, <1>11, CreditKept

\* A list all of whose entries stand where entries of the last one stood,
\* for no more than was deposited there.
LEMMA CreditKeptByList ==
  ASSUME IInv, IInv', CreditInv,
         \A r \in Reserves : MiningIndexOf(pool, r) <= MiningIndexOf(pool', r),
         UNCHANGED peak, ticket'.unclaimed_mine \in {0, ticket.unclaimed_mine},
         \A i \in DOMAIN ticket'.deposits : \E j \in DOMAIN ticket.deposits :
           /\ ticket.deposits[j].deposit_reserve = ticket'.deposits[i].deposit_reserve
           /\ ticket.deposits[j].index = ticket'.deposits[i].index
           /\ ticket'.deposits[i].deposited_amount <= ticket.deposits[j].deposited_amount
           /\ ticket'.deposits[i].deposited_amount \in Int
  PROVE  CreditInv'
<1> DEFINE list == ticket'.deposits
<1>1. \A r \in Reserves : peak[r] <= peak'[r]
  BY LedgerNumbers
<1>2. ASSUME NEW i \in DOMAIN list
      PROVE  /\ list[i].deposited_amount <= peak'[list[i].deposit_reserve]
             /\ \E j \in DOMAIN ticket.deposits :
                  /\ ticket.deposits[j].deposit_reserve = list[i].deposit_reserve
                  /\ ticket.deposits[j].index = list[i].index
  <2>1. PICK j \in DOMAIN ticket.deposits :
           /\ ticket.deposits[j].deposit_reserve = list[i].deposit_reserve
           /\ ticket.deposits[j].index = list[i].index
           /\ list[i].deposited_amount <= ticket.deposits[j].deposited_amount
           /\ list[i].deposited_amount \in Int
    BY <1>2
  <2>2. /\ ticket.deposits[j].deposited_amount <= peak[ticket.deposits[j].deposit_reserve]
        /\ ticket.deposits[j].deposited_amount \in Nat
        /\ ticket.deposits[j].deposit_reserve \in Reserves
    BY LedgerNumbers DEF CreditInv
  <2>3. peak[ticket.deposits[j].deposit_reserve] \in Nat
    BY <2>2, LedgerNumbers
  <2> HIDE DEF list
  <2> QED
    BY <2>1, <2>2, <2>3
<1> HIDE DEF list
<1> QED
  BY <1>1, <1>2, CreditKept DEF list

LEMMA WithdrawKeepsCredit ==
  ASSUME IInv, IInv', CreditInv, NEW i \in DOMAIN ticket.deposits, NEW n \in 0..MaxU64,
         Withdraw(i, n)
  PROVE  CreditInv'
<1> DEFINE s == ticket.deposits
           e == [s[i] EXCEPT !.deposited_amount = @ - n]
<1>1. /\ s[i] \in TicketEntry /\ n \in Nat /\ s \in Seq(TicketEntry)
      /\ ticket \in TicketRecord(Reserves) /\ \A j \in DOMAIN s : s[j] \in TicketEntry
  BY ListAndPools, Widths
<1>2. /\ n <= s[i].deposited_amount /\ ticket' = WithdrawFrom(ticket, i, n)
      /\ UNCHANGED <<slot, pool, peak>>
  BY DEF Withdraw, CanWithdrawFrom
<1>3. \A j \in DOMAIN s : s[j].deposited_amount \in Nat
  BY LedgerNumbers
<1>4. ASSUME NEW list, ticket' = [ticket EXCEPT !.deposits = list],
             \A k \in DOMAIN list : \E j \in DOMAIN s :
               /\ s[j].deposit_reserve = list[k].deposit_reserve /\ s[j].index = list[k].index
               /\ list[k].deposited_amount <= s[j].deposited_amount
               /\ list[k].deposited_amount \in Int
      PROVE  CreditInv'
  <2>1. ticket'.deposits = list /\ ticket'.unclaimed_mine = ticket.unclaimed_mine
    BY <1>1, <1>4 DEF TicketRecord
  <2>2. \A r \in Reserves : MiningIndexOf(pool, r) <= MiningIndexOf(pool', r)
    BY <1>2, LedgerNumbers
  <2> QED
    BY <1>2, <1>4, <2>1, <2>2, CreditKeptByList
<1>5. CASE n = s[i].deposited_amount
  <2> DEFINE t == RemoveAt(s, i)
  <2>1. ticket' = [ticket EXCEPT !.deposits = t]
    BY <1>2, <1>5 DEF WithdrawFrom
  <2>2. \A k \in DOMAIN t : AfterRemoval(i, k) \in DOMAIN s /\ t[k] = s[AfterRemoval(i, k)]
    BY <1>1, RemovedElement
  <2> HIDE DEF t, s
  <2>3. \A k \in DOMAIN t : \E j \in DOMAIN s : t[k] = s[j]
    BY <2>2
  <2>4. \A k \in DOMAIN t : \E j \in DOMAIN s :
          /\ s[j].deposit_reserve = t[k].deposit_reserve /\ s[j].index = t[k].index
          /\ t[k].deposited_amount <= s[j].deposited_amount
          /\ t[k].deposited_amount \in Int
    <3> TAKE k \in DOMAIN t
    <3>1. PICK j \in DOMAIN s : t[k] = s[j]
      BY <2>3
    <3> QED
      BY <1>3, <3>1
  <2> QED
    BY <1>4, <2>1, <2>4
<1>6. CASE n # s[i].deposited_amount
  <2> DEFINE t == [s EXCEPT ![i] = e]
  <2>1. ticket' = [ticket EXCEPT !.deposits = t]
    BY <1>2, <1>6 DEF WithdrawFrom
  <2>2. DOMAIN t = DOMAIN s /\ \A j \in DOMAIN s : t[j] = IF j = i THEN e ELSE s[j]
    OBVIOUS
  <2>3. /\ e.deposit_reserve = s[i].deposit_reserve /\ e.index = s[i].index
        /\ e.deposited_amount = s[i].deposited_amount - n
    BY <1>1 DEF TicketEntry, TicketCollateral
  <2> HIDE DEF t, s, e
  <2>4. \A k \in DOMAIN t :
          /\ s[k].deposit_reserve = t[k].deposit_reserve /\ s[k].index = t[k].index
          /\ t[k].deposited_amount <= s[k].deposited_amount
          /\ t[k].deposited_amount \in Int
    BY <1>1, <1>2, <1>3, <2>2, <2>3
  <2> QED
    BY <1>4, <2>1, <2>2, <2>4
<1> QED
  BY <1>5, <1>6

LEMMA FindOrAddKeepsCredit ==
  ASSUME IInv, IInv', CreditInv, NEW r \in Reserves, FindOrAddCollateral(r)
  PROVE  CreditInv'
<1> DEFINE s == ticket.deposits
           e == NewCollateral(r, pool[r].l_token_mining_index)
           t == Append(s, e)
<1>1. /\ ticket' = FindOrAdd(ticket, r, pool[r].l_token_mining_index)
      /\ UNCHANGED <<slot, pool, peak>>
  BY DEF FindOrAddCollateral
<1>2. /\ s \in Seq(TicketEntry) /\ ticket \in TicketRecord(Reserves)
      /\ DOMAIN s = 1..Len(s) /\ Len(s) \in Nat
  BY ListAndPools
<1>3. \A p \in Reserves : MiningIndexOf(pool, p) <= MiningIndexOf(pool', p)
                          /\ peak[p] <= peak'[p] /\ peak[p] \in Nat
  BY <1>1, LedgerNumbers
<1>4. CASE Holds(ticket, r)
  <2>1. UNCHANGED ticket
    BY <1>1, <1>4 DEF FindOrAdd
  <2> QED
    BY <1>1, <1>3, <2>1, LedgerNumbers, CreditKeptByList
<1>5. CASE ~Holds(ticket, r)
  <2>1. ticket'.deposits = t /\ ticket'.unclaimed_mine = ticket.unclaimed_mine
    BY <1>1, <1>2, <1>5 DEF FindOrAdd, TicketRecord
  <2>2. /\ e.deposit_reserve = r /\ e.deposited_amount = 0
        /\ e.index = MiningIndexOf(pool, r)
    BY DEF NewCollateral, MiningIndexOf
  <2>3. e \in TicketEntry
    <3>1. pool[r].l_token_mining_index \in 0..MaxU128
      BY ListAndPools DEF PoolRecord
    <3> QED
      BY <3>1, Widths DEF TicketEntry, TicketCollateral, NewCollateral
  <2> HIDE DEF e
  <2>4. \A k \in DOMAIN t : (k \in DOMAIN s /\ t[k] = s[k]) \/ t[k] = e
    <3>1. /\ t \in Seq(TicketEntry) /\ Len(t) = Len(s) + 1
          /\ \A k \in 1..Len(s) : t[k] = s[k]
          /\ t[Len(s) + 1] = e
      BY <1>2, <2>3, AppendProperties
    <3> HIDE DEF t
    <3>2. DOMAIN t = 1..(Len(s) + 1)
      BY <3>1, LenProperties
    <3> QED
      BY <1>2, <3>1, <3>2
  <2> HIDE DEF t, s
  <2>5. ASSUME NEW k \in DOMAIN t
        PROVE  /\ t[k].deposited_amount <= peak'[t[k].deposit_reserve]
               /\ \/ \E j \in DOMAIN s : /\ s[j].deposit_reserve = t[k].deposit_reserve
                                          /\ s[j].index = t[k].index
                  \/ t[k].deposit_reserve \in Reserves
                     /\ t[k].index = MiningIndexOf(pool, t[k].deposit_reserve)
    <3>1. CASE k \in DOMAIN s /\ t[k] = s[k]
      <4>1. s[k].deposited_amount <= peak[s[k].deposit_reserve]
        BY <3>1 DEF CreditInv, s
      <4> QED
        BY <1>1, <3>1, <4>1
    <3>2. CASE t[k] = e
      BY <1>1, <1>3, <2>2, <3>2
    <3> QED
      BY <2>4, <3>1, <3>2
  <2> QED
    BY <1>3, <2>1, <2>5, CreditKept DEF s
<1> QED
  BY <1>4, <1>5

\* What an entry earns since it was credited last.
LEMMA EarnedAmount ==
  ASSUME IInv, NEW i \in DOMAIN ticket.deposits, Earned(pool, ticket.deposits[i]) # Err
  PROVE  LET e == ticket.deposits[i]
         IN  /\ e.deposit_reserve \in Reserves /\ e.deposited_amount \in Nat
             /\ MiningIndexOf(pool, e.deposit_reserve) - e.index \in Nat
             /\ Earned(pool, e)
                  = (MiningIndexOf(pool, e.deposit_reserve) - e.index) * e.deposited_amount
<1> DEFINE e == ticket.deposits[i]
           r == e.deposit_reserve
           lift == MiningIndexOf(pool, r) - e.index
<1>1. /\ r \in Reserves /\ e.index \in Nat /\ e.deposited_amount \in Nat
      /\ MiningIndexOf(pool, r) \in Nat /\ e.index <= MiningIndexOf(pool, r)
  BY LedgerNumbers
<1>2. TrySub(MiningIndexOf(pool, r), e.index, DecimalMax) # Err
      /\ Earned(pool, e) = Checked(TrySub(MiningIndexOf(pool, r), e.index, DecimalMax)
                                     * e.deposited_amount, DecimalMax)
  BY DEF Earned, TryMulInt, MiningIndexOf
<1>3. TrySub(MiningIndexOf(pool, r), e.index, DecimalMax) = lift
  BY <1>2 DEF TrySub, Checked
<1>4. Earned(pool, e) = lift * e.deposited_amount
  BY <1>2, <1>3 DEF Checked
<1> HIDE DEF e, r
<1>5. lift \in Nat
  BY <1>1
<1> QED
  BY <1>1, <1>4, <1>5 DEF e, r

\* What a refresh credits: the sum of what the entries earned.
LEMMA RefreshCredits ==
  ASSUME IInv, NEW reserves, RefreshTicket(reserves)
  PROVE  /\ ticket'.deposits = [i \in DOMAIN ticket.deposits
                                   |-> CreditedDeposit(pool, ticket.deposits[i])]
         /\ ticket'.unclaimed_mine
              = ticket.unclaimed_mine
                  + SumFunctionOnSet([i \in DOMAIN ticket.deposits
                                        |-> Earned(pool, ticket.deposits[i])],
                                     DOMAIN ticket.deposits)
         /\ \A i \in DOMAIN ticket.deposits : Earned(pool, ticket.deposits[i]) # Err
         /\ UNCHANGED <<slot, pool, peak>>
<1> DEFINE s == ticket.deposits
           f == [i \in DOMAIN s |-> Earned(pool, s[i])]
<1>1. /\ CanRefreshTicket(pool, ticket, reserves, slot)
      /\ ticket' = RefreshedTicket(pool, ticket, slot)
      /\ UNCHANGED <<slot, pool, peak>>
  BY DEF RefreshTicket
<1>2. /\ ticket'.deposits = [i \in DOMAIN s |-> CreditedDeposit(pool, s[i])]
      /\ ticket'.unclaimed_mine = UnclaimedMine(pool, ticket)
  BY <1>1, ListAndPools DEF RefreshedTicket, TicketRecord
<1>3. UnclaimedMine(pool, ticket) # Err
  BY <1>1 DEF CanRefreshTicket, ToScaledVal
<1>4. UnclaimedMine(pool, ticket) = SumOf(ticket.unclaimed_mine, f)
  BY DEF UnclaimedMine
<1>5. DOMAIN f = DOMAIN s
  OBVIOUS
<1> HIDE DEF f
<1>6. UnclaimedMine(pool, ticket) = ticket.unclaimed_mine + SumFunction(f)
  BY <1>3, <1>4 DEF SumOf, Checked
<1>7. \A i \in DOMAIN s : Earned(pool, s[i]) # Err
  BY <1>1 DEF CanRefreshTicket
<1> QED
  BY <1>1, <1>2, <1>5, <1>6, <1>7 DEF SumFunction, f

\* It is at most the peak times what the level of the entry is lifted.
LEMMA EarnedIsLifted ==
  ASSUME IInv, CreditInv, NEW i \in DOMAIN ticket.deposits, NEW l \in Nat,
         l <= ticket.deposits[i].index, Earned(pool, ticket.deposits[i]) # Err
  PROVE  LET e == ticket.deposits[i]
             r == e.deposit_reserve
         IN  /\ Earned(pool, e) \in Nat
             /\ Earned(pool, e) <= peak[r] * (MiningIndexOf(pool, r) - l)
<1> DEFINE e == ticket.deposits[i]
           r == e.deposit_reserve
           lift == MiningIndexOf(pool, r) - e.index
<1>1. /\ r \in Reserves /\ e.index \in Nat /\ e.deposited_amount \in Nat
      /\ MiningIndexOf(pool, r) \in Nat /\ e.index <= MiningIndexOf(pool, r)
      /\ peak[r] \in Nat /\ e.deposited_amount <= peak[r]
  BY LedgerNumbers DEF CreditInv
<1>2. Earned(pool, e) = lift * e.deposited_amount
  BY EarnedAmount
<1> HIDE DEF e, r
<1>3. lift \in Nat /\ lift <= MiningIndexOf(pool, r) - l /\ MiningIndexOf(pool, r) - l \in Nat
  BY <1>1 DEF e
<1> HIDE DEF lift
<1>4. \A w, x, y, z \in Nat : w <= x /\ y <= z => w * y \in Nat /\ w * y <= z * x
  BY Z3
<1> QED
  BY <1>1, <1>2, <1>3, <1>4 DEF e, r, lift

LEMMA RefreshKeepsCredit ==
  ASSUME IInv, IInv', CreditInv, NEW reserves, RefreshTicket(reserves)
  PROVE  CreditInv'
<1> DEFINE s == ticket.deposits
           t == [i \in DOMAIN s |-> CreditedDeposit(pool, s[i])]
           f == [i \in DOMAIN s |-> Earned(pool, s[i])]
           h == [i \in DOMAIN s |-> s[i].deposit_reserve]
<1>1. UNCHANGED <<slot, pool, peak>>
  BY RefreshCredits
<1>2. /\ s \in Seq(TicketEntry) /\ \A i \in DOMAIN s : s[i] \in TicketEntry
      /\ ticket \in TicketRecord(Reserves) /\ IsFiniteSet(DOMAIN s) /\ Unique(s)
  BY ListAndPools, PositionsFinite
<1>3. ticket'.deposits = t
  BY RefreshCredits
<1>4. \A i \in DOMAIN s : /\ t[i].deposit_reserve = s[i].deposit_reserve
                          /\ t[i].deposited_amount = s[i].deposited_amount
                          /\ t[i].index = MiningIndexOf(pool, s[i].deposit_reserve)
  BY <1>2 DEF CreditedDeposit, TicketEntry, TicketCollateral, MiningIndexOf
<1>5. DOMAIN t = DOMAIN s
  OBVIOUS
<1>6. ticket'.unclaimed_mine = ticket.unclaimed_mine + SumFunctionOnSet(f, DOMAIN s)
  BY RefreshCredits
<1>7. \A i \in DOMAIN s : Earned(pool, s[i]) # Err
  BY RefreshCredits
<1>8. PICK level \in [Reserves -> Nat] : Levelled(level)
  BY DEF CreditInv
<1>9. PICK new \in [Reserves -> Nat] :
         new = [r \in Reserves |-> IF Holds(ticket, r) THEN MiningIndexOf(pool, r) ELSE level[r]]
  BY <1>8, LedgerNumbers
<1> DEFINE g == [r \in Reserves |-> peak[r] * (new[r] - level[r])]
<1>10. \A r \in Reserves : /\ new[r] \in Nat /\ level[r] \in Nat
                           /\ level[r] <= new[r] /\ new[r] <= MiningIndexOf(pool, r)
                           /\ Holds(ticket, r) => new[r] = MiningIndexOf(pool, r)
  BY <1>8, <1>9, LedgerNumbers DEF Levelled
<1>11. \A r \in Reserves : g[r] \in Nat
  <2>1. \A x, y \in Nat : x * y \in Nat
    BY Z3
  <2>2. \A r \in Reserves : new[r] - level[r] \in Nat /\ peak[r] \in Nat
    BY <1>10, LedgerNumbers
  <2> QED
    BY <2>1, <2>2
<1>12. ASSUME NEW i \in DOMAIN s
       PROVE  /\ f[i] \in Int /\ f[i] <= g[h[i]]
              /\ h[i] \in Reserves
  <2>1. s[i].deposit_reserve \in Reserves /\ Holds(ticket, s[i].deposit_reserve)
    BY LedgerNumbers DEF Holds
  <2>2. level[s[i].deposit_reserve] \in Nat /\ level[s[i].deposit_reserve] <= s[i].index
    BY <1>8, <2>1 DEF Levelled
  <2>3. /\ Earned(pool, s[i]) \in Nat
        /\ Earned(pool, s[i]) <= peak[s[i].deposit_reserve]
               * (MiningIndexOf(pool, s[i].deposit_reserve) - level[s[i].deposit_reserve])
    BY <1>7, <2>2, EarnedIsLifted
  <2> QED
    BY <1>10, <2>1, <2>3
<1>13. \A i, j \in DOMAIN s : h[i] = h[j] => i = j
  BY <1>2 DEF Unique
<1> HIDE DEF f, g, h
<1>14. SumFunctionOnSet(f, DOMAIN s) <= SumFunctionOnSet(g, Reserves)
  BY <1>2, <1>11, <1>12, <1>13, SumInjection, LedgerAssumption
<1>15. Covered(peak, new) = Covered(peak, level) + SumFunctionOnSet(g, Reserves)
  <2> DEFINE k == [r \in Reserves |-> peak[r] * level[r]]
             m == [r \in Reserves |-> peak[r] * new[r]]
  <2>1. \A x, y, z \in Nat : y <= z => /\ x * y \in Int /\ x * z \in Int
                                       /\ x * z = x * y + x * (z - y)
    BY Z3
  <2>2. \A r \in Reserves : /\ peak[r] \in Nat /\ level[r] \in Nat /\ new[r] \in Nat
                            /\ level[r] <= new[r]
    BY <1>10, LedgerNumbers
  <2>3. \A r \in Reserves : g[r] = peak[r] * (new[r] - level[r]) /\ g[r] \in Int
    BY <1>11 DEF g
  <2>4. \A r \in Reserves : k[r] \in Int /\ g[r] \in Int /\ m[r] = k[r] + g[r]
    BY <2>1, <2>2, <2>3
  <2> HIDE DEF k, m
  <2>5. SumFunctionOnSet(m, Reserves)
          = SumFunctionOnSet(k, Reserves) + SumFunctionOnSet(g, Reserves)
    BY <2>4, SumPlus, LedgerAssumption
  <2> QED
    BY <2>5 DEF Covered, k, m
<1>16. ticket'.unclaimed_mine <= Covered(peak', new)
  <2>1. ticket.unclaimed_mine \in Nat /\ ticket.unclaimed_mine <= Covered(peak, level)
    BY <1>8, LedgerNumbers DEF Levelled
  <2>2. Covered(peak, level) \in Nat
    BY LedgerNumbers, CoveredGrows
  <2>3. SumFunctionOnSet(f, DOMAIN s) \in Int
    BY <1>2, <1>12, SumType
  <2>4. SumFunctionOnSet(g, Reserves) \in Int
    BY <1>11, SumNatural, LedgerAssumption
  <2>5. peak' = peak
    BY <1>1
  <2> QED
    BY <1>6, <1>14, <1>15, <2>1, <2>2, <2>3, <2>4, <2>5
<1>17. Levelled(new)'
  <2>1. \A r \in Reserves : new[r] <= MiningIndexOf(pool', r)
    BY <1>1, <1>10
  <2>2. ASSUME NEW i \in DOMAIN t PROVE new[t[i].deposit_reserve] <= t[i].index
    BY <1>4, <1>5, <1>10, LedgerNumbers
  <2> HIDE DEF t
  <2> QED
    BY <1>3, <1>16, <2>1, <2>2 DEF Levelled
<1>18. ASSUME NEW i \in DOMAIN t
       PROVE  t[i].deposited_amount <= peak'[t[i].deposit_reserve]
  BY <1>1, <1>4, <1>5 DEF CreditInv
<1> HIDE DEF t
<1> QED
  BY <1>3, <1>17, <1>18 DEF CreditInv

LEMMA PoolStepKeepsCredit ==
  ASSUME IInv, IInv', CreditInv, UNCHANGED <<ticket, peak>>,
         \A r \in Reserves : MiningIndexOf(pool, r) <= MiningIndexOf(pool', r)
  PROVE  CreditInv'
<1>1. \A i \in DOMAIN ticket.deposits : ticket.deposits[i].deposited_amount \in Nat
  BY LedgerNumbers
<1> QED
  BY <1>1, CreditKeptByList

LEMMA NextKeepsCredit ==
  ASSUME IInv, CreditInv, [Next]_vars
  PROVE  CreditInv'
<1>0. IInv'
  BY NextKeepsIInv
<1>1. \A r \in Reserves : pool[r] \in PoolRecord /\ MiningIndexOf(pool, r) \in Nat
  BY ListAndPools, LedgerNumbers
<1>2. ASSUME UNCHANGED <<pool, ticket, peak>> PROVE CreditInv'
  BY <1>0, <1>1, <1>2, PoolStepKeepsCredit
<1>3. CASE UNCHANGED vars
  BY <1>2, <1>3 DEF vars
<1>4. CASE Tick
  BY <1>2, <1>4 DEF Tick
<1>5. ASSUME NEW r \in Reserves, NEW new, Stores(r, new),
             MiningIndexOf(pool, r) <= new.l_token_mining_index
      PROVE  CreditInv'
  <2>1. \A p \in Reserves : MiningIndexOf(pool, p) <= MiningIndexOf(pool', p)
    <3>1. pool' = [pool EXCEPT ![r] = new] /\ pool \in [Reserves -> PoolRecord]
      BY <1>5, ListAndPools DEF Stores
    <3>2. \A p \in Reserves : MiningIndexOf(pool', p)
                = IF p = r THEN new.l_token_mining_index ELSE MiningIndexOf(pool, p)
      BY <3>1 DEF MiningIndexOf
    <3> QED
      BY <1>1, <1>5, <3>2
  <2> QED
    BY <1>0, <1>5, <2>1, PoolStepKeepsCredit DEF Stores
<1>6. ASSUME NEW r \in Reserves, RefreshPool(r) PROVE CreditInv'
  <2> DEFINE new == UpdateSlot(RefreshIndex(pool[r], slot), slot)
  <2>1. CanRefreshIndex(pool[r], slot) /\ Stores(r, new) /\ CanPack(new) /\ slot \in Nat
    BY <1>6, ListAndPools DEF RefreshPool, Stores
  <2>2. MiningIndexOf(pool, r) <= new.l_token_mining_index
    BY <1>1, <2>1, RefreshedPool DEF MiningIndexOf
  <2> HIDE DEF new
  <2> QED
    BY <1>5, <2>1, <2>2
<1>7. ASSUME NEW c \in SupplyChanges, Supplied(c[1], c[2]) PROVE CreditInv'
  <2> DEFINE new == MarkStale(DepositLiquidity(pool[c[1]], c[2]))
  <2>1. c[1] \in Reserves /\ c[2] \in 0..MaxU64 /\ pool[c[1]] \in PoolRecord
    BY <1>1, LedgerAssumption
  <2>2. CanDeposit(pool[c[1]], c[2]) /\ Stores(c[1], new)
    BY <1>7 DEF Supplied
  <2>3. new.l_token_mining_index = MiningIndexOf(pool, c[1])
    BY <2>1, <2>2, SuppliedPool DEF MiningIndexOf
  <2> HIDE DEF new
  <2> QED
    BY <1>1, <1>5, <2>1, <2>2, <2>3
<1>8. ASSUME NEW c \in SupplyChanges, Redeemed(c[1], c[2]) PROVE CreditInv'
  <2> DEFINE new == MarkStale(RedeemCollateral(pool[c[1]], c[2]))
  <2>1. c[1] \in Reserves /\ c[2] \in 0..MaxU64 /\ pool[c[1]] \in PoolRecord
    BY <1>1, LedgerAssumption
  <2>2. CanRedeem(pool[c[1]], c[2]) /\ Stores(c[1], new)
    BY <1>8 DEF Redeemed
  <2>3. new.l_token_mining_index = MiningIndexOf(pool, c[1])
    BY <2>1, <2>2, RedeemedPool DEF MiningIndexOf
  <2> HIDE DEF new
  <2> QED
    BY <1>1, <1>5, <2>1, <2>2, <2>3
<1>9. CASE InitTicket
  <2>1. /\ ticket'.deposits = << >> /\ ticket'.unclaimed_mine = 0 /\ DOMAIN << >> = {}
        /\ UNCHANGED <<slot, pool, peak>>
    BY <1>9 DEF InitTicket, NewTicket, UninitializedTicket
  <2>2. \A r \in Reserves : peak[r] <= peak'[r]
    BY <2>1, LedgerNumbers
  <2> QED
    BY <1>0, <1>1, <2>1, <2>2, CreditKept
<1>10. \A n \in TicketAmounts : n \in 0..MaxU64
  BY LedgerAssumption
<1> QED
  BY <1>0, <1>3, <1>4, <1>6, <1>7, <1>8, <1>9, <1>10, RefreshKeepsCredit,
     FindOrAddKeepsCredit, DepositKeepsCredit, WithdrawKeepsCredit DEF Next

LEMMA InitCredit == Init => CreditInv
<1> SUFFICES ASSUME Init PROVE CreditInv
  OBVIOUS
<1> DEFINE level == [r \in Reserves |-> 0]
<1>1. ticket.deposits = << >> /\ DOMAIN << >> = {} /\ ticket.unclaimed_mine = 0
  BY DEF Init, UninitializedTicket
<1>2. IInv
  BY InitEstablishesIInv
<1>3. level \in [Reserves -> Nat] /\ \A r \in Reserves : level[r] <= MiningIndexOf(pool, r)
  BY <1>2, LedgerNumbers
<1>4. Covered(peak, level) \in Nat
  BY <1>2, <1>3, LedgerNumbers, CoveredGrows
<1> HIDE DEF level
<1>5. Levelled(level)
  BY <1>1, <1>3, <1>4 DEF Levelled
<1> QED
  BY <1>1, <1>3, <1>5 DEF CreditInv

(***************************************************************************)
(* No stretch of a mining index is credited twice, whatever the order in   *)
(* which entries are added, changed, refreshed, dropped and added again.   *)
(***************************************************************************)
THEOREM CreditIsGivenOnce == Spec => []CreditedOnce
<1>1. ASSUME IInv, CreditInv PROVE CreditedOnce
  <2>1. PICK level \in [Reserves -> Nat] : Levelled(level)
    BY <1>1 DEF CreditInv
  <2> DEFINE top == [r \in Reserves |-> MiningIndexOf(pool, r)]
             f == [r \in Reserves |-> peak[r] * pool[r].l_token_mining_index]
  <2>2. top \in [Reserves -> Nat] /\ \A r \in Reserves : level[r] <= top[r]
    BY <1>1, <2>1, LedgerNumbers DEF Levelled
  <2>3. Covered(peak, top) = SumFunction(f)
    <3>1. [r \in Reserves |-> peak[r] * top[r]] = f
      BY DEF MiningIndexOf
    <3>2. DOMAIN f = Reserves
      OBVIOUS
    <3> HIDE DEF f, top
    <3> QED
      BY <3>1, <3>2 DEF Covered, SumFunction
  <2> HIDE DEF top
  <2>4. Covered(peak, level) \in Nat /\ Covered(peak, top) \in Nat
        /\ Covered(peak, level) <= Covered(peak, top)
    BY <1>1, <2>2, LedgerNumbers, CoveredGrows
  <2> QED
    BY <1>1, <2>1, <2>3, <2>4, LedgerNumbers DEF Levelled, CreditedOnce
<1>2. Spec => []CreditInv
  BY InitCredit, TicketInvariant, NextKeepsCredit, PTL DEF Spec
<1> QED
  BY <1>1, <1>2, TicketInvariant, PTL

=============================================================================
