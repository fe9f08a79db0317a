---------------------------- MODULE HolderProofs ----------------------------
(***************************************************************************)
(* Both accounts of a holder, for any pools, amounts and widths.           *)
(*                                                                         *)
(* The list of a mining account keeps what the list of a ticket keeps: its *)
(* entries are unique by pool and fit the account.  Uniqueness is also     *)
(* what makes the position that find_mining_index returns the only one for *)
(* its pool, so the entry that is credited, changed or dropped is the one  *)
(* the caller meant.  Such a position stays the one of its pool until a    *)
(* withdrawal empties an entry at it or in front of it.                    *)
(*                                                                         *)
(* Together the two accounts implement EagerMining: what a holder is owed  *)
(* is what it was credited and what is still due on its entries.           *)
(***************************************************************************)
EXTENDS HolderMining, TicketProofs

MiningEntry == MiningIndex(Reserves)

UniqueMining(s) ==
  \A i, j \in DOMAIN s : s[i].reserve = s[j].reserve => i = j

\* The ticket and the pools keep what TicketProofs shows of them.
HolderInvariant ==
  IInv /\ mining \in MiningRecord(Reserves) /\ MiningUniqueAndBounded

(***************************************************************************)
(* Lists of mining entries                                                 *)
(***************************************************************************)
LEMMA MiningList ==
  ASSUME NEW mg \in MiningRecord(Reserves)
  PROVE  /\ mg.mining_indices \in Seq(MiningEntry)
         /\ DOMAIN mg.mining_indices = 1..Len(mg.mining_indices)
         /\ Len(mg.mining_indices) \in Nat
         /\ \A i \in DOMAIN mg.mining_indices : mg.mining_indices[i] \in MiningEntry
<1>1. mg.mining_indices \in Seq(MiningEntry)
  BY DEF MiningRecord, MiningEntry
<1> QED
  BY <1>1, LenProperties, ElementOfSeq

\* A list that is replaced in a stored account.
LEMMA StoredList ==
  ASSUME HolderInvariant, NEW mg, NEW list \in Seq(MiningEntry), StoresMining(mg),
         mg = [mining EXCEPT !.mining_indices = list],
         Len(list) <= MaxMiningVolume, UniqueMining(list)
  PROVE  HolderInvariant'
<1>1. mining \in MiningRecord(Reserves) /\ mining' = mg /\ UNCHANGED vars
  BY DEF HolderInvariant, StoresMining
<1>2. mg \in MiningRecord(Reserves) /\ mg.mining_indices = list
  BY <1>1 DEF MiningRecord, MiningEntry
<1>3. IInv'
  BY <1>1, NextKeepsIInv DEF HolderInvariant
<1>4. MiningUniqueAndBounded'
  BY <1>1, <1>2 DEF MiningUniqueAndBounded, UniqueMining
<1> QED
  BY <1>1, <1>2, <1>3, <1>4 DEF HolderInvariant

\* An entry changed in place keeps its pool.
LEMMA ChangedMiningEntry ==
  ASSUME NEW s \in Seq(MiningEntry), NEW i \in DOMAIN s, NEW e \in MiningEntry,
         UniqueMining(s), e.reserve = s[i].reserve
  PROVE  LET t == [s EXCEPT ![i] = e]
         IN  t \in Seq(MiningEntry) /\ Len(t) = Len(s) /\ UniqueMining(t)
<1> DEFINE t == [s EXCEPT ![i] = e]
<1>1. DOMAIN s = 1..Len(s) /\ Len(s) \in Nat
  BY LenProperties
<1>2. t \in Seq(MiningEntry) /\ Len(t) = Len(s)
      /\ \A j \in 1..Len(s) : t[j] = IF j = i THEN e ELSE s[j]
  BY <1>1, ExceptSeq
<1>3. DOMAIN t = DOMAIN s
  OBVIOUS
<1> HIDE DEF t
<1>4. \A j \in DOMAIN t : t[j].reserve = s[j].reserve
  BY <1>1, <1>2, <1>3
<1>5. UniqueMining(t)
  BY <1>3, <1>4 DEF UniqueMining
<1> QED
  BY <1>2, <1>5 DEF t

LEMMA AddedMiningEntry ==
  ASSUME NEW s \in Seq(MiningEntry), NEW e \in MiningEntry, UniqueMining(s),
         \A i \in DOMAIN s : s[i].reserve # e.reserve
  PROVE  LET t == Append(s, e)
         IN  t \in Seq(MiningEntry) /\ Len(t) = Len(s) + 1 /\ UniqueMining(t)
<1> DEFINE t == Append(s, e)
<1>1. /\ t \in Seq(MiningEntry) /\ Len(t) = Len(s) + 1
      /\ \A i \in 1..Len(s) : t[i] = s[i]
      /\ t[Len(s) + 1] = e
  BY AppendProperties
<1>2. DOMAIN t = 1..Len(t) /\ DOMAIN s = 1..Len(s) /\ Len(s) \in Nat
  BY <1>1, LenProperties
<1> HIDE DEF t
<1>3. \A i \in DOMAIN t : i \in DOMAIN s \/ i = Len(s) + 1
  BY <1>1, <1>2
<1>4. UniqueMining(t)
  BY <1>1, <1>2, <1>3 DEF UniqueMining
<1> QED
  BY <1>1, <1>4 DEF t

LEMMA RemovedMiningEntry ==
  ASSUME NEW s \in Seq(MiningEntry), NEW i \in DOMAIN s, UniqueMining(s)
  PROVE  LET t == RemoveAt(s, i)
         IN  t \in Seq(MiningEntry) /\ Len(t) = Len(s) - 1 /\ UniqueMining(t)
<1> DEFINE t == RemoveAt(s, i)
<1>1. /\ t \in Seq(MiningEntry) /\ Len(t) = Len(s) - 1
      /\ \A j \in DOMAIN t : AfterRemoval(i, j) \in DOMAIN s /\ t[j] = s[AfterRemoval(i, j)]
      /\ \A j, k \in DOMAIN t : AfterRemoval(i, j) = AfterRemoval(i, k) => j = k
  BY RemovedElement
<1> HIDE DEF t
<1>2. UniqueMining(t)
  BY <1>1 DEF UniqueMining
<1> QED
  BY <1>1, <1>2 DEF t

\* In a list that is unique by pool, find_mining_index finds the entry of
\* the pool it is asked for.
LEMMA FoundEntry ==
  ASSUME NEW mg \in MiningRecord(Reserves), UniqueMining(mg.mining_indices),
         NEW r, FindMiningIndex(mg, r) # Err
  PROVE  /\ FindMiningIndex(mg, r) \in DOMAIN mg.mining_indices
         /\ mg.mining_indices[FindMiningIndex(mg, r)].reserve = r
<1> DEFINE s == mg.mining_indices
           I == {i \in 1..Len(s) : s[i].reserve = r}
<1>1. DOMAIN s = 1..Len(s) /\ Len(s) \in Nat
  BY MiningList
<1>2. Lists(mg, r)
  BY DEF FindMiningIndex
<1>3. PICK k \in DOMAIN s : s[k].reserve = r
  BY <1>2 DEF Lists
<1>4. k \in I /\ \A j \in I : k = j
  BY <1>1, <1>3 DEF UniqueMining
<1>5. FindMiningIndex(mg, r) = IF I # {} THEN Min(I) ELSE 0
  BY <1>2 DEF FindMiningIndex, SelectInSeq
<1>6. k \in Nat /\ \A j \in I : k <= j
  BY <1>1, <1>4
<1> HIDE DEF I
<1>7. Min(I) \in I
  BY <1>4, <1>6 DEF Min
<1>8. FindMiningIndex(mg, r) = k
  BY <1>4, <1>5, <1>7
<1> QED
  BY <1>3, <1>8

-----------------------------------------------------------------------------
\* What the invariant says of the account.
LEMMA StoredMining ==
  ASSUME HolderInvariant
  PROVE  /\ mining \in MiningRecord(Reserves)
         /\ mining.mining_indices \in Seq(MiningEntry)
         /\ Len(mining.mining_indices) \in Nat
         /\ Len(mining.mining_indices) <= MaxMiningVolume
         /\ \A i \in DOMAIN mining.mining_indices : mining.mining_indices[i] \in MiningEntry
         /\ UniqueMining(mining.mining_indices)
         /\ pool \in [Reserves -> PoolRecord]
<1>1. mining \in MiningRecord(Reserves) /\ IInv /\ MiningUniqueAndBounded
  BY DEF HolderInvariant
<1> QED
  BY <1>1, MiningList, ListAndPools DEF MiningUniqueAndBounded, UniqueMining

LEMMA TicketNextKeeps ==
  ASSUME HolderInvariant, TicketNext
  PROVE  HolderInvariant'
<1>1. Next /\ UNCHANGED mining
  BY DEF TicketNext, Next
<1>2. IInv'
  BY <1>1, NextKeepsIInv DEF HolderInvariant
<1> QED
  BY <1>1, <1>2 DEF HolderInvariant, MiningUniqueAndBounded

LEMMA InitMiningKeeps ==
  ASSUME HolderInvariant, InitMining
  PROVE  HolderInvariant'
<1>1. mining' = NewMining(<< >>) /\ UNCHANGED vars
  BY DEF InitMining, StoresMining
<1>2. << >> \in Seq(MiningIndex(Reserves)) /\ Len(<< >>) = 0 /\ DOMAIN << >> = {}
  OBVIOUS
<1>3. mining' \in MiningRecord(Reserves)
  <2>1. \A none \in Seq(MiningIndex(Reserves)) :
          [ version |-> 1, mining_indices |-> none, unclaimed_mine |-> 0 ]
            \in MiningRecord(Reserves)
    BY Widths DEF MiningRecord
  <2> QED
    BY <1>1, <1>2, <2>1 DEF NewMining
<1>4. mining.mining_indices' = << >>
  BY <1>1 DEF NewMining
<1>5. MiningUniqueAndBounded'
  BY <1>2, <1>4, HolderAssumption DEF MiningUniqueAndBounded
<1>6. IInv'
  BY <1>1, NextKeepsIInv DEF HolderInvariant
<1> QED
  BY <1>3, <1>5, <1>6 DEF HolderInvariant

LEMMA AddReserveKeeps ==
  ASSUME HolderInvariant, NEW r \in Reserves, AddReserve(r)
  PROVE  HolderInvariant'
<1> DEFINE s == mining.mining_indices
           e == NewMiningIndex(r, pool[r].l_token_mining_index)
           mg == FindOrAddReserve(mining, r, pool[r].l_token_mining_index)
<1> USE StoredMining
<1>1. StoresMining(mg) /\ CanFindOrAddReserve(mining, r)
  BY DEF AddReserve
<1>2. CASE Lists(mining, r)
  <2>1. mg = mining
    BY <1>2 DEF FindOrAddReserve
  <2>2. mining = [mining EXCEPT !.mining_indices = s]
    BY DEF MiningRecord
  <2> HIDE DEF mg, s
  <2> QED
    BY <1>1, <2>1, <2>2, StoredList DEF s
<1>3. CASE ~Lists(mining, r)
  <2>1. mg = [mining EXCEPT !.mining_indices = Append(s, e)] /\ Len(s) < MaxMiningVolume
    BY <1>1, <1>3 DEF FindOrAddReserve, CanFindOrAddReserve
  <2>2. pool[r].l_token_mining_index \in 0..MaxU128
    BY DEF PoolRecord
  <2>3. e \in MiningEntry /\ e.reserve = r
    BY <2>2, Widths DEF MiningEntry, MiningIndex, NewMiningIndex
  <2>4. \A i \in DOMAIN s : s[i].reserve # r
    BY <1>3 DEF Lists
  <2> DEFINE list == Append(s, e)
  <2> HIDE DEF e, mg
  <2>5. list \in Seq(MiningEntry) /\ Len(list) = Len(s) + 1 /\ UniqueMining(list)
    BY <2>3, <2>4, AddedMiningEntry
  <2>6. Len(list) <= MaxMiningVolume
    BY <2>1, <2>5, HolderAssumption
  <2> HIDE DEF list
  <2> QED
    BY <1>1, <2>1, <2>5, <2>6, StoredList DEF list
<1> QED
  BY <1>2, <1>3

LEMMA CreditMiningKeeps ==
  ASSUME HolderInvariant, NEW r \in Reserves, CreditMining(r)
  PROVE  HolderInvariant'
<1> DEFINE s == mining.mining_indices
           i == Entry(r)
           l == pool[r].l_token_mining_index
           e == [s[i] EXCEPT !.index = l]
           u == mining.unclaimed_mine + MineSince(s[i], pool[r])
           mg == RefreshUnclaimed(mining, i, pool[r])
<1> USE StoredMining
<1>1. i \in DOMAIN s /\ s[i] \in MiningEntry
  BY FoundEntry DEF CreditMining, Entry
<1>2. mining' = mg /\ UNCHANGED vars /\ CanPackMining(mg)
  BY DEF CreditMining, StoresMining
<1>3. l \in 0..MaxU128
  BY DEF PoolRecord
<1>4. e \in MiningEntry /\ e.reserve = s[i].reserve
  BY <1>1, <1>3 DEF MiningEntry, MiningIndex
<1>5. mg = [mining EXCEPT !.unclaimed_mine = u, !.mining_indices = [s EXCEPT ![i] = e]]
  BY DEF RefreshUnclaimed
<1> DEFINE list == [s EXCEPT ![i] = e]
<1> HIDE DEF e, i, u, mg
<1>6. list \in Seq(MiningEntry) /\ Len(list) = Len(s) /\ UniqueMining(list)
  BY <1>1, <1>4, ChangedMiningEntry
<1>7. mg = [mining EXCEPT !.unclaimed_mine = u, !.mining_indices = list]
  BY <1>5
<1> HIDE DEF list
<1>8. mg.unclaimed_mine = u /\ mg.mining_indices = list
  BY <1>7 DEF MiningRecord
<1>9. u \in 0..MaxU128
  BY <1>2, <1>8, ScaledFits DEF CanPackMining
<1>10. mg \in MiningRecord(Reserves)
  BY <1>6, <1>7, <1>9 DEF MiningRecord, MiningEntry
<1>11. MiningUniqueAndBounded'
  BY <1>2, <1>6, <1>8 DEF MiningUniqueAndBounded, UniqueMining
<1>12. IInv'
  BY <1>2, NextKeepsIInv DEF HolderInvariant
<1> QED
  BY <1>2, <1>10, <1>11, <1>12 DEF HolderInvariant

LEMMA AcquireKeeps ==
  ASSUME HolderInvariant, NEW r \in Reserves, NEW n \in 0..MaxU64, Acquire(r, n)
  PROVE  HolderInvariant'
<1> DEFINE s == mining.mining_indices
           i == Entry(r)
           e == [s[i] EXCEPT !.un_coll_l_token_amount = @ + n]
           mg == DepositMining(mining, i, n)
<1> USE StoredMining
<1>1. i \in DOMAIN s /\ s[i] \in MiningEntry
  BY FoundEntry DEF Acquire, Entry
<1>2. StoresMining(mg) /\ s[i].un_coll_l_token_amount + n <= MaxU64
  BY DEF Acquire, CanDepositMining
<1>3. s[i].un_coll_l_token_amount \in 0..MaxU64
  BY <1>1 DEF MiningEntry, MiningIndex
<1>4. s[i].un_coll_l_token_amount + n \in 0..MaxU64
  BY <1>2, <1>3, Widths
<1>5. e \in MiningEntry /\ e.reserve = s[i].reserve
  BY <1>1, <1>4 DEF MiningEntry, MiningIndex
<1>6. mg = [mining EXCEPT !.mining_indices = [s EXCEPT ![i] = e]]
  BY DEF DepositMining
<1> DEFINE list == [s EXCEPT ![i] = e]
<1> HIDE DEF e, i, mg
<1>7. list \in Seq(MiningEntry) /\ Len(list) = Len(s) /\ UniqueMining(list)
  BY <1>1, <1>5, ChangedMiningEntry
<1>8. mg = [mining EXCEPT !.mining_indices = list]
  BY <1>6
<1> HIDE DEF list
<1> QED
  BY <1>2, <1>7, <1>8, StoredList

LEMMA PartWithKeeps ==
  ASSUME HolderInvariant, NEW r \in Reserves, NEW n \in 0..MaxU64, PartWith(r, n)
  PROVE  HolderInvariant'
<1> DEFINE s == mining.mining_indices
           i == Entry(r)
           e == [s[i] EXCEPT !.un_coll_l_token_amount = @ - n]
           mg == WithdrawMining(mining, i, n)
<1> USE StoredMining
<1>1. i \in DOMAIN s /\ s[i] \in MiningEntry
  BY FoundEntry DEF PartWith, Entry
<1>2. StoresMining(mg) /\ n <= s[i].un_coll_l_token_amount
  BY DEF PartWith, CanWithdrawMining
<1>3. ASSUME NEW list \in Seq(MiningEntry), mg = [mining EXCEPT !.mining_indices = list],
             Len(list) <= Len(s), UniqueMining(list)
      PROVE  HolderInvariant'
  <2>1. Len(list) \in Nat /\ Len(list) <= MaxMiningVolume
    BY <1>3, LenProperties, HolderAssumption
  <2> HIDE DEF mg
  <2> QED
    BY <1>2, <1>3, <2>1, StoredList
<1>4. CASE n = s[i].un_coll_l_token_amount
  <2> DEFINE list == RemoveAt(s, i)
  <2>1. mg = [mining EXCEPT !.mining_indices = list]
    BY <1>4 DEF WithdrawMining
  <2> HIDE DEF i, mg
  <2>2. list \in Seq(MiningEntry) /\ Len(list) = Len(s) - 1 /\ UniqueMining(list)
    BY <1>1, RemovedMiningEntry
  <2> HIDE DEF list
  <2> QED
    BY <1>3, <2>1, <2>2
<1>5. CASE n # s[i].un_coll_l_token_amount
  <2> DEFINE list == [s EXCEPT ![i] = e]
  <2>1. mg = [mining EXCEPT !.mining_indices = list]
    BY <1>5 DEF WithdrawMining
  <2>2. s[i].un_coll_l_token_amount \in 0..MaxU64
    BY <1>1 DEF MiningEntry, MiningIndex
  <2>3. s[i].un_coll_l_token_amount - n \in 0..MaxU64
    BY <1>2, <2>2, Widths
  <2>4. e \in MiningEntry /\ e.reserve = s[i].reserve
    BY <1>1, <2>3 DEF MiningEntry, MiningIndex
  <2> HIDE DEF e, i, mg
  <2>5. list \in Seq(MiningEntry) /\ Len(list) = Len(s) /\ UniqueMining(list)
    BY <1>1, <2>4, ChangedMiningEntry
  <2> HIDE DEF list
  <2> QED
    BY <1>3, <2>1, <2>5
<1> QED
  BY <1>4, <1>5

(***************************************************************************)
(* Theorems                                                                *)
(***************************************************************************)
LEMMA HolderInitHolds == HolderInit => HolderInvariant
<1> SUFFICES ASSUME HolderInit PROVE HolderInvariant
  OBVIOUS
<1>1. << >> \in Seq(MiningIndex(Reserves)) /\ Len(<< >>) = 0 /\ DOMAIN << >> = {}
  OBVIOUS
<1>2. mining \in MiningRecord(Reserves)
  <2>1. \A none \in Seq(MiningIndex(Reserves)) :
          [ version |-> 0, mining_indices |-> none, unclaimed_mine |-> 0 ]
            \in MiningRecord(Reserves)
    BY Widths DEF MiningRecord
  <2> QED
    BY <1>1, <2>1 DEF HolderInit, UninitializedMining
<1>3. mining.mining_indices = << >>
  BY DEF HolderInit, UninitializedMining
<1>4. MiningUniqueAndBounded
  BY <1>1, <1>3, HolderAssumption DEF MiningUniqueAndBounded
<1>5. IInv
  BY InitEstablishesIInv DEF HolderInit
<1> QED
  BY <1>2, <1>4, <1>5 DEF HolderInvariant

LEMMA HolderNextKeeps == HolderInvariant /\ [HolderNext]_holderVars => HolderInvariant'
<1> SUFFICES ASSUME HolderInvariant, [HolderNext]_holderVars PROVE HolderInvariant'
  OBVIOUS
<1>1. CASE UNCHANGED holderVars
  <2>1. UNCHANGED vars /\ UNCHANGED mining
    BY <1>1 DEF holderVars
  <2>2. IInv'
    BY <2>1, NextKeepsIInv DEF HolderInvariant
  <2> QED
    BY <2>1, <2>2 DEF HolderInvariant, MiningUniqueAndBounded
<1>2. \A n \in MiningAmounts : n \in 0..MaxU64
  BY HolderAssumption
<1> QED
  BY <1>1, <1>2, TicketNextKeeps, InitMiningKeeps, AddReserveKeeps, CreditMiningKeeps,
     AcquireKeeps, PartWithKeeps DEF HolderNext

LEMMA HolderSpecKeeps == HolderSpec => []HolderInvariant
  BY HolderInitHolds, HolderNextKeeps, PTL DEF HolderSpec

(***************************************************************************)
(* Every number of both accounts of a holder fits its field: no sequence   *)
(* of calls makes an account that pack cannot write.                       *)
(***************************************************************************)
THEOREM HolderTypes == HolderSpec => []HolderTypeOK
<1>1. HolderInvariant => HolderTypeOK
  BY DEF HolderInvariant, HolderTypeOK, IInv
<1> QED
  BY <1>1, HolderSpecKeeps, PTL

(***************************************************************************)
(* The list of a mining account is unique by pool and fits its account,    *)
(* whatever was added, credited, emptied and dropped before.               *)
(***************************************************************************)
THEOREM MiningStaysUnique == HolderSpec => []MiningUniqueAndBounded
<1>1. HolderInvariant => MiningUniqueAndBounded
  BY DEF HolderInvariant
<1> QED
  BY <1>1, HolderSpecKeeps, PTL

(***************************************************************************)
(* A mining account beside the ticket leaves the ticket its properties:    *)
(* no entry of the ticket gets ahead of its pool.                          *)
(***************************************************************************)
THEOREM HolderEntriesStayBehind == HolderSpec => []EntriesBehindPools
<1>1. HolderInvariant => EntriesBehindPools
  BY DEF HolderInvariant, IInv
<1> QED
  BY <1>1, HolderSpecKeeps, PTL

-----------------------------------------------------------------------------
(***************************************************************************)
(* The refinement of EagerMining                                           *)
(*                                                                         *)
(* Both accounts are lists of slices: a pool, an amount of it, and the     *)
(* index up to which the amount was credited.  What is held of a pool and  *)
(* what is still due are sums over the slices of a list.                   *)
(***************************************************************************)
Slice == [ reserve : Reserves, amount : Nat, index : Nat ]

HeldTerm(e, r) == IF e.reserve = r THEN e.amount ELSE 0

DueTerm(e, at) == e.amount * (at[e.reserve] - e.index)

HeldTerms(s, r) == [i \in DOMAIN s |-> HeldTerm(s[i], r)]

DueTerms(s, at) == [i \in DOMAIN s |-> DueTerm(s[i], at)]

Held(s, r) == SumFunctionOnSet(HeldTerms(s, r), DOMAIN s)

Due(s, at) == SumFunctionOnSet(DueTerms(s, at), DOMAIN s)

\* The terms are numbers.
LEMMA SliceTerm ==
  ASSUME NEW e \in Slice, NEW at \in [Reserves -> Nat], NEW r
  PROVE  HeldTerm(e, r) \in Nat /\ DueTerm(e, at) \in Int
<1>1. e.reserve \in Reserves /\ e.amount \in Nat /\ e.index \in Nat /\ at[e.reserve] \in Nat
  BY DEF Slice
<1>2. \A x, y, z \in Nat : x * (y - z) \in Int
  BY Z3
<1> QED
  BY <1>1, <1>2 DEF HeldTerm, DueTerm

LEMMA HeldTermsOf ==
  ASSUME NEW n \in Nat, NEW s \in [1..n -> Slice], NEW r
  PROVE  /\ DOMAIN s = 1..n /\ IsFiniteSet(1..n)
         /\ \A i \in 1..n : /\ HeldTerms(s, r)[i] = HeldTerm(s[i], r)
                            /\ HeldTerms(s, r)[i] \in Nat
         /\ Held(s, r) \in Nat
<1>1. DOMAIN s = 1..n /\ IsFiniteSet(1..n)
  BY PositionsFinite
<1>2. ASSUME NEW i \in 1..n
      PROVE  HeldTerms(s, r)[i] = HeldTerm(s[i], r) /\ HeldTerms(s, r)[i] \in Nat
  <2>1. HeldTerms(s, r)[i] = HeldTerm(s[i], r) /\ s[i] \in Slice
    BY <1>1 DEF HeldTerms
  <2>2. HeldTerm(s[i], r) \in Nat
    <3>1. s[i].amount \in Nat
      BY <2>1 DEF Slice
    <3> QED
      BY <3>1 DEF HeldTerm
  <2> QED
    BY <2>1, <2>2
<1>3. SumFunctionOnSet(HeldTerms(s, r), 1..n) \in Nat
  BY <1>1, <1>2, SumNatural
<1> QED
  BY <1>1, <1>2, <1>3 DEF Held

LEMMA DueTermsOf ==
  ASSUME NEW n \in Nat, NEW s \in [1..n -> Slice], NEW at \in [Reserves -> Nat]
  PROVE  /\ DOMAIN s = 1..n /\ IsFiniteSet(1..n)
         /\ \A i \in 1..n : /\ DueTerms(s, at)[i] = DueTerm(s[i], at)
                            /\ DueTerms(s, at)[i] \in Int
         /\ Due(s, at) \in Int
<1>1. DOMAIN s = 1..n /\ IsFiniteSet(1..n)
  BY PositionsFinite
<1>2. ASSUME NEW i \in 1..n
      PROVE  DueTerms(s, at)[i] = DueTerm(s[i], at) /\ DueTerms(s, at)[i] \in Int
  <2>1. DueTerms(s, at)[i] = DueTerm(s[i], at) /\ s[i] \in Slice
    BY <1>1 DEF DueTerms
  <2>2. DueTerm(s[i], at) \in Int
    BY <2>1, SliceTerm
  <2> QED
    BY <2>1, <2>2
<1>3. SumFunctionOnSet(DueTerms(s, at), 1..n) \in Int
  BY <1>1, <1>2, SumType
<1> QED
  BY <1>1, <1>2, <1>3 DEF Due

\* The index of a pool advances: what is due grows by the advance for all
\* that is held of the pool.
LEMMA PoolAdvances ==
  ASSUME NEW n \in Nat, NEW s \in [1..n -> Slice], NEW at \in [Reserves -> Nat],
         NEW r \in Reserves, NEW v \in Nat
  PROVE  Due(s, [at EXCEPT ![r] = v]) = Due(s, at) + Held(s, r) * (v - at[r])
<1> DEFINE next == [at EXCEPT ![r] = v]
           step == v - at[r]
           f == DueTerms(s, at)
           g == DueTerms(s, next)
           h == HeldTerms(s, r)
           d == [i \in 1..n |-> h[i] * step]
<1>1. next \in [Reserves -> Nat] /\ step \in Int /\ at[r] \in Nat
      /\ \A p \in Reserves : next[p] = IF p = r THEN v ELSE at[p]
  OBVIOUS
<1>2. ASSUME NEW e \in Slice
      PROVE  /\ DueTerm(e, next) = DueTerm(e, at) + HeldTerm(e, r) * step
             /\ HeldTerm(e, r) * step \in Int
  <2>1. \A a, x, y, z \in Nat : a * (x - z) = a * (y - z) + a * (x - y) /\ a * (x - y) \in Int
    BY Z3
  <2>2. e.reserve \in Reserves /\ e.amount \in Nat /\ e.index \in Nat
        /\ at[e.reserve] \in Nat
    BY DEF Slice
  <2> HIDE DEF next
  <2>3. CASE e.reserve = r
    <3>1. DueTerm(e, next) = e.amount * (v - e.index)
      BY <1>1, <2>3 DEF DueTerm
    <3>2. DueTerm(e, at) = e.amount * (at[r] - e.index)
      BY <2>3 DEF DueTerm
    <3>3. HeldTerm(e, r) * step = e.amount * (v - at[r])
      BY <2>3 DEF HeldTerm
    <3> QED
      BY <1>1, <2>1, <2>2, <3>1, <3>2, <3>3, SMTT(30)
  <2>4. CASE e.reserve # r
    <3>1. DueTerm(e, next) = DueTerm(e, at)
      BY <1>1, <2>2, <2>4 DEF DueTerm
    <3>2. HeldTerm(e, r) * step = 0
      BY <1>1, <2>4 DEF HeldTerm
    <3>3. DueTerm(e, at) \in Int
      BY SliceTerm
    <3> QED
      BY <3>1, <3>2, <3>3
  <2> QED
    BY <2>3, <2>4
<1> HIDE DEF next, step
<1>3. /\ DOMAIN s = 1..n /\ IsFiniteSet(1..n)
      /\ \A i \in 1..n : h[i] = HeldTerm(s[i], r) /\ h[i] \in Nat
  BY HeldTermsOf
<1>4. \A i \in 1..n : f[i] = DueTerm(s[i], at) /\ f[i] \in Int
  BY DueTermsOf
<1>5. \A i \in 1..n : g[i] = DueTerm(s[i], next)
  BY <1>1, DueTermsOf
<1>6. ASSUME NEW i \in 1..n
      PROVE  d[i] \in Int /\ g[i] = f[i] + d[i] /\ d[i] = h[i] * step
  <2>1. s[i] \in Slice
    OBVIOUS
  <2>2. d[i] = h[i] * step
    OBVIOUS
  <2> HIDE DEF d, f, g, h
  <2> QED
    BY <1>2, <1>3, <1>4, <1>5, <2>1, <2>2
<1> HIDE DEF f, g, h, d
<1>7. \A i \in 1..n : f[i] \in Int /\ d[i] \in Int /\ g[i] = f[i] + d[i]
  BY <1>4, <1>6
<1>8. SumFunctionOnSet(g, 1..n) = SumFunctionOnSet(f, 1..n) + SumFunctionOnSet(d, 1..n)
  <2>1. PICK D : D = 1..n
    OBVIOUS
  <2>2. IsFiniteSet(D) /\ \A i \in D : f[i] \in Int /\ d[i] \in Int /\ g[i] = f[i] + d[i]
    BY <1>3, <1>7, <2>1
  <2>3. SumFunctionOnSet(g, D) = SumFunctionOnSet(f, D) + SumFunctionOnSet(d, D)
    BY <2>2, SumPlus
  <2> QED
    BY <2>1, <2>3
<1>9. SumFunctionOnSet(d, 1..n) \in Int /\ SumFunctionOnSet(h, 1..n) \in Int
  <2>1. \A i \in 1..n : d[i] \in Int
    BY <1>7
  <2>2. \A i \in 1..n : h[i] \in Int
    BY <1>3
  <2> QED
    BY <1>3, <2>1, <2>2, SumType
<1>10. SumFunctionOnSet(d, 1..n) = step * SumFunctionOnSet(h, 1..n)
  <2>2. ASSUME NEW i \in 1..n
        PROVE  /\ d[i] \in Int /\ h[i] \in Int
               /\ 1 * d[i] <= step * h[i] /\ step * h[i] <= 1 * d[i]
    <3>1. \A x \in Nat, y \in Int : x * y = y * x /\ x * y \in Int
      BY Z3
    <3>2. d[i] = h[i] * step /\ d[i] \in Int /\ h[i] \in Nat
      BY <1>3, <1>6
    <3> QED
      BY <1>1, <3>1, <3>2
  <2>3. \A i \in 1..n : d[i] \in Int /\ h[i] \in Int /\ 1 * d[i] <= step * h[i]
    BY <2>2
  <2>4. \A i \in 1..n : h[i] \in Int /\ d[i] \in Int /\ step * h[i] <= 1 * d[i]
    BY <2>2
  <2>1. 1 \in Int /\ step \in Int /\ IsFiniteSet(1..n)
    BY <1>1, <1>3
  <2>5. 1 * SumFunctionOnSet(d, 1..n) <= step * SumFunctionOnSet(h, 1..n)
    BY <2>1, <2>3, SumScaled, Zenon
  <2>6. step * SumFunctionOnSet(h, 1..n) <= 1 * SumFunctionOnSet(d, 1..n)
    BY <2>1, <2>4, SumScaled, Zenon
  <2>7. step * SumFunctionOnSet(h, 1..n) \in Int
    BY <1>1, <1>9, Z3
  <2> QED
    BY <1>9, <2>5, <2>6, <2>7
<1>11. step * SumFunctionOnSet(h, 1..n) = SumFunctionOnSet(h, 1..n) * step
  BY <1>1, <1>9, Z3
<1> QED
  BY <1>3, <1>8, <1>10, <1>11 DEF Due, Held, f, g, h, next, step

\* A slice of nothing more.
LEMMA SliceAdded ==
  ASSUME NEW n \in Nat, NEW s \in [1..n -> Slice], NEW t \in [1..(n + 1) -> Slice],
         \A i \in 1..n : t[i] = s[i], t[n + 1].amount = 0,
         NEW at \in [Reserves -> Nat], NEW r
  PROVE  Held(t, r) = Held(s, r) /\ Due(t, at) = Due(s, at)
<1> DEFINE f == HeldTerms(s, r)
           g == HeldTerms(t, r)
           k == DueTerms(s, at)
           l == DueTerms(t, at)
<1>1. n + 1 \in Nat /\ n + 1 \in 1..(n + 1) /\ \A i \in 1..n : i \in 1..(n + 1)
  OBVIOUS
<1>2. /\ DOMAIN s = 1..n /\ IsFiniteSet(1..n)
      /\ \A i \in 1..n : f[i] = HeldTerm(s[i], r) /\ f[i] \in Int
  BY HeldTermsOf
<1>3. /\ DOMAIN t = 1..(n + 1)
      /\ \A i \in 1..(n + 1) : g[i] = HeldTerm(t[i], r) /\ g[i] \in Int
  BY <1>1, HeldTermsOf
<1>4. \A i \in 1..n : k[i] = DueTerm(s[i], at) /\ k[i] \in Int
  BY DueTermsOf
<1>5. \A i \in 1..(n + 1) : l[i] = DueTerm(t[i], at) /\ l[i] \in Int
  BY <1>1, DueTermsOf
<1>6. g[n + 1] = 0 /\ l[n + 1] = 0
  <2>1. t[n + 1].index \in Nat /\ at[t[n + 1].reserve] \in Nat
    BY <1>1 DEF Slice
  <2>2. \A x, y \in Nat : 0 * (x - y) = 0
    BY Z3
  <2>3. HeldTerm(t[n + 1], r) = 0 /\ DueTerm(t[n + 1], at) = 0
    BY <2>1, <2>2 DEF HeldTerm, DueTerm
  <2> QED
    BY <1>1, <1>3, <1>5, <2>3
<1> HIDE DEF f, g, k, l
<1>7. \A i \in 1..n : f[i] \in Int /\ f[i] = g[i]
  BY <1>1, <1>2, <1>3
<1>8. \A i \in 1..n : k[i] \in Int /\ k[i] = l[i]
  BY <1>1, <1>4, <1>5
<1>9. SumFunctionOnSet(g, 1..(n + 1)) = SumFunctionOnSet(g, 1..n) + g[n + 1]
  BY <1>3, SumLast
<1>10. SumFunctionOnSet(l, 1..(n + 1)) = SumFunctionOnSet(l, 1..n) + l[n + 1]
  BY <1>5, SumLast
<1>11. SumFunctionOnSet(f, 1..n) = SumFunctionOnSet(g, 1..n)
  BY <1>2, <1>7, SumSame
<1>12. SumFunctionOnSet(k, 1..n) = SumFunctionOnSet(l, 1..n)
  BY <1>2, <1>8, SumSame
<1>13. SumFunctionOnSet(f, 1..n) \in Int /\ SumFunctionOnSet(k, 1..n) \in Int
  BY <1>2, <1>7, <1>8, SumType
<1> QED
  BY <1>2, <1>3, <1>6, <1>9, <1>10, <1>11, <1>12, <1>13 DEF Held, Due, f, g, k, l

\* One slice changes.
LEMMA SliceChanged ==
  ASSUME NEW n \in Nat, NEW s \in [1..n -> Slice], NEW t \in [1..n -> Slice],
         NEW a \in 1..n, \A i \in 1..n \ {a} : t[i] = s[i],
         NEW at \in [Reserves -> Nat], NEW r
  PROVE  /\ Held(t, r) = Held(s, r) + (HeldTerm(t[a], r) - HeldTerm(s[a], r))
         /\ Due(t, at) = Due(s, at) + (DueTerm(t[a], at) - DueTerm(s[a], at))
<1> DEFINE f == HeldTerms(s, r)
           g == HeldTerms(t, r)
           k == DueTerms(s, at)
           l == DueTerms(t, at)
<1>1. /\ DOMAIN s = 1..n /\ IsFiniteSet(1..n)
      /\ \A i \in 1..n : f[i] = HeldTerm(s[i], r) /\ f[i] \in Int
  BY HeldTermsOf
<1>2. DOMAIN t = 1..n /\ \A i \in 1..n : g[i] = HeldTerm(t[i], r) /\ g[i] \in Int
  BY HeldTermsOf
<1>3. \A i \in 1..n : k[i] = DueTerm(s[i], at) /\ k[i] \in Int
  BY DueTermsOf
<1>4. \A i \in 1..n : l[i] = DueTerm(t[i], at) /\ l[i] \in Int
  BY DueTermsOf
<1> HIDE DEF f, g, k, l
<1>5. PICK D : D = 1..n
  OBVIOUS
<1>6. IsFiniteSet(D) /\ a \in D
  BY <1>1, <1>5
<1>7. SumFunctionOnSet(g, D) = SumFunctionOnSet(f, D) + (g[a] - f[a])
  <2>1. /\ \A i \in D : f[i] \in Int /\ g[i] \in Int
        /\ \A i \in D \ {a} : g[i] = f[i]
    BY <1>1, <1>2, <1>5
  <2> QED
    BY ONLY <1>6, <2>1, SumChange
<1>8. SumFunctionOnSet(l, D) = SumFunctionOnSet(k, D) + (l[a] - k[a])
  <2>1. /\ \A i \in D : k[i] \in Int /\ l[i] \in Int
        /\ \A i \in D \ {a} : l[i] = k[i]
    BY <1>3, <1>4, <1>5
  <2> QED
    BY ONLY <1>6, <2>1, SumChange, ZenonT(60)
<1>9. /\ g[a] = HeldTerm(t[a], r) /\ f[a] = HeldTerm(s[a], r)
      /\ l[a] = DueTerm(t[a], at) /\ k[a] = DueTerm(s[a], at)
  BY <1>1, <1>2, <1>3, <1>4
<1> QED
  BY <1>1, <1>2, <1>5, <1>7, <1>8, <1>9 DEF Held, Due, f, g, k, l

\* One slice is taken out.
LEMMA SliceDropped ==
  ASSUME NEW n \in Nat, NEW s \in [1..(n + 1) -> Slice], NEW t \in [1..n -> Slice],
         NEW a \in 1..(n + 1), \A i \in 1..n : t[i] = IF i < a THEN s[i] ELSE s[i + 1],
         NEW at \in [Reserves -> Nat], NEW r
  PROVE  /\ Held(s, r) = HeldTerm(s[a], r) + Held(t, r)
         /\ Due(s, at) = DueTerm(s[a], at) + Due(t, at)
<1> DEFINE f == HeldTerms(s, r)
           g == HeldTerms(t, r)
           k == DueTerms(s, at)
           l == DueTerms(t, at)
<1>1. n + 1 \in Nat /\ \A i \in 1..n : i \in 1..(n + 1) /\ i + 1 \in 1..(n + 1)
  OBVIOUS
<1>2. /\ DOMAIN s = 1..(n + 1)
      /\ \A i \in 1..(n + 1) : f[i] = HeldTerm(s[i], r) /\ f[i] \in Int
  BY <1>1, HeldTermsOf
<1>3. DOMAIN t = 1..n /\ \A i \in 1..n : g[i] = HeldTerm(t[i], r)
  BY HeldTermsOf
<1>4. \A i \in 1..(n + 1) : k[i] = DueTerm(s[i], at) /\ k[i] \in Int
  BY <1>1, DueTermsOf
<1>5. \A i \in 1..n : l[i] = DueTerm(t[i], at)
  BY DueTermsOf
<1> HIDE DEF f, g, k, l
<1>6. \A i \in 1..n : g[i] = IF i < a THEN f[i] ELSE f[i + 1]
  BY <1>1, <1>2, <1>3
<1>7. \A i \in 1..n : l[i] = IF i < a THEN k[i] ELSE k[i + 1]
  BY <1>1, <1>4, <1>5
<1>8. SumFunctionOnSet(f, 1..(n + 1)) = f[a] + SumFunctionOnSet(g, 1..n)
  BY <1>2, <1>6, SumDrop, ZenonT(60)
<1>9. SumFunctionOnSet(k, 1..(n + 1)) = k[a] + SumFunctionOnSet(l, 1..n)
  BY <1>4, <1>7, SumDrop, ZenonT(60)
<1>10. f[a] = HeldTerm(s[a], r) /\ k[a] = DueTerm(s[a], at)
  BY <1>2, <1>4
<1> QED
  BY <1>2, <1>3, <1>8, <1>9, <1>10 DEF Held, Due, f, g, k, l

\* All slices are credited: nothing is due.
LEMMA SlicesCredited ==
  ASSUME NEW n \in Nat, NEW s \in [1..n -> Slice], NEW t \in [1..n -> Slice],
         NEW at \in [Reserves -> Nat], NEW r,
         \A i \in 1..n : /\ t[i].reserve = s[i].reserve /\ t[i].amount = s[i].amount
                         /\ t[i].index = at[s[i].reserve]
  PROVE  Held(t, r) = Held(s, r) /\ Due(t, at) = 0
<1> DEFINE f == HeldTerms(s, r)
           g == HeldTerms(t, r)
           l == DueTerms(t, at)
<1>1. /\ DOMAIN s = 1..n /\ IsFiniteSet(1..n)
      /\ \A i \in 1..n : f[i] = HeldTerm(s[i], r) /\ f[i] \in Int
  BY HeldTermsOf, SMTT(30)
<1>2. DOMAIN t = 1..n /\ \A i \in 1..n : g[i] = HeldTerm(t[i], r)
  BY HeldTermsOf
<1>3. \A i \in 1..n : l[i] = DueTerm(t[i], at)
  BY DueTermsOf
<1>4. ASSUME NEW i \in 1..n
      PROVE  HeldTerm(t[i], r) = HeldTerm(s[i], r) /\ DueTerm(t[i], at) = 0
  <2>1. t[i].amount \in Nat /\ at[s[i].reserve] \in Nat
    BY DEF Slice
  <2>2. \A x, y \in Nat : x * (y - y) = 0
    BY Z3
  <2> QED
    BY <2>1, <2>2 DEF HeldTerm, DueTerm
<1> HIDE DEF f, g, l
<1>5. \A i \in 1..n : f[i] \in Int /\ f[i] = g[i]
  BY <1>1, <1>2, <1>4
<1>6. \A i \in 1..n : l[i] \in Nat /\ l[i] = 0
  BY <1>3, <1>4
<1>7. SumFunctionOnSet(f, 1..n) = SumFunctionOnSet(g, 1..n)
  BY <1>1, <1>5, SumSame
<1>8. SumFunctionOnSet(l, 1..n) = 0
  BY <1>1, <1>6, SumNatural
<1> QED
  BY <1>1, <1>2, <1>7, <1>8 DEF Held, Due, f, g, l

-----------------------------------------------------------------------------
\* The slices of both accounts, and the indices of the pools.
TicketSlices(list) ==
  [i \in DOMAIN list |-> [ reserve |-> list[i].deposit_reserve,
                           amount  |-> list[i].deposited_amount,
                           index   |-> list[i].index ]]

MiningSlices(list) ==
  [i \in DOMAIN list |-> [ reserve |-> list[i].reserve,
                           amount  |-> list[i].un_coll_l_token_amount,
                           index   |-> list[i].index ]]

Deposited == TicketSlices(ticket.deposits)

Uncollected == MiningSlices(mining.mining_indices)

Indices == [r \in Reserves |-> pool[r].l_token_mining_index]

LEMMA TicketSlicesOf ==
  ASSUME NEW list \in Seq(TicketEntry)
  PROVE  /\ TicketSlices(list) \in [1..Len(list) -> Slice] /\ Len(list) \in Nat
         /\ DOMAIN list = 1..Len(list)
         /\ \A i \in 1..Len(list) :
              /\ TicketSlices(list)[i].reserve = list[i].deposit_reserve
              /\ TicketSlices(list)[i].amount = list[i].deposited_amount
              /\ TicketSlices(list)[i].index = list[i].index
<1>1. DOMAIN list = 1..Len(list) /\ Len(list) \in Nat
      /\ \A i \in 1..Len(list) : list[i] \in TicketEntry
  BY LenProperties, ElementOfSeq
<1>2. \A i \in 1..Len(list) : /\ list[i].deposit_reserve \in Reserves
                              /\ list[i].deposited_amount \in Nat /\ list[i].index \in Nat
  BY <1>1, Widths DEF TicketEntry, TicketCollateral
<1>3. TicketSlices(list)
        = [i \in 1..Len(list) |-> [ reserve |-> list[i].deposit_reserve,
                                    amount  |-> list[i].deposited_amount,
                                    index   |-> list[i].index ]]
  BY <1>1 DEF TicketSlices
<1> QED
  BY <1>1, <1>2, <1>3 DEF Slice

LEMMA MiningSlicesOf ==
  ASSUME NEW list \in Seq(MiningEntry)
  PROVE  /\ MiningSlices(list) \in [1..Len(list) -> Slice] /\ Len(list) \in Nat
         /\ DOMAIN list = 1..Len(list)
         /\ \A i \in 1..Len(list) :
              /\ MiningSlices(list)[i].reserve = list[i].reserve
              /\ MiningSlices(list)[i].amount = list[i].un_coll_l_token_amount
              /\ MiningSlices(list)[i].index = list[i].index
<1>1. DOMAIN list = 1..Len(list) /\ Len(list) \in Nat
      /\ \A i \in 1..Len(list) : list[i] \in MiningEntry
  BY LenProperties, ElementOfSeq
<1>2. \A i \in 1..Len(list) : /\ list[i].reserve \in Reserves
                              /\ list[i].un_coll_l_token_amount \in Nat /\ list[i].index \in Nat
  BY <1>1, Widths DEF MiningEntry, MiningIndex
<1>3. MiningSlices(list)
        = [i \in 1..Len(list) |-> [ reserve |-> list[i].reserve,
                                    amount  |-> list[i].un_coll_l_token_amount,
                                    index   |-> list[i].index ]]
  BY <1>1 DEF MiningSlices
<1> QED
  BY <1>1, <1>2, <1>3 DEF Slice

\* The sums of HolderMining, over slices.
LEMMA TicketSums ==
  ASSUME NEW list \in Seq(TicketEntry), NEW pl, NEW r
  PROVE  /\ SumFunction([i \in DOMAIN list |->
                LET d == list[i]
                IN  IF d.deposit_reserve = r THEN d.deposited_amount ELSE 0])
              = Held(TicketSlices(list), r)
         /\ SumFunction([i \in DOMAIN list |->
                LET d == list[i]
                IN  d.deposited_amount
                      * (pl[d.deposit_reserve].l_token_mining_index - d.index)])
              = Due(TicketSlices(list), [p \in Reserves |-> pl[p].l_token_mining_index])
<1> DEFINE at == [p \in Reserves |-> pl[p].l_token_mining_index]
           f == [i \in DOMAIN list |-> LET d == list[i]
                                      IN  IF d.deposit_reserve = r
                                          THEN d.deposited_amount ELSE 0]
           g == [i \in DOMAIN list |->
                   LET d == list[i]
                   IN  d.deposited_amount
                         * (pl[d.deposit_reserve].l_token_mining_index - d.index)]
<1>1. DOMAIN TicketSlices(list) = DOMAIN list /\ DOMAIN f = DOMAIN list /\ DOMAIN g = DOMAIN list
  BY DEF TicketSlices
<1>2. f = HeldTerms(TicketSlices(list), r)
  BY DEF HeldTerms, HeldTerm, TicketSlices
<1>3. \A i \in DOMAIN list : list[i].deposit_reserve \in Reserves
  BY TicketSlicesOf DEF Slice
<1>4. g = DueTerms(TicketSlices(list), at)
  <2>1. \A i \in DOMAIN list : at[list[i].deposit_reserve]
                                 = pl[list[i].deposit_reserve].l_token_mining_index
    BY <1>3
  <2> HIDE DEF at
  <2> QED
    BY <2>1 DEF DueTerms, DueTerm, TicketSlices
<1> HIDE DEF f, g, at
<1>5. SumFunction(f) = Held(TicketSlices(list), r)
  BY <1>1, <1>2 DEF SumFunction, Held
<1>6. SumFunction(g) = Due(TicketSlices(list), at)
  BY <1>1, <1>4 DEF SumFunction, Due
<1> QED
  BY <1>5, <1>6 DEF f, g, at

LEMMA MiningSums ==
  ASSUME NEW list \in Seq(MiningEntry), NEW pl, NEW r
  PROVE  /\ SumFunction([i \in DOMAIN list |->
                LET e == list[i]
                IN  IF e.reserve = r THEN e.un_coll_l_token_amount ELSE 0])
              = Held(MiningSlices(list), r)
         /\ SumFunction([i \in DOMAIN list |->
                LET e == list[i]
                IN  e.un_coll_l_token_amount
                      * (pl[e.reserve].l_token_mining_index - e.index)])
              = Due(MiningSlices(list), [p \in Reserves |-> pl[p].l_token_mining_index])
<1> DEFINE at == [p \in Reserves |-> pl[p].l_token_mining_index]
           f == [i \in DOMAIN list |-> LET e == list[i]
                                      IN  IF e.reserve = r
                                          THEN e.un_coll_l_token_amount ELSE 0]
           g == [i \in DOMAIN list |->
                   LET e == list[i]
                   IN  e.un_coll_l_token_amount
                         * (pl[e.reserve].l_token_mining_index - e.index)]
<1>1. DOMAIN MiningSlices(list) = DOMAIN list /\ DOMAIN f = DOMAIN list /\ DOMAIN g = DOMAIN list
  BY DEF MiningSlices
<1>2. f = HeldTerms(MiningSlices(list), r)
  BY DEF HeldTerms, HeldTerm, MiningSlices
<1>3. \A i \in DOMAIN list : list[i].reserve \in Reserves
  BY MiningSlicesOf DEF Slice
<1>4. g = DueTerms(MiningSlices(list), at)
  <2>1. \A i \in DOMAIN list : at[list[i].reserve] = pl[list[i].reserve].l_token_mining_index
    BY <1>3
  <2> HIDE DEF at
  <2> QED
    BY <2>1 DEF DueTerms, DueTerm, MiningSlices
<1> HIDE DEF f, g, at
<1>5. SumFunction(f) = Held(MiningSlices(list), r)
  BY <1>1, <1>2 DEF SumFunction, Held
<1>6. SumFunction(g) = Due(MiningSlices(list), at)
  BY <1>1, <1>4 DEF SumFunction, Due
<1> QED
  BY <1>5, <1>6 DEF f, g, at

\* What the refinement maps a state to.
EagerHeld == [r \in Reserves |-> TicketHeld(r) + MiningHeld(r)]

EagerOwed == ticket.unclaimed_mine + mining.unclaimed_mine + NotYetCredited

Mapped ==
  /\ Deposited \in [1..Len(ticket.deposits) -> Slice] /\ Len(ticket.deposits) \in Nat
  /\ Uncollected \in [1..Len(mining.mining_indices) -> Slice]
  /\ Len(mining.mining_indices) \in Nat
  /\ Indices \in [Reserves -> Nat]
  /\ ticket.unclaimed_mine \in Nat /\ mining.unclaimed_mine \in Nat
  /\ \A r \in Reserves :
       /\ Held(Deposited, r) \in Nat /\ Held(Uncollected, r) \in Nat
       /\ EagerHeld[r] = Held(Deposited, r) + Held(Uncollected, r)
  /\ Due(Deposited, Indices) \in Int /\ Due(Uncollected, Indices) \in Int
  /\ EagerOwed = ticket.unclaimed_mine + mining.unclaimed_mine
                   + (Due(Deposited, Indices) + Due(Uncollected, Indices))

LEMMA MappedNow == HolderInvariant => Mapped
<1> SUFFICES ASSUME HolderInvariant PROVE Mapped
  OBVIOUS
<1>1. /\ ticket.deposits \in Seq(TicketEntry) /\ mining.mining_indices \in Seq(MiningEntry)
      /\ mining \in MiningRecord(Reserves)
  BY StoredMining, ListAndPools DEF HolderInvariant
<1>2. ticket.unclaimed_mine \in Nat /\ mining.unclaimed_mine \in Nat
  BY <1>1, LedgerNumbers, Widths DEF HolderInvariant, MiningRecord
<1>3. Indices \in [Reserves -> Nat]
  BY LedgerNumbers DEF HolderInvariant, Indices, MiningIndexOf
<1>4. /\ Deposited \in [1..Len(ticket.deposits) -> Slice] /\ Len(ticket.deposits) \in Nat
      /\ Uncollected \in [1..Len(mining.mining_indices) -> Slice]
      /\ Len(mining.mining_indices) \in Nat
  BY <1>1, TicketSlicesOf, MiningSlicesOf DEF Deposited, Uncollected
<1>5. \A r \in Reserves : Held(Deposited, r) \in Nat /\ Held(Uncollected, r) \in Nat
  BY <1>4, HeldTermsOf
<1>6. Due(Deposited, Indices) \in Int /\ Due(Uncollected, Indices) \in Int
  BY <1>3, <1>4, DueTermsOf
<1>7. \A r \in Reserves : TicketHeld(r) = Held(Deposited, r) /\ MiningHeld(r) = Held(Uncollected, r)
  BY <1>1, TicketSums, MiningSums DEF TicketHeld, MiningHeld, Deposited, Uncollected
<1>8. NotYetCredited = Due(Deposited, Indices) + Due(Uncollected, Indices)
  BY <1>1, TicketSums, MiningSums DEF NotYetCredited, Deposited, Uncollected, Indices
<1> QED
  BY <1>2, <1>3, <1>4, <1>5, <1>6, <1>7, <1>8 DEF EagerHeld, EagerOwed, Mapped

LEMMA MappedNext == HolderInvariant' => Mapped'
  BY MappedNow, PTL

LEMMA EagerIs ==
  /\ Eager!vars = <<Indices, EagerHeld, EagerOwed>>
  /\ Eager!Init <=> /\ Indices \in [Reserves -> Nat]
                    /\ EagerHeld = [r \in Reserves |-> 0]
                    /\ EagerOwed = 0
  /\ \A r : Eager!Mine(r) <=> /\ Indices'[r] >= Indices[r]
                              /\ Indices' = [Indices EXCEPT ![r] = Indices'[r]]
                              /\ EagerOwed' = EagerOwed + EagerHeld[r] * (Indices'[r] - Indices[r])
                              /\ EagerHeld' = EagerHeld
  /\ \A r : Eager!Hold(r) <=> /\ EagerHeld'[r] \in Nat
                              /\ EagerHeld' = [EagerHeld EXCEPT ![r] = EagerHeld'[r]]
                              /\ Indices' = Indices /\ EagerOwed' = EagerOwed
  BY DEF Eager!vars, Eager!Init, Eager!Mine, Eager!Hold, Indices, EagerHeld, EagerOwed

LEMMA MineStep ==
  ASSUME HolderInvariant, HolderInvariant', NEW r \in Reserves, NEW v \in Nat,
         UNCHANGED <<ticket, mining>>, Indices' = [Indices EXCEPT ![r] = v],
         Indices[r] <= v
  PROVE  Eager!Mine(r)
<1>1. Mapped /\ Mapped'
  BY MappedNow, MappedNext
<1>2. Deposited' = Deposited /\ Uncollected' = Uncollected
  BY DEF Deposited, Uncollected
<1>3. PICK at \in [Reserves -> Nat] : at = Indices
  BY <1>1 DEF Mapped
<1>4. PICK next : next = Indices' /\ next = [at EXCEPT ![r] = v]
  BY <1>3
<1>5. at[r] \in Nat /\ at[r] <= v /\ next[r] = v
  BY <1>3, <1>4
<1>6. ASSUME NEW n \in Nat, NEW s \in [1..n -> Slice]
      PROVE  Due(s, next) = Due(s, at) + Held(s, r) * (v - at[r])
  <2>1. Due(s, [at EXCEPT ![r] = v]) = Due(s, at) + Held(s, r) * (v - at[r])
    BY PoolAdvances
  <2> QED
    BY <1>4, <2>1
<1>7. /\ Due(Deposited, next) = Due(Deposited, at) + Held(Deposited, r) * (v - at[r])
      /\ Due(Uncollected, next) = Due(Uncollected, at) + Held(Uncollected, r) * (v - at[r])
  BY <1>1, <1>6 DEF Mapped
<1>8. EagerOwed = ticket.unclaimed_mine + mining.unclaimed_mine
                    + (Due(Deposited, at) + Due(Uncollected, at))
  BY <1>1, <1>3 DEF Mapped
<1>9. EagerOwed' = ticket.unclaimed_mine + mining.unclaimed_mine
                     + (Due(Deposited, next) + Due(Uncollected, next))
  BY <1>1, <1>2, <1>4 DEF Mapped
<1>10. /\ Held(Deposited, r) \in Nat /\ Held(Uncollected, r) \in Nat
       /\ EagerHeld[r] = Held(Deposited, r) + Held(Uncollected, r)
       /\ Due(Deposited, at) \in Int /\ Due(Uncollected, at) \in Int
       /\ ticket.unclaimed_mine \in Nat /\ mining.unclaimed_mine \in Nat
  BY <1>1, <1>3 DEF Mapped
<1>11. \A x, y, z \in Nat : /\ (x + y) * z = x * z + y * z
                            /\ x * z \in Nat /\ y * z \in Nat
  BY Z3
<1>12. EagerOwed' = EagerOwed + EagerHeld[r] * (v - at[r])
  <2>1. v - at[r] \in Nat
    BY <1>5
  <2>2. PICK x \in Nat, y \in Nat, z \in Nat :
          x = Held(Deposited, r) /\ y = Held(Uncollected, r) /\ z = v - at[r]
    BY <1>10, <2>1
  <2>3. (x + y) * z = x * z + y * z /\ x * z \in Nat /\ y * z \in Nat
    BY <1>11
  <2>4. EagerHeld[r] * (v - at[r]) = (x + y) * z
    BY <1>10, <2>2
  <2> QED
    BY <1>7, <1>8, <1>9, <1>10, <2>2, <2>3, <2>4
<1>13. EagerHeld' = EagerHeld
  BY <1>2 , <1>1 DEF Mapped, EagerHeld, TicketHeld, MiningHeld
<1> QED
  BY <1>3, <1>4, <1>5, <1>12, <1>13, EagerIs

\* What is held of one pool changes, and what is owed does not.
LEMMA HoldStep ==
  ASSUME HolderInvariant, HolderInvariant', NEW r \in Reserves, UNCHANGED Indices,
         \A p \in Reserves \ {r} : EagerHeld'[p] = EagerHeld[p],
         UNCHANGED EagerOwed
  PROVE  Eager!Hold(r)
<1>1. EagerHeld'[r] \in Nat
  BY MappedNext DEF Mapped
<1>2. /\ EagerHeld = [p \in Reserves |-> EagerHeld[p]]
      /\ EagerHeld' = [p \in Reserves |-> EagerHeld'[p]]
  BY DEF EagerHeld
<1>3. EagerHeld' = [EagerHeld EXCEPT ![r] = EagerHeld'[r]]
  BY <1>2
<1> QED
  BY <1>1, <1>3, EagerIs

LEMMA Unmoved ==
  ASSUME UNCHANGED Indices, UNCHANGED EagerOwed,
         \A p \in Reserves : EagerHeld'[p] = EagerHeld[p]
  PROVE  UNCHANGED Eager!vars
<1>1. /\ EagerHeld = [p \in Reserves |-> EagerHeld[p]]
      /\ EagerHeld' = [p \in Reserves |-> EagerHeld'[p]]
  BY DEF EagerHeld
<1>2. EagerHeld' = EagerHeld
  BY <1>1
<1> QED
  BY <1>2 DEF Eager!vars, Indices, EagerHeld, EagerOwed

\* An account changes under pools that stay: what is owed stays if what was
\* credited is what is no longer due.
LEMMA TicketMoves ==
  ASSUME HolderInvariant, HolderInvariant', UNCHANGED <<pool, mining>>,
         ticket'.unclaimed_mine + Due(Deposited', Indices)
           = ticket.unclaimed_mine + Due(Deposited, Indices)
  PROVE  /\ UNCHANGED Indices /\ UNCHANGED EagerOwed
         /\ \A p \in Reserves : Held(Deposited', p) = Held(Deposited, p)
                                  => EagerHeld'[p] = EagerHeld[p]
<1>1. Mapped /\ Mapped'
  BY MappedNow, MappedNext
<1>2. Indices' = Indices /\ Uncollected' = Uncollected
  BY DEF Indices, Uncollected
<1>3. EagerOwed' = EagerOwed
  <2>1. EagerOwed' = ticket'.unclaimed_mine + mining.unclaimed_mine
                       + (Due(Deposited', Indices) + Due(Uncollected, Indices))
    BY <1>1, <1>2 DEF Mapped
  <2>2. /\ ticket'.unclaimed_mine \in Nat /\ ticket.unclaimed_mine \in Nat
        /\ mining.unclaimed_mine \in Nat /\ Due(Uncollected, Indices) \in Int
        /\ Due(Deposited, Indices) \in Int /\ Due(Deposited', Indices) \in Int
    BY <1>1, <1>2 DEF Mapped
  <2>3. EagerOwed = ticket.unclaimed_mine + mining.unclaimed_mine
                      + (Due(Deposited, Indices) + Due(Uncollected, Indices))
    BY <1>1 DEF Mapped
  <2> QED
    BY <2>1, <2>2, <2>3
<1>4. \A p \in Reserves : Held(Deposited', p) = Held(Deposited, p)
                            => EagerHeld'[p] = EagerHeld[p]
  BY <1>1, <1>2 DEF Mapped
<1> QED
  BY <1>2, <1>3, <1>4

LEMMA MiningMoves ==
  ASSUME HolderInvariant, HolderInvariant', UNCHANGED <<pool, ticket>>,
         mining'.unclaimed_mine + Due(Uncollected', Indices)
           = mining.unclaimed_mine + Due(Uncollected, Indices)
  PROVE  /\ UNCHANGED Indices /\ UNCHANGED EagerOwed
         /\ \A p \in Reserves : Held(Uncollected', p) = Held(Uncollected, p)
                                  => EagerHeld'[p] = EagerHeld[p]
<1>1. Mapped /\ Mapped'
  BY MappedNow, MappedNext
<1>2. Indices' = Indices /\ Deposited' = Deposited
  BY DEF Indices, Deposited
<1>3. EagerOwed' = EagerOwed
  <2>1. EagerOwed' = ticket.unclaimed_mine + mining'.unclaimed_mine
                       + (Due(Deposited, Indices) + Due(Uncollected', Indices))
    BY <1>1, <1>2 DEF Mapped
  <2>2. /\ mining'.unclaimed_mine \in Nat /\ ticket.unclaimed_mine \in Nat
        /\ mining.unclaimed_mine \in Nat /\ Due(Uncollected, Indices) \in Int
        /\ Due(Deposited, Indices) \in Int /\ Due(Uncollected', Indices) \in Int
    BY <1>1, <1>2 DEF Mapped
  <2>3. EagerOwed = ticket.unclaimed_mine + mining.unclaimed_mine
                      + (Due(Deposited, Indices) + Due(Uncollected, Indices))
    BY <1>1 DEF Mapped
  <2> QED
    BY <2>1, <2>2, <2>3
<1>4. \A p \in Reserves : Held(Uncollected', p) = Held(Uncollected, p)
                            => EagerHeld'[p] = EagerHeld[p]
  BY <1>1, <1>2 DEF Mapped
<1> QED
  BY <1>2, <1>3, <1>4

-----------------------------------------------------------------------------
\* Nothing is due on a slice that is credited up to its pool, whatever its
\* amount; a slice of another pool holds nothing of this one.
LEMMA SettledSlice ==
  ASSUME NEW e \in Slice, NEW at \in [Reserves -> Nat]
  PROVE  /\ e.index = at[e.reserve] => DueTerm(e, at) = 0
         /\ \A p : p # e.reserve => HeldTerm(e, p) = 0
<1>1. e.amount \in Nat /\ at[e.reserve] \in Nat
  BY DEF Slice
<1>2. \A x, y \in Nat : x * (y - y) = 0
  BY Z3
<1> QED
  BY <1>1, <1>2 DEF DueTerm, HeldTerm

LEMMA SettledSliceChanged ==
  ASSUME NEW n \in Nat, NEW s \in [1..n -> Slice], NEW t \in [1..n -> Slice],
         NEW a \in 1..n, \A i \in 1..n \ {a} : t[i] = s[i],
         NEW at \in [Reserves -> Nat],
         t[a].reserve = s[a].reserve, t[a].index = s[a].index,
         s[a].index = at[s[a].reserve]
  PROVE  /\ Due(t, at) = Due(s, at)
         /\ \A p : p # s[a].reserve => Held(t, p) = Held(s, p)
<1>1. s[a] \in Slice /\ t[a] \in Slice
  OBVIOUS
<1>2. DueTerm(s[a], at) = 0 /\ DueTerm(t[a], at) = 0
      /\ \A p : p # s[a].reserve => HeldTerm(s[a], p) = 0 /\ HeldTerm(t[a], p) = 0
  BY <1>1, SettledSlice
<1>3. \A p : /\ Held(t, p) = Held(s, p) + (HeldTerm(t[a], p) - HeldTerm(s[a], p))
             /\ Due(t, at) = Due(s, at) + (DueTerm(t[a], at) - DueTerm(s[a], at))
  BY SliceChanged
<1>4. Due(s, at) \in Int /\ \A p : Held(s, p) \in Nat
  BY HeldTermsOf, DueTermsOf
<1> QED
  BY <1>2, <1>3, <1>4

LEMMA SettledSliceDropped ==
  ASSUME NEW n \in Nat, NEW s \in [1..(n + 1) -> Slice], NEW t \in [1..n -> Slice],
         NEW a \in 1..(n + 1), \A i \in 1..n : t[i] = IF i < a THEN s[i] ELSE s[i + 1],
         NEW at \in [Reserves -> Nat], s[a].index = at[s[a].reserve]
  PROVE  /\ Due(t, at) = Due(s, at)
         /\ \A p : p # s[a].reserve => Held(t, p) = Held(s, p)
<1>1. s[a] \in Slice
  OBVIOUS
<1>2. DueTerm(s[a], at) = 0 /\ \A p : p # s[a].reserve => HeldTerm(s[a], p) = 0
  BY <1>1, SettledSlice
<1>3. \A p : /\ Held(s, p) = HeldTerm(s[a], p) + Held(t, p)
             /\ Due(s, at) = DueTerm(s[a], at) + Due(t, at)
  BY SliceDropped
<1>4. Due(t, at) \in Int /\ \A p : Held(t, p) \in Nat
  BY HeldTermsOf, DueTermsOf
<1> QED
  BY <1>2, <1>3, <1>4

\* One slice is credited: what was due on it is what is credited.
LEMMA SliceCredited ==
  ASSUME NEW n \in Nat, NEW s \in [1..n -> Slice], NEW t \in [1..n -> Slice],
         NEW a \in 1..n, \A i \in 1..n \ {a} : t[i] = s[i],
         NEW at \in [Reserves -> Nat],
         t[a].reserve = s[a].reserve, t[a].amount = s[a].amount,
         t[a].index = at[s[a].reserve]
  PROVE  /\ Due(s, at) = Due(t, at) + DueTerm(s[a], at)
         /\ \A p : Held(t, p) = Held(s, p)
<1>1. s[a] \in Slice /\ t[a] \in Slice
  OBVIOUS
<1>2. DueTerm(t[a], at) = 0 /\ DueTerm(s[a], at) \in Int
  BY <1>1, SettledSlice, SliceTerm
<1>3. \A p : HeldTerm(t[a], p) = HeldTerm(s[a], p) /\ HeldTerm(s[a], p) \in Nat
  <2>1. s[a].amount \in Nat
    BY <1>1 DEF Slice
  <2> QED
    BY <2>1 DEF HeldTerm
<1>4. \A p : /\ Held(t, p) = Held(s, p) + (HeldTerm(t[a], p) - HeldTerm(s[a], p))
             /\ Due(t, at) = Due(s, at) + (DueTerm(t[a], at) - DueTerm(s[a], at))
  BY SliceChanged
<1>5. Due(s, at) \in Int /\ \A p : Held(s, p) \in Nat
  BY HeldTermsOf, DueTermsOf
<1> QED
  BY <1>2, <1>3, <1>4, <1>5

-----------------------------------------------------------------------------
\* An account that is not initialised holds nothing and is owed nothing, so
\* that initialising it takes nothing away.
Blank ==
  /\ ticket.version = 0 => ticket.deposits = << >> /\ ticket.unclaimed_mine = 0
  /\ mining.version = 0 => mining.mining_indices = << >> /\ mining.unclaimed_mine = 0

LEMMA BlankKept ==
  ASSUME HolderInvariant, Blank, [HolderNext]_holderVars
  PROVE  Blank'
<1> USE StoredMining, ListAndPools DEF HolderInvariant
<1>1. ticket'.version # 0 \/ UNCHANGED ticket
  <2>1. CASE UNCHANGED vars
    BY <2>1 DEF vars
  <2>2. CASE TicketNext
    <3>1. CASE \/ Tick \/ \E r \in Reserves : RefreshPool(r)
               \/ \E c \in SupplyChanges : Supplied(c[1], c[2])
               \/ \E c \in SupplyChanges : Redeemed(c[1], c[2])
      BY <3>1 DEF Tick, RefreshPool, Supplied, Redeemed, Stores
    <3>2. CASE InitTicket
      BY <3>2 DEF InitTicket, NewTicket, UninitializedTicket
    <3>3. CASE \E reserves \in ReserveLists : RefreshTicket(reserves)
      BY <3>3 DEF RefreshTicket, RefreshedTicket, CanRefreshTicket, TicketRecord
    <3>4. CASE \E r \in Reserves : FindOrAddCollateral(r)
      BY <3>4 DEF FindOrAddCollateral, FindOrAdd, TicketRecord
    <3>5. ASSUME DOMAIN ticket.deposits # {} PROVE ticket.version # 0
      <4>1. DOMAIN << >> = {}
        OBVIOUS
      <4> QED
        BY <3>5, <4>1 DEF Blank
    <3>6. CASE \E i \in DOMAIN ticket.deposits, n \in TicketAmounts : Deposit(i, n)
      BY <3>5, <3>6 DEF Deposit, DepositTo, TicketRecord
    <3>7. CASE \E i \in DOMAIN ticket.deposits, n \in TicketAmounts : Withdraw(i, n)
      BY <3>5, <3>7 DEF Withdraw, WithdrawFrom, TicketRecord
    <3> QED
      BY <2>2, <3>1, <3>2, <3>3, <3>4, <3>6, <3>7 DEF TicketNext
  <2> QED
    BY <2>1, <2>2 DEF HolderNext, holderVars, InitMining, AddReserve, CreditMining, Acquire,
                      PartWith, StoresMining
<1>2. mining'.version # 0 \/ UNCHANGED mining
  <2>1. CASE UNCHANGED mining
    BY <2>1
  <2>2. CASE InitMining
    BY <2>2 DEF InitMining, StoresMining, NewMining
  <2>3. ASSUME NEW r \in Reserves, AddReserve(r) PROVE mining'.version # 0
    BY <2>3 DEF AddReserve, StoresMining, FindOrAddReserve, MiningRecord
  <2>4. ASSUME NEW r \in Reserves, Entry(r) # Err PROVE mining.version # 0
    <3>1. DOMAIN mining.mining_indices # {}
      BY <2>4, FoundEntry DEF Entry
    <3>2. DOMAIN << >> = {}
      OBVIOUS
    <3> QED
      BY <3>1, <3>2 DEF Blank
  <2>5. ASSUME NEW r \in Reserves, CreditMining(r) PROVE mining'.version # 0
    BY <2>4, <2>5 DEF CreditMining, StoresMining, RefreshUnclaimed, MiningRecord
  <2>6. ASSUME NEW r \in Reserves, NEW n, Acquire(r, n) PROVE mining'.version # 0
    BY <2>4, <2>6 DEF Acquire, StoresMining, DepositMining, MiningRecord
  <2>7. ASSUME NEW r \in Reserves, NEW n, PartWith(r, n) PROVE mining'.version # 0
    BY <2>4, <2>7 DEF PartWith, StoresMining, WithdrawMining, MiningRecord
  <2> QED
    BY <2>1, <2>2, <2>3, <2>5, <2>6, <2>7 DEF HolderNext, holderVars, TicketNext
<1> QED
  BY <1>1, <1>2 DEF Blank


-----------------------------------------------------------------------------
\* The pools: a step of one pool is Mine of that pool.
LEMMA PoolMines ==
  ASSUME HolderInvariant, HolderInvariant', NEW r \in Reserves, NEW new \in PoolRecord,
         Stores(r, new), pool[r].l_token_mining_index <= new.l_token_mining_index,
         UNCHANGED mining
  PROVE  Eager!Mine(r)
<1>1. pool \in [Reserves -> PoolRecord] /\ new.l_token_mining_index \in Nat
  BY StoredMining, Widths DEF PoolRecord
<1>2. pool' = [pool EXCEPT ![r] = new] /\ UNCHANGED ticket
  BY DEF Stores
<1>3. Indices' = [Indices EXCEPT ![r] = new.l_token_mining_index]
  BY <1>1, <1>2 DEF Indices
<1>4. Indices[r] = pool[r].l_token_mining_index
  BY DEF Indices
<1> QED
  BY <1>1, <1>2, <1>3, <1>4, MineStep

LEMMA RefreshPoolMines ==
  ASSUME HolderInvariant, HolderInvariant', NEW r \in Reserves, RefreshPool(r),
         UNCHANGED mining
  PROVE  Eager!Mine(r)
<1> DEFINE new == UpdateSlot(RefreshIndex(pool[r], slot), slot)
<1>1. pool[r] \in PoolRecord /\ slot \in Nat /\ CanRefreshIndex(pool[r], slot)
      /\ Stores(r, new) /\ CanPack(new)
  BY ListAndPools DEF HolderInvariant, RefreshPool, Stores
<1>2. new \in PoolRecord /\ pool[r].l_token_mining_index <= new.l_token_mining_index
  BY <1>1, RefreshedPool
<1> HIDE DEF new
<1> QED
  BY <1>1, <1>2, PoolMines

LEMMA SupplyMines ==
  ASSUME HolderInvariant, HolderInvariant', NEW c \in SupplyChanges,
         Supplied(c[1], c[2]) \/ Redeemed(c[1], c[2]), UNCHANGED mining
  PROVE  c[1] \in Reserves /\ Eager!Mine(c[1])
<1>1. c[1] \in Reserves /\ c[2] \in 0..MaxU64 /\ pool[c[1]] \in PoolRecord
  BY ListAndPools, LedgerAssumption DEF HolderInvariant
<1>2. PICK new \in PoolRecord : /\ Stores(c[1], new)
                                /\ new.l_token_mining_index = pool[c[1]].l_token_mining_index
  <2>1. CASE Supplied(c[1], c[2])
    BY <1>1, <2>1, SuppliedPool DEF Supplied
  <2>2. CASE Redeemed(c[1], c[2])
    BY <1>1, <2>2, RedeemedPool DEF Redeemed
  <2> QED
    BY <2>1, <2>2
<1>3. pool[c[1]].l_token_mining_index \in Nat
  BY <1>1, Widths DEF PoolRecord
<1> QED
  BY <1>1, <1>2, <1>3, PoolMines

-----------------------------------------------------------------------------
\* The ticket
LEMMA InitTicketUnmoved ==
  ASSUME HolderInvariant, HolderInvariant', Blank, InitTicket, UNCHANGED mining
  PROVE  UNCHANGED Eager!vars
<1>1. /\ ticket.deposits = << >> /\ ticket.unclaimed_mine = 0
      /\ ticket'.deposits = << >> /\ ticket'.unclaimed_mine = 0
      /\ UNCHANGED pool
  BY DEF Blank, InitTicket, NewTicket, UninitializedTicket
<1>2. Deposited' = Deposited
  BY <1>1 DEF Deposited
<1> QED
  BY <1>1, <1>2, TicketMoves, Unmoved

LEMMA FindOrAddUnmoved ==
  ASSUME HolderInvariant, HolderInvariant', NEW r \in Reserves, FindOrAddCollateral(r),
         UNCHANGED mining
  PROVE  UNCHANGED Eager!vars
<1> DEFINE e == NewCollateral(r, pool[r].l_token_mining_index)
           list == Append(ticket.deposits, e)
<1>1. /\ ticket' = FindOrAdd(ticket, r, pool[r].l_token_mining_index)
      /\ UNCHANGED <<slot, pool, peak>>
  BY DEF FindOrAddCollateral
<1>2. CASE Holds(ticket, r)
  <2>1. UNCHANGED ticket
    BY <1>1, <1>2 DEF FindOrAdd
  <2>2. Deposited' = Deposited
    BY <2>1 DEF Deposited
  <2> QED
    BY <1>1, <2>1, <2>2, TicketMoves, Unmoved
<1>3. CASE ~Holds(ticket, r)
  <2>1. PICK s \in Seq(TicketEntry) : s = ticket.deposits
    BY ListAndPools DEF HolderInvariant
  <2>2. ticket'.deposits = list /\ ticket'.unclaimed_mine = ticket.unclaimed_mine
    BY <1>1, <1>3, ListAndPools DEF FindOrAdd, TicketRecord, HolderInvariant
  <2>3. e \in TicketEntry /\ e.deposited_amount = 0
    <3>1. pool[r].l_token_mining_index \in 0..MaxU128
      BY StoredMining DEF PoolRecord
    <3> QED
      BY <3>1, Widths DEF TicketEntry, TicketCollateral, NewCollateral
  <2> HIDE DEF e
  <2>4. PICK t : t = Append(s, e)
    OBVIOUS
  <2>5. /\ t \in Seq(TicketEntry) /\ Len(t) = Len(s) + 1
        /\ \A i \in 1..Len(s) : t[i] = s[i]
        /\ t[Len(s) + 1] = e
    BY <2>3, <2>4, AppendProperties
  <2>6. PICK n \in Nat : n = Len(s)
    BY LenProperties
  <2>7. PICK k \in [1..n -> Slice] : k = TicketSlices(s)
    BY <2>6, TicketSlicesOf
  <2>8. PICK l \in [1..(n + 1) -> Slice] : l = TicketSlices(t)
    BY <2>5, <2>6, TicketSlicesOf
  <2>9. l[n + 1].amount = 0
    BY <2>3, <2>5, <2>6, <2>8, TicketSlicesOf
  <2>10. \A i \in 1..n : l[i] = k[i]
    <3>1. DOMAIN s = 1..n /\ DOMAIN t = 1..(n + 1)
      BY <2>5, <2>6, LenProperties
    <3> QED
      BY <2>5, <2>6, <2>7, <2>8, <3>1 DEF TicketSlices
  <2>11. ASSUME NEW at \in [Reserves -> Nat], NEW p
         PROVE  Held(l, p) = Held(k, p) /\ Due(l, at) = Due(k, at)
    BY <2>9, <2>10, SliceAdded
  <2>12. Deposited' = l /\ Deposited = k
    BY <2>1, <2>2, <2>4, <2>7, <2>8 DEF Deposited
  <2>13. Indices \in [Reserves -> Nat]
    BY MappedNow DEF Mapped
  <2>14. Due(l, Indices) = Due(k, Indices) /\ \A p : Held(l, p) = Held(k, p)
    BY <2>11, <2>13
  <2> QED
    BY <1>1, <2>2, <2>12, <2>14, TicketMoves, Unmoved
<1> QED
  BY <1>2, <1>3

\* An entry that stands where its pool stands, changed in place or dropped.
LEMMA ChangedDeposit ==
  ASSUME NEW s \in Seq(TicketEntry), NEW i \in DOMAIN s, NEW e \in TicketEntry,
         e.deposit_reserve = s[i].deposit_reserve, e.index = s[i].index,
         NEW at \in [Reserves -> Nat], s[i].index = at[s[i].deposit_reserve]
  PROVE  LET t == [s EXCEPT ![i] = e]
         IN  /\ Due(TicketSlices(t), at) = Due(TicketSlices(s), at)
             /\ \A p : p # s[i].deposit_reserve
                  => Held(TicketSlices(t), p) = Held(TicketSlices(s), p)
<1>1. PICK t : t = [s EXCEPT ![i] = e]
  OBVIOUS
<1>2. /\ t \in Seq(TicketEntry) /\ Len(t) = Len(s) /\ DOMAIN t = DOMAIN s
      /\ \A j \in DOMAIN s : t[j] = IF j = i THEN e ELSE s[j]
  BY <1>1, ExceptSeq
<1>3. PICK n \in Nat : n = Len(s)
  BY LenProperties
<1>4. DOMAIN s = 1..n /\ i \in 1..n
  BY <1>3, LenProperties
<1>5. PICK k \in [1..n -> Slice] : k = TicketSlices(s)
  BY <1>3, TicketSlicesOf
<1>6. PICK l \in [1..n -> Slice] : l = TicketSlices(t)
  BY <1>2, <1>3, TicketSlicesOf
<1>7. \A j \in 1..n \ {i} : l[j] = k[j]
  BY <1>2, <1>4, <1>5, <1>6 DEF TicketSlices
<1>8. /\ k[i].reserve = s[i].deposit_reserve /\ k[i].index = s[i].index
      /\ l[i].reserve = k[i].reserve /\ l[i].index = k[i].index
  BY <1>2, <1>3, <1>4, <1>5, <1>6, TicketSlicesOf
<1>9. Due(l, at) = Due(k, at) /\ \A p : p # k[i].reserve => Held(l, p) = Held(k, p)
  BY <1>4, <1>7, <1>8, SettledSliceChanged
<1> QED
  BY <1>1, <1>5, <1>6, <1>8, <1>9

LEMMA DroppedDeposit ==
  ASSUME NEW s \in Seq(TicketEntry), NEW i \in DOMAIN s,
         NEW at \in [Reserves -> Nat], s[i].index = at[s[i].deposit_reserve]
  PROVE  LET t == RemoveAt(s, i)
         IN  /\ Due(TicketSlices(t), at) = Due(TicketSlices(s), at)
             /\ \A p : p # s[i].deposit_reserve
                  => Held(TicketSlices(t), p) = Held(TicketSlices(s), p)
<1>1. PICK t : t = RemoveAt(s, i)
  OBVIOUS
<1>2. /\ t \in Seq(TicketEntry) /\ Len(t) = Len(s) - 1
      /\ \A j \in DOMAIN t : AfterRemoval(i, j) \in DOMAIN s /\ t[j] = s[AfterRemoval(i, j)]
  BY <1>1, RemovedElement
<1>3. PICK n \in Nat : n = Len(t)
  BY <1>2, LenProperties
<1>4. DOMAIN t = 1..n /\ DOMAIN s = 1..(n + 1) /\ Len(s) = n + 1 /\ i \in 1..(n + 1)
  BY <1>2, <1>3, LenProperties
<1>5. PICK k \in [1..(n + 1) -> Slice] : k = TicketSlices(s)
  BY <1>4, TicketSlicesOf
<1>6. PICK l \in [1..n -> Slice] : l = TicketSlices(t)
  BY <1>2, <1>3, TicketSlicesOf
<1>7. \A j \in 1..n : l[j] = IF j < i THEN k[j] ELSE k[j + 1]
  <2>1. \A j \in 1..n : l[j] = k[AfterRemoval(i, j)]
    BY <1>2, <1>4, <1>5, <1>6 DEF TicketSlices
  <2> QED
    BY <2>1 DEF AfterRemoval
<1>8. k[i].reserve = s[i].deposit_reserve /\ k[i].index = s[i].index
  BY <1>4, <1>5, TicketSlicesOf
<1>9. Due(l, at) = Due(k, at) /\ \A p : p # k[i].reserve => Held(l, p) = Held(k, p)
  BY <1>4, <1>7, <1>8, SettledSliceDropped
<1> QED
  BY <1>1, <1>5, <1>6, <1>8, <1>9

LEMMA DepositHolds ==
  ASSUME HolderInvariant, HolderInvariant', NEW i \in DOMAIN ticket.deposits,
         NEW n \in 0..MaxU64, TicketSettled, Deposit(i, n), UNCHANGED mining
  PROVE  LET r == ticket.deposits[i].deposit_reserve IN r \in Reserves /\ Eager!Hold(r)
<1>1. PICK s \in Seq(TicketEntry) : s = ticket.deposits
  BY ListAndPools DEF HolderInvariant
<1>2. i \in DOMAIN s /\ s[i] \in TicketEntry /\ s[i].deposit_reserve \in Reserves
  BY <1>1, ListAndPools DEF HolderInvariant, TicketEntry, TicketCollateral
<1>3. PICK e : e = [s[i] EXCEPT !.deposited_amount = @ + n]
  OBVIOUS
<1>4. e \in TicketEntry /\ e.deposit_reserve = s[i].deposit_reserve /\ e.index = s[i].index
  <2>1. s[i].deposited_amount \in 0..MaxU64
    BY <1>2 DEF TicketEntry, TicketCollateral
  <2>2. s[i].deposited_amount + n \in 0..MaxU64
    BY <1>1, <2>1, Widths DEF Deposit, CanDepositTo
  <2> QED
    BY <1>2, <1>3, <2>2 DEF TicketEntry, TicketCollateral
<1>5. /\ ticket'.deposits = [s EXCEPT ![i] = e]
      /\ ticket'.unclaimed_mine = ticket.unclaimed_mine /\ UNCHANGED pool
  <2>1. ticket' = [ticket EXCEPT !.deposits = [s EXCEPT ![i] = e]]
    BY <1>1, <1>3 DEF Deposit, DepositTo
  <2> QED
    BY <2>1, ListAndPools DEF HolderInvariant, TicketRecord, Deposit
<1>6. PICK at \in [Reserves -> Nat] : at = Indices
  BY MappedNow DEF Mapped
<1>7. s[i].index = at[s[i].deposit_reserve]
  BY <1>1, <1>2, <1>6 DEF TicketSettled, Indices
<1>8. /\ Due(TicketSlices([s EXCEPT ![i] = e]), at) = Due(TicketSlices(s), at)
      /\ \A p : p # s[i].deposit_reserve
           => Held(TicketSlices([s EXCEPT ![i] = e]), p) = Held(TicketSlices(s), p)
  BY <1>2, <1>4, <1>7, ChangedDeposit
<1>9. Deposited = TicketSlices(s) /\ Deposited' = TicketSlices([s EXCEPT ![i] = e])
  BY <1>1, <1>5 DEF Deposited
<1> QED
  BY <1>1, <1>2, <1>5, <1>6, <1>8, <1>9, TicketMoves, HoldStep

LEMMA WithdrawHolds ==
  ASSUME HolderInvariant, HolderInvariant', NEW i \in DOMAIN ticket.deposits,
         NEW n \in 0..MaxU64, TicketSettled, Withdraw(i, n), UNCHANGED mining
  PROVE  LET r == ticket.deposits[i].deposit_reserve IN r \in Reserves /\ Eager!Hold(r)
<1>1. PICK s \in Seq(TicketEntry) : s = ticket.deposits
  BY ListAndPools DEF HolderInvariant
<1>2. i \in DOMAIN s /\ s[i] \in TicketEntry /\ s[i].deposit_reserve \in Reserves
  BY <1>1, ListAndPools DEF HolderInvariant, TicketEntry, TicketCollateral
<1>3. PICK at \in [Reserves -> Nat] : at = Indices
  BY MappedNow DEF Mapped
<1>4. s[i].index = at[s[i].deposit_reserve]
  BY <1>1, <1>2, <1>3 DEF TicketSettled, Indices
<1>5. /\ n <= s[i].deposited_amount /\ ticket' = WithdrawFrom(ticket, i, n)
      /\ UNCHANGED pool
  BY <1>1 DEF Withdraw, CanWithdrawFrom
<1>6. ASSUME NEW list, ticket' = [ticket EXCEPT !.deposits = list],
             Due(TicketSlices(list), at) = Due(TicketSlices(s), at),
             \A p : p # s[i].deposit_reserve
               => Held(TicketSlices(list), p) = Held(TicketSlices(s), p)
      PROVE  Eager!Hold(s[i].deposit_reserve)
  <2>1. ticket'.deposits = list /\ ticket'.unclaimed_mine = ticket.unclaimed_mine
    BY <1>6, ListAndPools DEF HolderInvariant, TicketRecord
  <2>2. Deposited = TicketSlices(s) /\ Deposited' = TicketSlices(list)
    BY <1>1, <2>1 DEF Deposited
  <2> QED
    BY <1>2, <1>3, <1>5, <1>6, <2>1, <2>2, TicketMoves, HoldStep
<1>7. CASE n = s[i].deposited_amount
  <2>1. ticket' = [ticket EXCEPT !.deposits = RemoveAt(s, i)]
    BY <1>1, <1>5, <1>7 DEF WithdrawFrom
  <2>2. PICK list : list = RemoveAt(s, i)
    OBVIOUS
  <2>3. /\ Due(TicketSlices(list), at) = Due(TicketSlices(s), at)
        /\ \A p : p # s[i].deposit_reserve
             => Held(TicketSlices(list), p) = Held(TicketSlices(s), p)
    BY <1>2, <1>4, <2>2, DroppedDeposit
  <2>4. ticket' = [ticket EXCEPT !.deposits = list]
    BY <2>1, <2>2
  <2> QED
    BY <1>1, <1>2, <1>6, <2>3, <2>4
<1>8. CASE n # s[i].deposited_amount
  <2>1. PICK e : e = [s[i] EXCEPT !.deposited_amount = @ - n]
    OBVIOUS
  <2>2. e \in TicketEntry /\ e.deposit_reserve = s[i].deposit_reserve /\ e.index = s[i].index
    <3>1. s[i].deposited_amount \in 0..MaxU64
      BY <1>2 DEF TicketEntry, TicketCollateral
    <3>2. s[i].deposited_amount - n \in 0..MaxU64
      BY <1>5, <3>1, Widths
    <3> QED
      BY <1>2, <2>1, <3>2 DEF TicketEntry, TicketCollateral
  <2>3. ticket' = [ticket EXCEPT !.deposits = [s EXCEPT ![i] = e]]
    BY <1>1, <1>5, <1>8, <2>1 DEF WithdrawFrom
  <2>4. PICK list : list = [s EXCEPT ![i] = e]
    OBVIOUS
  <2>5. /\ Due(TicketSlices(list), at) = Due(TicketSlices(s), at)
        /\ \A p : p # s[i].deposit_reserve
             => Held(TicketSlices(list), p) = Held(TicketSlices(s), p)
    BY <1>2, <1>4, <2>2, <2>4, ChangedDeposit
  <2>6. ticket' = [ticket EXCEPT !.deposits = list]
    BY <2>3, <2>4
  <2> QED
    BY <1>1, <1>2, <1>6, <2>5, <2>6
<1> QED
  BY <1>1, <1>2, <1>7, <1>8

\* A refresh credits all that is due on the entries of the ticket.
LEMMA RefreshTicketUnmoved ==
  ASSUME HolderInvariant, HolderInvariant', NEW reserves, RefreshTicket(reserves),
         UNCHANGED mining
  PROVE  UNCHANGED Eager!vars
<1>1. PICK s \in Seq(TicketEntry) : s = ticket.deposits
  BY ListAndPools DEF HolderInvariant
<1>2. PICK n \in Nat : n = Len(s)
  BY LenProperties
<1>3. DOMAIN s = 1..n /\ IsFiniteSet(1..n)
  BY <1>2, LenProperties, PositionsFinite
<1>4. PICK t : t = ticket'.deposits
  OBVIOUS
<1>5. PICK f : f = [i \in DOMAIN s |-> Earned(pool, s[i])]
  OBVIOUS
<1>6. /\ t = [i \in DOMAIN s |-> CreditedDeposit(pool, s[i])]
      /\ ticket'.unclaimed_mine = ticket.unclaimed_mine + SumFunctionOnSet(f, 1..n)
      /\ \A i \in 1..n : Earned(pool, s[i]) # Err
      /\ UNCHANGED pool
  BY <1>1, <1>3, <1>4, <1>5, RefreshCredits DEF HolderInvariant
<1>7. t \in Seq(TicketEntry) /\ Len(t) = n
  <2>1. t \in Seq(TicketEntry) /\ DOMAIN t = 1..Len(t) /\ Len(t) \in Nat
    <3>1. ticket' \in TicketRecord(Reserves)
      BY DEF HolderInvariant, IInv, TypeOK
    <3>2. t \in Seq(TicketEntry)
      BY <1>4, <3>1 DEF TicketRecord, TicketEntry
    <3> QED
      BY <3>2, LenProperties
  <2>2. DOMAIN t = 1..n
    BY <1>3, <1>6
  <2>3. ASSUME NEW a \in Nat, NEW b \in Nat, 1..a = 1..b PROVE a <= b
    <3>1. a = 0 \/ a \in 1..b
      BY <2>3
    <3> QED
      BY <3>1
  <2>4. PICK m \in Nat : m = Len(t)
    BY <2>1
  <2>5. n <= m /\ m <= n
    BY <2>1, <2>2, <2>3, <2>4
  <2>6. m = n
    BY <2>5
  <2> QED
    BY <2>1, <2>4, <2>6
<1>8. PICK at \in [Reserves -> Nat] : at = Indices
  BY MappedNow DEF Mapped
<1>9. PICK k \in [1..n -> Slice] : k = TicketSlices(s)
  BY <1>2, TicketSlicesOf
<1>10. PICK l \in [1..n -> Slice] : l = TicketSlices(t)
  BY <1>7, TicketSlicesOf
<1>11. ASSUME NEW i \in 1..n
       PROVE  /\ l[i].reserve = k[i].reserve /\ l[i].amount = k[i].amount
              /\ l[i].index = at[k[i].reserve]
  <2>1. s[i] \in TicketEntry /\ s[i].deposit_reserve \in Reserves
    <3>1. s[i] \in TicketEntry
      BY <1>2, ElementOfSeq
    <3> QED
      BY <3>1 DEF TicketEntry, TicketCollateral
  <2>2. t[i] = CreditedDeposit(pool, s[i])
    BY <1>3, <1>6
  <2>3. /\ t[i].deposit_reserve = s[i].deposit_reserve
        /\ t[i].deposited_amount = s[i].deposited_amount
        /\ t[i].index = at[s[i].deposit_reserve]
    BY <1>8, <2>1, <2>2 DEF CreditedDeposit, TicketEntry, TicketCollateral, Indices
  <2> QED
    BY <1>2, <1>7, <1>9, <1>10, <2>3, TicketSlicesOf
<1>12. ASSUME NEW p PROVE Held(l, p) = Held(k, p) /\ Due(l, at) = 0
  BY <1>11, SlicesCredited
<1>13. SumFunctionOnSet(f, 1..n) = Due(k, at)
  <2>1. PICK d : d = DueTerms(k, at)
    OBVIOUS
  <2>2. DOMAIN k = 1..n /\ \A i \in 1..n : d[i] = DueTerm(k[i], at) /\ d[i] \in Int
    <3>1. /\ DOMAIN k = 1..n
          /\ \A i \in 1..n : /\ DueTerms(k, at)[i] = DueTerm(k[i], at)
                             /\ DueTerms(k, at)[i] \in Int
      BY DueTermsOf
    <3> QED
      BY ONLY <2>1, <3>1
  <2>3. ASSUME NEW i \in 1..n PROVE f[i] = d[i]
    <3>1. /\ s[i].deposited_amount \in Nat /\ s[i].deposit_reserve \in Reserves
          /\ MiningIndexOf(pool, s[i].deposit_reserve) - s[i].index \in Nat
          /\ f[i] = (MiningIndexOf(pool, s[i].deposit_reserve) - s[i].index)
                      * s[i].deposited_amount
      BY <1>1, <1>3, <1>5, <1>6, EarnedAmount DEF HolderInvariant
    <3>2. d[i] = s[i].deposited_amount
                   * (MiningIndexOf(pool, s[i].deposit_reserve) - s[i].index)
      BY <1>2, <1>8, <1>9, <2>2, <3>1, TicketSlicesOf DEF DueTerm, MiningIndexOf, Indices
    <3>3. \A x, y \in Nat : x * y = y * x
      BY Z3
    <3> QED
      BY <3>1, <3>2, <3>3
  <2>4. \A i \in 1..n : d[i] \in Int /\ d[i] = f[i]
    BY <2>2, <2>3
  <2>5. SumFunctionOnSet(d, 1..n) = SumFunctionOnSet(f, 1..n)
    BY <1>3, <2>4, SumSame, SMTT(30)
  <2> QED
    BY <2>1, <2>2, <2>5 DEF Due
<1>14. Due(k, at) \in Int /\ ticket.unclaimed_mine \in Nat
  BY DueTermsOf, MappedNow DEF Mapped
<1>15. Deposited = k /\ Deposited' = l
  BY <1>1, <1>4, <1>9, <1>10 DEF Deposited
<1>16. ticket'.unclaimed_mine + Due(l, at) = ticket.unclaimed_mine + Due(k, at)
  BY <1>6, <1>12, <1>13, <1>14
<1> QED
  BY <1>6, <1>8, <1>12, <1>15, <1>16, TicketMoves, Unmoved

-----------------------------------------------------------------------------
\* The mining account
LEMMA InitMiningUnmoved ==
  ASSUME HolderInvariant, HolderInvariant', Blank, InitMining
  PROVE  UNCHANGED Eager!vars
<1>1. /\ mining.mining_indices = << >> /\ mining.unclaimed_mine = 0
      /\ mining'.mining_indices = << >> /\ mining'.unclaimed_mine = 0
      /\ UNCHANGED <<pool, ticket>>
  BY DEF Blank, InitMining, StoresMining, NewMining, vars
<1>2. Uncollected' = Uncollected
  BY <1>1 DEF Uncollected
<1> QED
  BY <1>1, <1>2, MiningMoves, Unmoved

LEMMA AddReserveUnmoved ==
  ASSUME HolderInvariant, HolderInvariant', NEW r \in Reserves, AddReserve(r)
  PROVE  UNCHANGED Eager!vars
<1> DEFINE e == NewMiningIndex(r, pool[r].l_token_mining_index)
           list == Append(mining.mining_indices, e)
<1>1. /\ mining' = FindOrAddReserve(mining, r, pool[r].l_token_mining_index)
      /\ UNCHANGED <<pool, ticket>>
  BY DEF AddReserve, StoresMining, vars
<1>2. CASE Lists(mining, r)
  <2>1. UNCHANGED mining
    BY <1>1, <1>2 DEF FindOrAddReserve
  <2>2. Uncollected' = Uncollected
    BY <2>1 DEF Uncollected
  <2> QED
    BY <1>1, <2>1, <2>2, MiningMoves, Unmoved
<1>3. CASE ~Lists(mining, r)
  <2>1. PICK s \in Seq(MiningEntry) : s = mining.mining_indices
    BY StoredMining
  <2>2. mining'.mining_indices = list /\ mining'.unclaimed_mine = mining.unclaimed_mine
    BY <1>1, <1>3, StoredMining DEF FindOrAddReserve, MiningRecord
  <2>3. e \in MiningEntry /\ e.un_coll_l_token_amount = 0
    <3>1. pool[r].l_token_mining_index \in 0..MaxU128
      BY StoredMining DEF PoolRecord
    <3> QED
      BY <3>1, Widths DEF MiningEntry, MiningIndex, NewMiningIndex
  <2> HIDE DEF e
  <2>4. PICK t : t = Append(s, e)
    OBVIOUS
  <2>5. /\ t \in Seq(MiningEntry) /\ Len(t) = Len(s) + 1
        /\ \A i \in 1..Len(s) : t[i] = s[i]
        /\ t[Len(s) + 1] = e
    BY <2>3, <2>4, AppendProperties
  <2>6. PICK n \in Nat : n = Len(s)
    BY LenProperties
  <2>7. PICK k \in [1..n -> Slice] : k = MiningSlices(s)
    BY <2>6, MiningSlicesOf
  <2>8. PICK l \in [1..(n + 1) -> Slice] : l = MiningSlices(t)
    BY <2>5, <2>6, MiningSlicesOf
  <2>9. l[n + 1].amount = 0
    BY <2>3, <2>5, <2>6, <2>8, MiningSlicesOf
  <2>10. \A i \in 1..n : l[i] = k[i]
    <3>1. DOMAIN s = 1..n /\ DOMAIN t = 1..(n + 1)
      BY <2>5, <2>6, LenProperties
    <3> QED
      BY <2>5, <2>6, <2>7, <2>8, <3>1 DEF MiningSlices
  <2>11. ASSUME NEW at \in [Reserves -> Nat], NEW p
         PROVE  Held(l, p) = Held(k, p) /\ Due(l, at) = Due(k, at)
    BY <2>9, <2>10, SliceAdded
  <2>12. Uncollected' = l /\ Uncollected = k
    BY <2>1, <2>2, <2>4, <2>7, <2>8 DEF Uncollected
  <2>13. Indices \in [Reserves -> Nat]
    BY MappedNow DEF Mapped
  <2>14. Due(l, Indices) = Due(k, Indices) /\ \A p : Held(l, p) = Held(k, p)
    BY <2>11, <2>13
  <2> QED
    BY <1>1, <2>2, <2>12, <2>14, MiningMoves, Unmoved
<1> QED
  BY <1>2, <1>3

LEMMA MiningSliceChanged ==
  ASSUME NEW s \in Seq(MiningEntry), NEW i \in DOMAIN s, NEW e \in MiningEntry,
         e.reserve = s[i].reserve
  PROVE  LET k == MiningSlices(s)
             l == MiningSlices([s EXCEPT ![i] = e])
         IN  /\ k \in [1..Len(s) -> Slice] /\ l \in [1..Len(s) -> Slice]
             /\ Len(s) \in Nat /\ i \in 1..Len(s)
             /\ \A j \in 1..Len(s) \ {i} : l[j] = k[j]
             /\ k[i].reserve = s[i].reserve /\ k[i].index = s[i].index
             /\ k[i].amount = s[i].un_coll_l_token_amount
             /\ l[i].reserve = s[i].reserve /\ l[i].index = e.index
             /\ l[i].amount = e.un_coll_l_token_amount
<1>1. PICK t : t = [s EXCEPT ![i] = e]
  OBVIOUS
<1>2. /\ t \in Seq(MiningEntry) /\ Len(t) = Len(s) /\ DOMAIN t = DOMAIN s
      /\ \A j \in DOMAIN s : t[j] = IF j = i THEN e ELSE s[j]
  BY <1>1, ExceptSeq
<1>3. DOMAIN s = 1..Len(s) /\ Len(s) \in Nat /\ i \in 1..Len(s)
  BY LenProperties
<1>4. \A j \in 1..Len(s) \ {i} : MiningSlices(t)[j] = MiningSlices(s)[j]
  BY <1>2, <1>3 DEF MiningSlices
<1> QED
  BY <1>1, <1>2, <1>3, <1>4, MiningSlicesOf

\* What is credited on an entry is what was due on it.
LEMMA CreditMiningUnmoved ==
  ASSUME HolderInvariant, HolderInvariant', NEW r \in Reserves, CreditMining(r)
  PROVE  UNCHANGED Eager!vars
<1>1. PICK s \in Seq(MiningEntry) : s = mining.mining_indices
  BY StoredMining
<1>2. PICK i : i = Entry(r)
  OBVIOUS
<1>3. i \in DOMAIN s /\ s[i] \in MiningEntry /\ s[i].reserve = r
  BY <1>1, <1>2, StoredMining, FoundEntry DEF CreditMining, Entry
<1>4. PICK at \in [Reserves -> Nat] : at = Indices
  BY MappedNow DEF Mapped
<1>5. at[r] = pool[r].l_token_mining_index /\ at[r] \in Nat
  BY <1>4 DEF Indices
<1>6. s[i].index \in Nat /\ s[i].un_coll_l_token_amount \in Nat
  BY <1>3, Widths DEF MiningEntry, MiningIndex
<1>7. PICK e : e = [s[i] EXCEPT !.index = at[r]]
  OBVIOUS
<1>8. e \in MiningEntry /\ e.reserve = r /\ e.index = at[r]
      /\ e.un_coll_l_token_amount = s[i].un_coll_l_token_amount
  <2>1. pool[r].l_token_mining_index \in 0..MaxU128
    BY StoredMining DEF PoolRecord
  <2> QED
    BY <1>3, <1>5, <1>7, <2>1 DEF MiningEntry, MiningIndex
<1>9. /\ CanRefreshUnclaimed(mining, i, pool[r])
      /\ mining' = RefreshUnclaimed(mining, i, pool[r]) /\ UNCHANGED <<pool, ticket>>
  BY <1>2 DEF CreditMining, StoresMining, vars
<1>10. MineSince(s[i], pool[r]) = (at[r] - s[i].index) * s[i].un_coll_l_token_amount
       /\ at[r] - s[i].index \in Nat
  <2>1. MineSince(s[i], pool[r]) # Err
    BY <1>1, <1>9 DEF CanRefreshUnclaimed, TryAdd
  <2>2. TrySub(at[r], s[i].index, DecimalMax) # Err
        /\ MineSince(s[i], pool[r]) = Checked(TrySub(at[r], s[i].index, DecimalMax)
                                                * s[i].un_coll_l_token_amount, DecimalMax)
    BY <1>5, <2>1 DEF MineSince, TryMulInt
  <2>3. TrySub(at[r], s[i].index, DecimalMax) = at[r] - s[i].index
    BY <2>2 DEF TrySub, Checked
  <2>4. s[i].index <= at[r]
    BY <1>5, <1>6, <2>2 DEF TrySub, Checked, Err
  <2> QED
    BY <1>5, <1>6, <2>1, <2>2, <2>3, <2>4 DEF Checked
<1>11. /\ mining'.mining_indices = [s EXCEPT ![i] = e]
       /\ mining'.unclaimed_mine = mining.unclaimed_mine + MineSince(s[i], pool[r])
  <2>1. mining' = [mining EXCEPT !.unclaimed_mine = @ + MineSince(s[i], pool[r]),
                                 !.mining_indices = [s EXCEPT ![i] = e]]
    BY <1>1, <1>5, <1>7, <1>9 DEF RefreshUnclaimed
  <2> QED
    BY <2>1, StoredMining DEF MiningRecord
<1>12. PICK n \in Nat : n = Len(s)
  BY LenProperties
<1>13. PICK k : k = MiningSlices(s)
  OBVIOUS
<1>14. PICK l : l = MiningSlices([s EXCEPT ![i] = e])
  OBVIOUS
<1>15. /\ k \in [1..n -> Slice] /\ l \in [1..n -> Slice] /\ i \in 1..n
       /\ \A j \in 1..n \ {i} : l[j] = k[j]
       /\ k[i].reserve = r /\ k[i].index = s[i].index
       /\ k[i].amount = s[i].un_coll_l_token_amount
       /\ l[i].reserve = r /\ l[i].index = at[r] /\ l[i].amount = k[i].amount
  BY <1>3, <1>8, <1>12, <1>13, <1>14, MiningSliceChanged, ZenonT(60)
<1>16. Due(k, at) = Due(l, at) + DueTerm(k[i], at) /\ \A p : Held(l, p) = Held(k, p)
  <2>1. l[i].reserve = k[i].reserve /\ l[i].amount = k[i].amount /\ l[i].index = at[k[i].reserve]
    BY <1>15
  <2>2. \A j \in 1..n \ {i} : l[j] = k[j]
    BY <1>15
  <2>3. k \in [1..n -> Slice] /\ l \in [1..n -> Slice] /\ i \in 1..n
    BY <1>15
  <2> QED
    BY <2>1, <2>2, <2>3, SliceCredited
<1>17. DueTerm(k[i], at) = MineSince(s[i], pool[r])
  <2>1. DueTerm(k[i], at) = s[i].un_coll_l_token_amount * (at[r] - s[i].index)
    BY <1>15 DEF DueTerm
  <2>2. \A x, y \in Nat : x * y = y * x
    BY Z3
  <2> QED
    BY <1>6, <1>10, <2>1, <2>2
<1>18. Due(k, at) \in Int /\ Due(l, at) \in Int /\ DueTerm(k[i], at) \in Int
       /\ mining.unclaimed_mine \in Nat
  BY <1>15, DueTermsOf, SliceTerm, MappedNow DEF Mapped
<1>19. mining'.unclaimed_mine + Due(l, at) = mining.unclaimed_mine + Due(k, at)
  BY <1>11, <1>16, <1>17, <1>18
<1>20. Uncollected = k /\ Uncollected' = l
  BY <1>1, <1>11, <1>13, <1>14 DEF Uncollected
<1> QED
  BY <1>4, <1>9, <1>16, <1>19, <1>20, MiningMoves, Unmoved

LEMMA ChangedHolding ==
  ASSUME NEW s \in Seq(MiningEntry), NEW i \in DOMAIN s, NEW e \in MiningEntry,
         e.reserve = s[i].reserve, e.index = s[i].index,
         NEW at \in [Reserves -> Nat], s[i].index = at[s[i].reserve]
  PROVE  LET t == [s EXCEPT ![i] = e]
         IN  /\ Due(MiningSlices(t), at) = Due(MiningSlices(s), at)
             /\ \A p : p # s[i].reserve => Held(MiningSlices(t), p) = Held(MiningSlices(s), p)
<1>1. PICK n \in Nat : n = Len(s)
  BY LenProperties
<1>2. PICK k : k = MiningSlices(s)
  OBVIOUS
<1>3. PICK l : l = MiningSlices([s EXCEPT ![i] = e])
  OBVIOUS
<1>4. /\ k \in [1..n -> Slice] /\ l \in [1..n -> Slice] /\ i \in 1..n
      /\ \A j \in 1..n \ {i} : l[j] = k[j]
      /\ k[i].reserve = s[i].reserve /\ k[i].index = s[i].index
      /\ l[i].reserve = s[i].reserve /\ l[i].index = e.index
  BY <1>1, <1>2, <1>3, MiningSliceChanged
<1>5. Due(l, at) = Due(k, at) /\ \A p : p # k[i].reserve => Held(l, p) = Held(k, p)
  BY <1>4, SettledSliceChanged
<1> QED
  BY <1>2, <1>3, <1>4, <1>5

LEMMA DroppedHolding ==
  ASSUME NEW s \in Seq(MiningEntry), NEW i \in DOMAIN s,
         NEW at \in [Reserves -> Nat], s[i].index = at[s[i].reserve]
  PROVE  LET t == RemoveAt(s, i)
         IN  /\ Due(MiningSlices(t), at) = Due(MiningSlices(s), at)
             /\ \A p : p # s[i].reserve => Held(MiningSlices(t), p) = Held(MiningSlices(s), p)
<1>1. PICK t : t = RemoveAt(s, i)
  OBVIOUS
<1>2. /\ t \in Seq(MiningEntry) /\ Len(t) = Len(s) - 1
      /\ \A j \in DOMAIN t : AfterRemoval(i, j) \in DOMAIN s /\ t[j] = s[AfterRemoval(i, j)]
  BY <1>1, RemovedElement
<1>3. PICK n \in Nat : n = Len(t)
  BY <1>2, LenProperties
<1>4. DOMAIN t = 1..n /\ DOMAIN s = 1..(n + 1) /\ Len(s) = n + 1 /\ i \in 1..(n + 1)
  BY <1>2, <1>3, LenProperties
<1>5. PICK k \in [1..(n + 1) -> Slice] : k = MiningSlices(s)
  BY <1>4, MiningSlicesOf
<1>6. PICK l \in [1..n -> Slice] : l = MiningSlices(t)
  BY <1>2, <1>3, MiningSlicesOf
<1>7. \A j \in 1..n : l[j] = IF j < i THEN k[j] ELSE k[j + 1]
  <2>1. \A j \in 1..n : l[j] = k[AfterRemoval(i, j)]
    BY <1>2, <1>4, <1>5, <1>6 DEF MiningSlices
  <2> QED
    BY <2>1 DEF AfterRemoval
<1>8. k[i].reserve = s[i].reserve /\ k[i].index = s[i].index
  BY <1>4, <1>5, MiningSlicesOf
<1>9. Due(l, at) = Due(k, at) /\ \A p : p # k[i].reserve => Held(l, p) = Held(k, p)
  BY <1>4, <1>7, <1>8, SettledSliceDropped
<1> QED
  BY <1>1, <1>5, <1>6, <1>8, <1>9

LEMMA AcquireHolds ==
  ASSUME HolderInvariant, HolderInvariant', NEW r \in Reserves, NEW n \in 0..MaxU64,
         Acquire(r, n)
  PROVE  Eager!Hold(r)
<1>1. PICK s \in Seq(MiningEntry) : s = mining.mining_indices
  BY StoredMining
<1>2. PICK i : i = Entry(r)
  OBVIOUS
<1>3. i \in DOMAIN s /\ s[i] \in MiningEntry /\ s[i].reserve = r
  BY <1>1, <1>2, StoredMining, FoundEntry DEF Acquire, Entry
<1>4. PICK at \in [Reserves -> Nat] : at = Indices
  BY MappedNow DEF Mapped
<1>5. s[i].index = at[s[i].reserve]
  BY <1>1, <1>2, <1>3, <1>4 DEF Acquire, MiningSettled, Indices
<1>6. PICK e : e = [s[i] EXCEPT !.un_coll_l_token_amount = @ + n]
  OBVIOUS
<1>7. e \in MiningEntry /\ e.reserve = s[i].reserve /\ e.index = s[i].index
  <2>1. s[i].un_coll_l_token_amount \in 0..MaxU64
    BY <1>3 DEF MiningEntry, MiningIndex
  <2>2. s[i].un_coll_l_token_amount + n \in 0..MaxU64
    BY <1>1, <1>2, <2>1, Widths DEF Acquire, CanDepositMining
  <2> QED
    BY <1>3, <1>6, <2>2 DEF MiningEntry, MiningIndex
<1>8. /\ mining'.mining_indices = [s EXCEPT ![i] = e]
      /\ mining'.unclaimed_mine = mining.unclaimed_mine /\ UNCHANGED <<pool, ticket>>
  <2>1. /\ mining' = [mining EXCEPT !.mining_indices = [s EXCEPT ![i] = e]]
        /\ UNCHANGED <<pool, ticket>>
    BY <1>1, <1>2, <1>6 DEF Acquire, StoresMining, DepositMining, vars
  <2> QED
    BY <2>1, StoredMining DEF MiningRecord
<1>9. PICK t : t = [s EXCEPT ![i] = e]
  OBVIOUS
<1>10. /\ Due(MiningSlices(t), at) = Due(MiningSlices(s), at)
       /\ \A p : p # r => Held(MiningSlices(t), p) = Held(MiningSlices(s), p)
  BY <1>3, <1>5, <1>7, <1>9, ChangedHolding
<1>11. Uncollected = MiningSlices(s) /\ Uncollected' = MiningSlices(t)
  BY <1>1, <1>8, <1>9 DEF Uncollected
<1> QED
  BY <1>4, <1>8, <1>10, <1>11, MiningMoves, HoldStep

LEMMA PartWithHolds ==
  ASSUME HolderInvariant, HolderInvariant', NEW r \in Reserves, NEW n \in 0..MaxU64,
         PartWith(r, n)
  PROVE  Eager!Hold(r)
<1>1. PICK s \in Seq(MiningEntry) : s = mining.mining_indices
  BY StoredMining
<1>2. PICK i : i = Entry(r)
  OBVIOUS
<1>3. i \in DOMAIN s /\ s[i] \in MiningEntry /\ s[i].reserve = r
  BY <1>1, <1>2, StoredMining, FoundEntry DEF PartWith, Entry
<1>4. PICK at \in [Reserves -> Nat] : at = Indices
  BY MappedNow DEF Mapped
<1>5. s[i].index = at[s[i].reserve]
  BY <1>1, <1>2, <1>3, <1>4 DEF PartWith, MiningSettled, Indices
<1>6. /\ n <= s[i].un_coll_l_token_amount /\ mining' = WithdrawMining(mining, i, n)
      /\ UNCHANGED <<pool, ticket>>
  BY <1>1, <1>2 DEF PartWith, CanWithdrawMining, StoresMining, vars
<1>7. ASSUME NEW list, mining' = [mining EXCEPT !.mining_indices = list],
             Due(MiningSlices(list), at) = Due(MiningSlices(s), at),
             \A p : p # s[i].reserve => Held(MiningSlices(list), p) = Held(MiningSlices(s), p)
      PROVE  Eager!Hold(r)
  <2>1. mining'.mining_indices = list /\ mining'.unclaimed_mine = mining.unclaimed_mine
    BY <1>7, StoredMining DEF MiningRecord
  <2>2. Uncollected = MiningSlices(s) /\ Uncollected' = MiningSlices(list)
    BY <1>1, <2>1 DEF Uncollected
  <2> QED
    BY <1>3, <1>4, <1>6, <1>7, <2>1, <2>2, MiningMoves, HoldStep
<1>8. CASE n = s[i].un_coll_l_token_amount
  <2>1. PICK list : list = RemoveAt(s, i)
    OBVIOUS
  <2>2. mining' = [mining EXCEPT !.mining_indices = list]
    BY <1>1, <1>6, <1>8, <2>1 DEF WithdrawMining
  <2>3. /\ Due(MiningSlices(list), at) = Due(MiningSlices(s), at)
        /\ \A p : p # s[i].reserve => Held(MiningSlices(list), p) = Held(MiningSlices(s), p)
    BY <1>3, <1>5, <2>1, DroppedHolding
  <2> QED
    BY <1>7, <2>2, <2>3
<1>9. CASE n # s[i].un_coll_l_token_amount
  <2>1. PICK e : e = [s[i] EXCEPT !.un_coll_l_token_amount = @ - n]
    OBVIOUS
  <2>2. e \in MiningEntry /\ e.reserve = s[i].reserve /\ e.index = s[i].index
    <3>1. s[i].un_coll_l_token_amount \in 0..MaxU64
      BY <1>3 DEF MiningEntry, MiningIndex
    <3>2. s[i].un_coll_l_token_amount - n \in 0..MaxU64
      BY <1>6, <3>1, Widths
    <3> QED
      BY <1>3, <2>1, <3>2 DEF MiningEntry, MiningIndex
  <2>3. PICK list : list = [s EXCEPT ![i] = e]
    OBVIOUS
  <2>4. mining' = [mining EXCEPT !.mining_indices = list]
    BY <1>1, <1>6, <1>9, <2>1, <2>3 DEF WithdrawMining
  <2>5. /\ Due(MiningSlices(list), at) = Due(MiningSlices(s), at)
        /\ \A p : p # s[i].reserve => Held(MiningSlices(list), p) = Held(MiningSlices(s), p)
    BY <1>3, <1>5, <2>2, <2>3, ChangedHolding
  <2> QED
    BY <1>7, <2>4, <2>5
<1> QED
  BY <1>8, <1>9

-----------------------------------------------------------------------------
LEMMA HolderInitIsEager == HolderInit => Eager!Init
<1> SUFFICES ASSUME HolderInit PROVE Eager!Init
  OBVIOUS
<1>1. HolderInvariant /\ Mapped
  BY HolderInitHolds, MappedNow
<1>2. /\ ticket.deposits = << >> /\ ticket.unclaimed_mine = 0
      /\ mining.mining_indices = << >> /\ mining.unclaimed_mine = 0
  BY DEF HolderInit, Init, UninitializedTicket, UninitializedMining
<1>3. DOMAIN Deposited = {} /\ DOMAIN Uncollected = {}
  BY <1>2 DEF Deposited, Uncollected, TicketSlices, MiningSlices
<1>4. \A s, p, at : DOMAIN s = {} => Held(s, p) = 0 /\ Due(s, at) = 0
  BY SumEmpty DEF Held, Due
<1>5. EagerOwed = 0
  BY <1>1, <1>2, <1>3, <1>4 DEF Mapped
<1>6. \A r \in Reserves : EagerHeld[r] = 0
  BY <1>1, <1>3, <1>4 DEF Mapped
<1>7. EagerHeld = [r \in Reserves |-> 0]
  BY <1>6 DEF EagerHeld
<1> QED
  BY <1>1, <1>5, <1>7, EagerIs DEF Mapped

LEMMA HolderStepIsEager ==
  HolderInvariant /\ HolderInvariant' /\ Blank /\ [HolderNext]_holderVars
    => [Eager!Next]_(Eager!vars)
<1> SUFFICES ASSUME HolderInvariant, HolderInvariant', Blank, [HolderNext]_holderVars
             PROVE  Eager!Next \/ UNCHANGED Eager!vars
  OBVIOUS
<1>1. ASSUME UNCHANGED <<pool, ticket, mining>> PROVE UNCHANGED Eager!vars
  BY <1>1 DEF Eager!vars, TicketHeld, MiningHeld, NotYetCredited
<1>2. \A r \in Reserves : Eager!Mine(r) \/ Eager!Hold(r) => Eager!Next
  BY DEF Eager!Next
<1>3. \A n \in TicketAmounts : n \in 0..MaxU64
  BY LedgerAssumption
<1>4. \A n \in MiningAmounts : n \in 0..MaxU64
  BY HolderAssumption
<1>5. \A i \in DOMAIN ticket.deposits : i \in DOMAIN ticket.deposits
  OBVIOUS
<1>6. CASE UNCHANGED holderVars
  BY <1>1, <1>6 DEF holderVars, vars
<1>7. CASE TicketNext
  <2>1. UNCHANGED mining
    BY <1>7 DEF TicketNext
  <2>2. CASE Tick
    BY <1>1, <2>1, <2>2 DEF Tick
  <2>3. ASSUME NEW r \in Reserves, RefreshPool(r) PROVE Eager!Next
    BY <1>2, <2>1, <2>3, RefreshPoolMines
  <2>4. ASSUME NEW c \in SupplyChanges, Supplied(c[1], c[2]) \/ Redeemed(c[1], c[2])
        PROVE  Eager!Next
    BY <1>2, <2>1, <2>4, SupplyMines
  <2>5. ASSUME NEW i \in DOMAIN ticket.deposits, NEW n \in TicketAmounts,
               TicketSettled, Deposit(i, n) \/ Withdraw(i, n)
        PROVE  Eager!Next
    <3>1. /\ ticket.deposits[i].deposit_reserve \in Reserves
          /\ Eager!Hold(ticket.deposits[i].deposit_reserve)
      BY <1>3, <2>1, <2>5, DepositHolds, WithdrawHolds
    <3> QED
      BY <1>2, <3>1
  <2> QED
    BY <1>7, <2>1, <2>2, <2>3, <2>4, <2>5, InitTicketUnmoved, RefreshTicketUnmoved,
       FindOrAddUnmoved DEF TicketNext
<1>8. ASSUME NEW r \in Reserves, NEW n \in MiningAmounts, Acquire(r, n) \/ PartWith(r, n)
      PROVE  Eager!Next
  BY <1>2, <1>4, <1>8, AcquireHolds, PartWithHolds
<1> QED
  BY <1>6, <1>7, <1>8, InitMiningUnmoved, AddReserveUnmoved, CreditMiningUnmoved DEF HolderNext

(***************************************************************************)
(* The entries of both accounts, drawn up lazily, credited one by one or   *)
(* all at once, and dropped when they are empty, owe the holder what       *)
(* EagerMining owes: every advance of an index times what is held of the   *)
(* pool at that moment, and nothing else.                                  *)
(***************************************************************************)
THEOREM HolderImplementsEager == HolderSpec => ImplementsEagerMining
<1>1. HolderInit => HolderInvariant /\ Blank /\ Eager!Init
  BY HolderInitHolds, HolderInitIsEager
     DEF HolderInit, Init, Blank, UninitializedTicket, UninitializedMining
<1>2. HolderInvariant /\ Blank /\ [HolderNext]_holderVars
        => HolderInvariant' /\ Blank' /\ [Eager!Next]_(Eager!vars)
  BY HolderNextKeeps, BlankKept, HolderStepIsEager
<1> QED
  BY <1>1, <1>2, PTL DEF HolderSpec, ImplementsEagerMining, Eager!Spec

-----------------------------------------------------------------------------
(***************************************************************************)
(* Positions                                                               *)
(***************************************************************************)

\* An entry that stays at its position is found there.
LEMMA FoundAgain ==
  ASSUME HolderInvariant, HolderInvariant', NEW r \in Reserves, Entry(r) # Err,
         Entry(r) \in DOMAIN mining'.mining_indices,
         mining'.mining_indices[Entry(r)].reserve = r
  PROVE  Entry(r)' = Entry(r)
<1> DEFINE k == FindMiningIndex(mining, r)
           j == FindMiningIndex(mining', r)
<1>1. mining' \in MiningRecord(Reserves) /\ UniqueMining(mining'.mining_indices)
  BY DEF HolderInvariant, MiningUniqueAndBounded, UniqueMining
<1>2. k \in DOMAIN mining'.mining_indices /\ mining'.mining_indices[k].reserve = r
  BY DEF Entry
<1>3. j # Err
  <2>1. Lists(mining', r)
    BY <1>2 DEF Lists
  <2>2. DOMAIN mining'.mining_indices = 1..Len(mining'.mining_indices)
        /\ Len(mining'.mining_indices) \in Nat
    BY <1>1, MiningList
  <2> DEFINE s == mining'.mining_indices
             I == {i \in 1..Len(s) : s[i].reserve = r}
  <2>3. j = IF I # {} THEN Min(I) ELSE 0
    BY <2>1 DEF FindMiningIndex, SelectInSeq
  <2>4. k \in I /\ \A i \in I : i = k
    BY <1>1, <1>2, <2>2 DEF UniqueMining
  <2>5. k \in Nat /\ \A i \in I : k <= i
    BY <2>2, <2>4
  <2> HIDE DEF I, k, j
  <2>6. Min(I) = k
    BY <2>4, <2>5 DEF Min
  <2> QED
    BY <2>3, <2>4, <2>5, <2>6 DEF Err
<1>4. j \in DOMAIN mining'.mining_indices /\ mining'.mining_indices[j].reserve = r
  BY <1>1, <1>3, FoundEntry
<1>5. j = k
  BY <1>1, <1>2, <1>4 DEF UniqueMining
<1> QED
  BY <1>5 DEF Entry

\* An entry dropped is not found, and those in front of it stay.
LEMMA DroppedPosition ==
  ASSUME HolderInvariant, HolderInvariant', NEW q \in Reserves, Entry(q) # Err,
         mining'.mining_indices = RemoveAt(mining.mining_indices, Entry(q)),
         NEW r \in Reserves, Entry(r) # Err, Entry(r)' # Entry(r)
  PROVE  Entry(q) \in 1..Entry(r) /\ ~Lists(mining', q)
<1> DEFINE s == mining.mining_indices
           t == mining'.mining_indices
<1>1. s \in Seq(MiningEntry) /\ UniqueMining(s) /\ mining \in MiningRecord(Reserves)
  BY StoredMining
<1>2. PICK i : i = Entry(q)
  OBVIOUS
<1>3. PICK k : k = Entry(r)
  OBVIOUS
<1>4. i \in DOMAIN s /\ s[i].reserve = q /\ k \in DOMAIN s /\ s[k].reserve = r
  BY <1>1, <1>2, <1>3, FoundEntry DEF Entry
<1>5. DOMAIN s = 1..Len(s) /\ Len(s) \in Nat
  BY <1>1, LenProperties
<1>6. /\ t \in Seq(MiningEntry) /\ Len(t) = Len(s) - 1
      /\ \A j \in DOMAIN t : AfterRemoval(i, j) \in DOMAIN s /\ t[j] = s[AfterRemoval(i, j)]
  BY <1>1, <1>2, <1>4, RemovedElement
<1>7. DOMAIN t = 1..Len(t)
  BY <1>6, LenProperties
<1>8. ~Lists(mining', q)
  <2>1. ASSUME NEW j \in DOMAIN t PROVE t[j].reserve # q
    <3>1. AfterRemoval(i, j) \in DOMAIN s /\ t[j] = s[AfterRemoval(i, j)]
      BY <1>6
    <3>2. AfterRemoval(i, j) # i
      BY <1>4, <1>5, <1>7 DEF AfterRemoval
    <3> QED
      BY <1>1, <1>4, <3>1, <3>2 DEF UniqueMining
  <2> QED
    BY <2>1 DEF Lists
<1>9. ~(k < i)
  <2> SUFFICES ASSUME k < i PROVE FALSE
    OBVIOUS
  <2>1. k \in DOMAIN t
    BY <1>4, <1>5, <1>6, <1>7
  <2>2. t[k] = s[k]
    BY <1>6, <2>1 DEF AfterRemoval
  <2>3. t[k].reserve = r
    BY <1>4, <2>2
  <2> QED
    BY <1>3, <2>1, <2>3, FoundAgain
<1> QED
  BY <1>2, <1>3, <1>4, <1>5, <1>8, <1>9

(***************************************************************************)
(* The position of an entry changes in no call but a withdrawal that       *)
(* empties it or one in front of it, for any number of pools: over every   *)
(* other call a caller may keep what find_mining_index returned.           *)
(***************************************************************************)
THEOREM PositionsHold == HolderSpec => PositionsStay
<1>1. HolderInvariant /\ HolderInvariant' /\ Blank /\ [HolderNext]_holderVars
        => [PositionsMoveWithARemoval]_mining
  <2> SUFFICES ASSUME HolderInvariant, HolderInvariant', Blank, [HolderNext]_holderVars,
                      mining' # mining,
                      NEW r \in Reserves, Entry(r) # Err, Entry(r)' # Entry(r)
               PROVE  \E q \in Reserves : Entry(q) \in 1..Entry(r) /\ ~Lists(mining', q)
    BY DEF PositionsMoveWithARemoval
  <2> DEFINE s == mining.mining_indices
             t == mining'.mining_indices
  <2> USE StoredMining
  <2>1. PICK k : k = Entry(r)
    OBVIOUS
  <2>2. k \in DOMAIN s /\ s[k].reserve = r
    BY <2>1, FoundEntry DEF Entry
  <2>3. ~(k \in DOMAIN t /\ t[k].reserve = r)
    BY <2>1, FoundAgain
  <2>4. ~InitMining
    BY <2>2 DEF Blank, InitMining
  <2>5. ASSUME NEW q \in Reserves, AddReserve(q) PROVE FALSE
    <3> DEFINE e == NewMiningIndex(q, pool[q].l_token_mining_index)
    <3>1. ~Lists(mining, q) /\ t = Append(s, e)
      BY <2>5 DEF AddReserve, StoresMining, FindOrAddReserve, MiningRecord
    <3>2. t[k] = s[k] /\ k \in DOMAIN t
      BY <2>2, <3>1
    <3> QED
      BY <2>2, <2>3, <3>2
  <2>6. ASSUME NEW q \in Reserves, Entry(q) # Err,
               NEW e, t = [s EXCEPT ![Entry(q)] = e], e.reserve = s[Entry(q)].reserve
        PROVE  FALSE
    <3>1. k \in DOMAIN t /\ t[k].reserve = s[k].reserve
      BY <2>2, <2>6
    <3> QED
      BY <2>2, <2>3, <3>1
  <2>7. ASSUME NEW q \in Reserves PROVE ~CreditMining(q)
    <3> SUFFICES ASSUME CreditMining(q) PROVE FALSE
      OBVIOUS
    <3>1. PICK i : i = Entry(q)
      OBVIOUS
    <3>2. i \in DOMAIN s /\ s[i] \in MiningEntry /\ Entry(q) # Err
      BY <3>1, FoundEntry DEF CreditMining, Entry
    <3>3. PICK e : e = [s[i] EXCEPT !.index = pool[q].l_token_mining_index]
      OBVIOUS
    <3>4. e.reserve = s[i].reserve
      BY <3>2, <3>3 DEF MiningEntry, MiningIndex
    <3>5. t = [s EXCEPT ![i] = e]
      BY <3>1, <3>3 DEF CreditMining, StoresMining, RefreshUnclaimed, MiningRecord
    <3> QED
      BY <2>6, <3>1, <3>2, <3>4, <3>5
  <2>8. ASSUME NEW q \in Reserves, NEW n \in MiningAmounts PROVE ~Acquire(q, n)
    <3> SUFFICES ASSUME Acquire(q, n) PROVE FALSE
      OBVIOUS
    <3>1. PICK i : i = Entry(q)
      OBVIOUS
    <3>2. i \in DOMAIN s /\ s[i] \in MiningEntry /\ Entry(q) # Err
      BY <3>1, FoundEntry DEF Acquire, Entry
    <3>3. PICK e : e = [s[i] EXCEPT !.un_coll_l_token_amount = @ + n]
      OBVIOUS
    <3>4. e.reserve = s[i].reserve
      BY <3>2, <3>3 DEF MiningEntry, MiningIndex
    <3>5. t = [s EXCEPT ![i] = e]
      BY <3>1, <3>3 DEF Acquire, StoresMining, DepositMining, MiningRecord
    <3> QED
      BY <2>6, <3>1, <3>2, <3>4, <3>5
  <2>9. ASSUME NEW q \in Reserves, NEW n \in MiningAmounts, PartWith(q, n)
        PROVE  Entry(q) \in 1..Entry(r) /\ ~Lists(mining', q)
    <3>1. PICK i : i = Entry(q)
      OBVIOUS
    <3>2. i \in DOMAIN s /\ s[i] \in MiningEntry /\ Entry(q) # Err
      BY <2>9, <3>1, FoundEntry DEF PartWith, Entry
    <3>3. CASE n = s[i].un_coll_l_token_amount
      <4>1. t = RemoveAt(s, i)
        BY <2>9, <3>1, <3>3 DEF PartWith, StoresMining, WithdrawMining, MiningRecord
      <4> QED
        BY <3>1, <3>2, <4>1, DroppedPosition
    <3>4. CASE n # s[i].un_coll_l_token_amount
      <4>1. PICK e : e = [s[i] EXCEPT !.un_coll_l_token_amount = @ - n]
        OBVIOUS
      <4>2. e.reserve = s[i].reserve
        BY <3>2, <4>1 DEF MiningEntry, MiningIndex
      <4>3. t = [s EXCEPT ![i] = e]
        BY <2>9, <3>1, <3>4, <4>1 DEF PartWith, StoresMining, WithdrawMining, MiningRecord
      <4> QED
        BY <2>6, <3>1, <3>2, <4>2, <4>3
    <3> QED
      BY <3>3, <3>4
  <2>10. ~TicketNext /\ ~UNCHANGED holderVars
    BY DEF TicketNext, holderVars
  <2> QED
    BY <2>4, <2>5, <2>7, <2>8, <2>9, <2>10 DEF HolderNext
<1>2. HolderInit => HolderInvariant /\ Blank
  BY HolderInitHolds DEF HolderInit, Init, Blank, UninitializedTicket, UninitializedMining
<1>3. HolderInvariant /\ Blank /\ [HolderNext]_holderVars => HolderInvariant' /\ Blank'
  BY HolderNextKeeps, BlankKept
<1> QED
  BY <1>1, <1>2, <1>3, PTL DEF HolderSpec, PositionsStay

============================================================================
