---------------------------- MODULE MiningState -----------------------------
(***************************************************************************)
(* The Mining account of src/src/state/mining.rs: what a holder earns on   *)
(* the collateral tokens outside of tickets.  A list of entries like that  *)
(* of a ticket, credited entry by entry instead of all at once.  The       *)
(* operators are pure; the keys of the owner and of the pool manager,      *)
(* stored and never read, are left out.                                    *)
(***************************************************************************)
EXTENDS PoolState, Sequences, SequencesExt

CONSTANT MaxMiningVolume   \* MAX_MINING_VOLUME, 10 in the source

MiningIndex(reserves) ==
  [ reserve : reserves, un_coll_l_token_amount : 0..MaxU64, index : 0..MaxU128 ]

MiningRecord(reserves) ==
  [ version : {0, 1}, mining_indices : Seq(MiningIndex(reserves)),
    unclaimed_mine : 0..MaxU128 ]

\* A zeroed account.
UninitializedMining == [ version |-> 0, mining_indices |-> << >>, unclaimed_mine |-> 0 ]

\* Mining::new with the entries of its InitMiningParams.
NewMining(entries) ==
  [ version |-> 1, mining_indices |-> entries, unclaimed_mine |-> 0 ]

NewMiningIndex(reserve, l_token_mining_index) ==
  [ reserve |-> reserve, un_coll_l_token_amount |-> 0, index |-> l_token_mining_index ]

Lists(mg, reserve) ==
  \E i \in DOMAIN mg.mining_indices : mg.mining_indices[i].reserve = reserve

\* Mining::find_mining_index, which fails on an empty list and on a pool
\* that is not in it.  Positions count from one here.
FindMiningIndex(mg, reserve) ==
  IF Lists(mg, reserve)
  THEN SelectInSeq(mg.mining_indices, LAMBDA e : e.reserve = reserve)
  ELSE Err

\* A mutation: it is not looked for before it is added.
AddAnother(mg, reserve, l_token_mining_index) ==
  [mg EXCEPT !.mining_indices = Append(@, NewMiningIndex(reserve, l_token_mining_index))]

\* A mutation: it is added in front.
AddInFront(mg, reserve, l_token_mining_index) ==
  IF Lists(mg, reserve)
  THEN mg
  ELSE [mg EXCEPT !.mining_indices =
                    <<NewMiningIndex(reserve, l_token_mining_index)>> \o @]

CanFindOrAddReserve(mg, reserve) ==
  Lists(mg, reserve) \/ Len(mg.mining_indices) < MaxMiningVolume

FindOrAddReserve(mg, reserve, l_token_mining_index) ==
  IF Lists(mg, reserve)
  THEN mg
  ELSE [mg EXCEPT !.mining_indices =
                    Append(@, NewMiningIndex(reserve, l_token_mining_index))]

(***************************************************************************)
(* Mining::refresh_unclaimed for the entry at i and the pool given for it. *)
(***************************************************************************)
MineSince(entry, pl) ==
  TryMulInt(TrySub(pl.l_token_mining_index, entry.index, DecimalMax),
            entry.un_coll_l_token_amount, DecimalMax)

CanRefreshUnclaimed(mg, i, pl) ==
  TryAdd(mg.unclaimed_mine, MineSince(mg.mining_indices[i], pl), DecimalMax) # Err

RefreshUnclaimed(mg, i, pl) ==
  [mg EXCEPT !.unclaimed_mine = @ + MineSince(mg.mining_indices[i], pl),
             !.mining_indices[i].index = pl.l_token_mining_index]

\* A mutation: the sum is not checked against its width.
CanDepositMiningUnchecked(mg, i, amount) == i \in DOMAIN mg.mining_indices

CanDepositMining(mg, i, amount) ==
  mg.mining_indices[i].un_coll_l_token_amount + amount <= MaxU64

DepositMining(mg, i, amount) ==
  [mg EXCEPT !.mining_indices[i].un_coll_l_token_amount = @ + amount]

\* Withdrawing everything drops the entry.
CanWithdrawMining(mg, i, amount) == amount <= mg.mining_indices[i].un_coll_l_token_amount

\* A mutation: the last entry is dropped instead of the one that is empty.
DropTheLast(mg, i, amount) ==
  IF amount = mg.mining_indices[i].un_coll_l_token_amount
  THEN [mg EXCEPT !.mining_indices = Front(@)]
  ELSE [mg EXCEPT !.mining_indices[i].un_coll_l_token_amount = @ - amount]

WithdrawMining(mg, i, amount) ==
  IF amount = mg.mining_indices[i].un_coll_l_token_amount
  THEN [mg EXCEPT !.mining_indices = RemoveAt(@, i)]
  ELSE [mg EXCEPT !.mining_indices[i].un_coll_l_token_amount = @ - amount]

\* Mining::pack: pack_decimal panics on a Decimal wider than 128 bits.
CanPackMining(mg) ==
  /\ ToScaledVal(mg.unclaimed_mine) # Err
  /\ \A i \in DOMAIN mg.mining_indices : ToScaledVal(mg.mining_indices[i].index) # Err

=============================================================================
