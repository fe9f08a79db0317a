---------------------------- MODULE AccountCodec ----------------------------
(***************************************************************************)
(* How the four accounts of the program are packed into bytes and read     *)
(* back: the Pack implementations of Pool, Ticket, PoolManager and Mining  *)
(* in src/src/state.  The source writes every layout twice, once to pack   *)
(* and once to unpack, as lists of widths whose sum alone the compiler     *)
(* compares with the length; so they are two definitions here.             *)
(***************************************************************************)
EXTENDS ByteStrings

CONSTANTS
  MaxEntries,   \* MAX_OBLIGATION_RESERVES and MAX_MINING_VOLUME, both 10
  FieldValues,  \* the values of fields, beside the zero they start with
  EntryValues,  \* the same, for the fields of entries
  ListLengths,  \* the lengths of lists of any entries
  LongLengths   \* the lengths of lists of one entry over and over

\* The lengths of accounts are literals in the source, for lists of ten entries.
ASSUME CodecAssumption ==
  /\ MaxEntries = 10
  /\ FieldValues \subseteq 0..255 /\ EntryValues \subseteq 0..255
  /\ ListLengths \subseteq Nat /\ LongLengths \subseteq Nat

Kinds == {"Pool", "Ticket", "PoolManager", "Mining"}

VARIABLES
  kind,     \* which account it is, fixed when it is created
  bytes,    \* the data of the account
  stored    \* auxiliary: the record packed last, Nothing before the first

accountVars == <<kind, bytes, stored>>

Nothing  == [version |-> 0]
Rejected == [version |-> -1]

-----------------------------------------------------------------------------
(***************************************************************************)
(* Layouts: names with their widths, PUBKEY_BYTES being 32.  The names of  *)
(* nested fields are flattened; "count" and "entries" are the list.        *)
(***************************************************************************)
PoolPacked ==
  << <<"version", 1>>, <<"slot", 8>>, <<"stale", 1>>, <<"pool_manager", 32>>,
     <<"liquidity_mint", 32>>, <<"mint_decimals", 1>>, <<"liquidity_supply", 32>>,
     <<"fee_receiver", 32>>, <<"use_pyth_oracle", 1>>, <<"pyth_oracle", 32>>,
     <<"available_amount", 8>>, <<"borrowed_amount_wads", 16>>,
     <<"cumulative_borrow_rate_wads", 16>>, <<"market_price", 16>>,
     <<"owner_unclaimed", 16>>, <<"collateral_mint", 32>>,
     <<"mint_total_supply", 8>>, <<"collateral_supply", 32>>,
     <<"deposit_paused", 1>>, <<"un_coll_supply_account", 32>>,
     <<"l_token_mining_index", 16>>, <<"borrow_mining_index", 16>>,
     <<"total_mining_speed", 8>>, <<"kink_util_rate", 8>>, <<"reentry_lock", 1>>,
     <<"padding", 248>> >>

PoolUnpacked ==
  << <<"version", 1>>, <<"slot", 8>>, <<"stale", 1>>, <<"pool_manager", 32>>,
     <<"liquidity_mint", 32>>, <<"mint_decimals", 1>>, <<"liquidity_supply", 32>>,
     <<"fee_receiver", 32>>, <<"use_pyth_oracle", 1>>, <<"pyth_oracle", 32>>,
     <<"available_amount", 8>>, <<"borrowed_amount_wads", 16>>,
     <<"cumulative_borrow_rate_wads", 16>>, <<"market_price", 16>>,
     <<"owner_unclaimed", 16>>, <<"collateral_mint", 32>>,
     <<"mint_total_supply", 8>>, <<"collateral_supply", 32>>,
     <<"deposit_paused", 1>>, <<"un_coll_supply_account", 32>>,
     <<"l_token_mining_index", 16>>, <<"borrow_mining_index", 16>>,
     <<"total_mining_speed", 8>>, <<"kink_util_rate", 8>>, <<"reentry_lock", 1>>,
     <<"padding", 248>> >>

TicketPacked ==
  << <<"version", 1>>, <<"slot", 8>>, <<"stale", 1>>, <<"pool_manager", 32>>,
     <<"owner", 32>>, <<"deposited_value", 16>>, <<"count", 1>>,
     <<"unclaimed_mine", 16>>, <<"entries", 72 * MaxEntries>> >>

TicketUnpacked ==
  << <<"version", 1>>, <<"slot", 8>>, <<"stale", 1>>, <<"pool_manager", 32>>,
     <<"owner", 32>>, <<"deposited_value", 16>>, <<"count", 1>>,
     <<"unclaimed_mine", 16>>, <<"entries", 72 * MaxEntries>> >>

TicketEntryPacked ==
  << <<"deposit_reserve", 32>>, <<"deposited_amount", 8>>, <<"market_value", 16>>,
     <<"index", 16>> >>

TicketEntryUnpacked ==
  << <<"deposit_reserve", 32>>, <<"deposited_amount", 8>>, <<"market_value", 16>>,
     <<"index", 16>> >>

ManagerPacked ==
  << <<"version", 1>>, <<"bump_seed", 1>>, <<"pending_owner", 32>>, <<"owner", 32>>,
     <<"quote_currency", 32>>, <<"token_program_id", 32>>,
     <<"oracle_program_id", 32>>, <<"mine_mint", 32>>,
     <<"mine_supply_account", 32>>, <<"padding", 128>> >>

ManagerUnpacked ==
  << <<"version", 1>>, <<"bump_seed", 1>>, <<"pending_owner", 32>>, <<"owner", 32>>,
     <<"quote_currency", 32>>, <<"token_program_id", 32>>,
     <<"oracle_program_id", 32>>, <<"mine_mint", 32>>,
     <<"mine_supply_account", 32>>, <<"padding", 128>> >>

MiningPacked ==
  << <<"version", 1>>, <<"owner", 32>>, <<"pool_manager", 32>>, <<"count", 1>>,
     <<"unclaimed_mine", 16>>, <<"entries", 56 * MaxEntries>> >>

MiningUnpacked ==
  << <<"version", 1>>, <<"owner", 32>>, <<"pool_manager", 32>>, <<"count", 1>>,
     <<"unclaimed_mine", 16>>, <<"entries", 56 * MaxEntries>> >>

MiningEntryPacked == << <<"reserve", 32>>, <<"un_coll_l_token_amount", 8>>, <<"index", 16>> >>

MiningEntryUnpacked == << <<"reserve", 32>>, <<"un_coll_l_token_amount", 8>>, <<"index", 16>> >>

Packed(k) == CASE k = "Pool" -> PoolPacked [] k = "Ticket" -> TicketPacked
               [] k = "PoolManager" -> ManagerPacked [] OTHER -> MiningPacked

Unpacked(k) == CASE k = "Pool" -> PoolUnpacked [] k = "Ticket" -> TicketUnpacked
                 [] k = "PoolManager" -> ManagerUnpacked [] OTHER -> MiningUnpacked

EntryPacked(k) == IF k = "Ticket" THEN TicketEntryPacked ELSE MiningEntryPacked

EntryUnpacked(k) == IF k = "Ticket" THEN TicketEntryUnpacked ELSE MiningEntryUnpacked

Booleans == {"stale", "use_pyth_oracle", "deposit_paused", "reentry_lock"}

\* RESERVE_LEN, OBLIGATION_LEN, POOL_MANAGER_LEN and MINING_LEN.
AccountLen(k) == CASE k = "Pool" -> 646 [] k = "Ticket" -> 827
                   [] k = "PoolManager" -> 354 [] OTHER -> 642

-----------------------------------------------------------------------------
(***************************************************************************)
(* pack_into_slice: each field over what was there; entries beyond the     *)
(* list, and the padding, stay as they were.                               *)
(***************************************************************************)
EntryData(layout, entry) ==
  FlattenSeq([i \in DOMAIN layout |-> Encoded(entry[layout[i][1]], layout[i][2])])

PackedEntries(old, layout, entries) ==
  FlattenSeq([i \in DOMAIN entries |-> EntryData(layout, entries[i])])
    \o SubSeq(old, Len(entries) * Width(layout) + 1, Len(old))

\* A mutation: the number of entries never falls.
CountKept(old, entries) ==
  IF Decoded(old) > Len(entries) THEN old ELSE Encoded(Len(entries), 1)

PackedCount(old, entries) == Encoded(Len(entries), 1)

PackedField(k, old, record, i) ==
  LET name  == Packed(k)[i][1]
      there == SliceOf(old, Packed(k), i)
  IN  CASE name = "padding" -> there
        [] name = "count"   -> PackedCount(there, record.entries)
        [] name = "entries" -> PackedEntries(there, EntryPacked(k), record.entries)
        [] OTHER            -> Encoded(record[name], Packed(k)[i][2])

Pack(k, old, record) ==
  FlattenSeq([i \in DOMAIN Packed(k) |-> PackedField(k, old, record, i)])

\* More entries than there is room for are a panic.
CanPackRecord(k, record) ==
  "entries" \in DOMAIN record => Len(record.entries) <= MaxEntries

(***************************************************************************)
(* Pack::unpack, with unpack_from_slice: the length of the data, the       *)
(* version, the booleans, and whether it is initialized at all.            *)
(***************************************************************************)
EntriesIn(data, layout, count) ==
  [e \in 1..count |->
     LET entry == SubSeq(data, (e - 1) * Width(layout) + 1, e * Width(layout))
     IN  [name \in Names(layout) |->
            Decoded(SliceOf(entry, layout, CHOOSE i \in DOMAIN layout : layout[i][1] = name))]]

\* A mutation: a longer account is unpacked from its first bytes.
IsLongEnough(k, data) == Len(data) >= AccountLen(k)

HasLength(k, data) == Len(data) = AccountLen(k)

Unpack(k, data) ==
  LET layout   == Unpacked(k)
      At(name) == SliceOf(data, layout, CHOOSE i \in DOMAIN layout : layout[i][1] = name)
      names    == Names(layout)
  IN  IF \/ ~HasLength(k, data)
         \/ Decoded(At("version")) # 1
         \/ \E name \in names \cap Booleans : Decoded(At(name)) \notin {0, 1}
         \/ "count" \in names /\ Decoded(At("count")) > MaxEntries
      THEN Rejected
      ELSE [name \in names \ {"padding", "count"} |->
              IF name = "entries"
              THEN EntriesIn(At(name), EntryUnpacked(k), Decoded(At("count")))
              ELSE Decoded(At(name))]

-----------------------------------------------------------------------------
(***************************************************************************)
(* The records that are packed: all fields alike, or all but one, in the   *)
(* record itself or in the entries of its list.                            *)
(***************************************************************************)
Fields(k) == Names(Packed(k)) \ {"version", "padding", "count", "entries"}

Value(name, v) == IF name \in Booleans \cup {"version"} /\ v # 0 THEN 1 ELSE v

AllButOne(names, values) ==
  {[n \in names |-> IF n = except THEN Value(n, v) ELSE Value(n, w)] :
     except \in names, v \in values, w \in values}

Headers(k) ==
  {[f EXCEPT !.version = 1] : f \in AllButOne(Fields(k) \cup {"version"}, FieldValues)}

Lists(k) ==
  LET entries == AllButOne(Names(EntryPacked(k)), EntryValues)
  IN  (UNION {[1..n -> entries] : n \in ListLengths})
        \cup {[i \in 1..n |-> e] : n \in LongLengths, e \in entries}

WithEntries(header, list) ==
  [name \in DOMAIN header \cup {"entries"} |->
     IF name = "entries" THEN list ELSE header[name]]

Plain(k) == [name \in Fields(k) \cup {"version"} |-> IF name = "version" THEN 1 ELSE 0]

Records(k) ==
  IF "entries" \notin Names(Packed(k))
  THEN Headers(k)
  ELSE {WithEntries(header, << >>) : header \in Headers(k)}
         \cup {WithEntries(Plain(k), list) : list \in Lists(k)}

Write(record) ==
  /\ CanPackRecord(kind, record)
  /\ HasLength(kind, bytes)
  /\ bytes' = Pack(kind, bytes, record)
  /\ stored' = record
  /\ UNCHANGED kind

AccountInit ==
  /\ kind \in Kinds
  /\ bytes = [i \in 1..AccountLen(kind) |-> Byte(0, i)]
  /\ stored = Nothing

AccountNext == \E record \in Records(kind) : Write(record)

AccountSpec == AccountInit /\ [][AccountNext]_accountVars

-----------------------------------------------------------------------------
(***************************************************************************)
(* Properties                                                              *)
(***************************************************************************)

(***************************************************************************)
(* What was packed last is what is unpacked, field by field and entry by   *)
(* entry, whatever longer or shorter record the account held before; an    *)
(* account that was never packed does not unpack.                          *)
(***************************************************************************)
ReadsBack ==
  Unpack(kind, bytes) = IF stored = Nothing THEN Rejected ELSE stored

(***************************************************************************)
(* No account of the program is taken for one of another kind: they carry  *)
(* no tag, and only their lengths tell them apart.                         *)
(***************************************************************************)
KindsToldApart ==
  \A k \in Kinds \ {kind} : Unpack(k, bytes) = Rejected

=============================================================================
