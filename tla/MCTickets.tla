----------------------------- MODULE MCTickets ------------------------------
(***************************************************************************)
(* Three pools and a ticket with room for two of them, of which one may    *)
(* hold two tokens of its pool.                                            *)
(***************************************************************************)
EXTENDS TicketLedger

CONSTANTS a, b, c   \* the pools

\* Opened in slot 0 and supplied once; c mines nothing.
MCOpenedPool ==
  [r \in Reserves |->
     MarkStale(DepositLiquidity(NewPool(0, 2 * Wad, IF r = c THEN 0 ELSE 1, FALSE), 1))]

\* Only the supply of a changes, one token at a time.
MCSupplyChanges == {<<a, 1>>}

\* The bound on what is held of the other pools: c takes up room and no more.
OthersSmall == peak[b] <= 1 /\ peak[c] = 0

MCMintDecimals == [r \in Reserves |-> 0]

=============================================================================
