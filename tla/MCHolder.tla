------------------------------ MODULE MCHolder ------------------------------
(***************************************************************************)
(* Two pools, a ticket with room for one of them and a mining account with *)
(* room for both.                                                          *)
(***************************************************************************)
EXTENDS HolderMining

CONSTANTS a, b   \* the pools

\* Opened in slot 0 and supplied once; only a mines.
MCOpenedPool ==
  [r \in Reserves |->
     MarkStale(DepositLiquidity(NewPool(0, 2 * Wad, IF r = a THEN 1 ELSE 0, FALSE), 1))]

MCSupplyChanges == {<<a, 1>>}

\* The bound on the ticket: it is for a, so b is found to have no room in it.
TicketOfA == \A i \in DOMAIN ticket.deposits : ticket.deposits[i].deposit_reserve = a

MCMintDecimals == [r \in Reserves |-> 0]

=============================================================================
