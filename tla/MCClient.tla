------------------------------ MODULE MCClient ------------------------------
(***************************************************************************)
(* The savers of MCSavers as retrying clients, with one token each.        *)
(***************************************************************************)
EXTENDS MCSavers, SavingClient

MCClientLists ==
  {a \in MCAccountLists : OwnerOf[a.source] = OwnerOf[a.destination]}

MCClientBalance ==
  [a \in TokenAccounts |-> IF a \in {walletA, walletB} THEN 1 ELSE 0]

MCClientFeeds == {f \in MCFeeds : f.expo < 1}

=============================================================================
