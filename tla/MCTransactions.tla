--------------------------- MODULE MCTransactions ---------------------------
(***************************************************************************)
(* The savers of MCSavers with transactions step by step.  Beside the      *)
(* account lists that are right there are lists every check of a handler   *)
(* lets through and a call refuses: the first call, because the authority  *)
(* is not the owner of the source, or the second, because the destination  *)
(* is of the wrong mint.                                                   *)
(***************************************************************************)
EXTENDS MCSavers, Transactions

TxList(source, destination, signer) ==
  [ source |-> source, destination |-> destination, mint |-> lusdc,
    supply |-> vault, manager |-> market, authority |-> pda, signer |-> signer ]

MCTxLists ==
  { TxList(walletA, claimA, alice), TxList(claimA, walletA, alice),
    TxList(walletB, claimB, bob),   TxList(claimB, walletB, bob),
    TxList(walletA, claimA, bob),   TxList(claimA, walletA, bob),
    TxList(walletA, walletA, alice), TxList(claimA, claimA, alice) }

MCTxFeeds == {f \in MCFeeds : f.expo < 1}

=============================================================================
