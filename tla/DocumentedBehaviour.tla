------------------------ MODULE DocumentedBehaviour ------------------------
(***************************************************************************)
(* What comments of the source say of pools and what the code does not do. *)
(* Each property is the comment put into a formula; each run that checks   *)
(* one of them ends in a behaviour of the program that contradicts it.     *)
(***************************************************************************)
EXTENDS Processor

(***************************************************************************)
(* src/src/state/pool.rs:523 calls total_mining_speed the "Amount of mine  *)
(* token for this reserve per slot".  So what a refresh adds to the lender *)
(* index, times the tokens that share it, should not be more than the      *)
(* speed times the slots that elapsed.  get_mine_ratio divides one by      *)
(* fifty percent instead of multiplying, and each side is credited twice   *)
(* the speed.                                                              *)
(***************************************************************************)
EmissionAtMiningSpeed ==
  [][\A p \in Pools : Open(p) =>
       (pool'[p].l_token_mining_index - pool[p].l_token_mining_index)
         * pool[p].mint_total_supply
         <= pool[p].total_mining_speed * Wad * (pool'[p].slot - pool[p].slot)]_vars

(***************************************************************************)
(* src/src/error.rs:44 explains InvalidAmount as "Invalid amount, must be  *)
(* greater than zero", and both handlers raise it when the amount is zero. *)
(* So whatever uses a refresh up (marks the pool stale) should change the  *)
(* supply of collateral.  The amount u64::MAX on an empty account is       *)
(* resolved to zero after that check, and passes.                          *)
(***************************************************************************)
AmountsGreaterThanZero ==
  [][\A p \in Pools :
       Open(p) /\ ~pool[p].stale /\ pool'[p].stale
         => pool'[p].mint_total_supply # pool[p].mint_total_supply]_vars

(***************************************************************************)
(* src/src/state/mod.rs:24 says that "Collateral tokens are initially      *)
(* valued at a ratio of 5:1 (collateral:liquidity)".  The constant below   *)
(* it is one.                                                              *)
(***************************************************************************)
FirstDepositAtFiveToOne ==
  [][\A p \in Pools :
       pool[p].mint_total_supply = 0 /\ pool'[p].mint_total_supply > 0
         => pool'[p].mint_total_supply = 5 * pool'[p].available_amount]_vars

=============================================================================
