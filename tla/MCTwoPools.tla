----------------------------- MODULE MCTwoPools -----------------------------
(***************************************************************************)
(* Two pools of the same asset under the same manager, beside a second     *)
(* manager, and callers who mix up the accounts of one with the other in   *)
(* every position of the account list.                                     *)
(***************************************************************************)
EXTENDS Processor

CONSTANTS
  alice, admin,               \* keys
  pda, pda2,                  \* the addresses derived from the managers
  usdc, lusdc1, lusdc2,       \* the asset and the two collateral mints
  wallet, vault1, vault2,     \* accounts of usdc
  claim1, claim2,             \* the claims of alice on each pool
  parked1, parked2,           \* the collateral supply accounts
  market, annex,              \* the pool managers
  usd,                        \* the currency
  main, side                  \* the pools

MCMintOf ==
  [a \in TokenAccounts |-> CASE a \in {claim1, parked1} -> lusdc1
                             [] a \in {claim2, parked2} -> lusdc2
                             [] OTHER -> usdc]

MCOwnerOf ==
  [a \in TokenAccounts |-> IF a \in {wallet, claim1, claim2} THEN alice ELSE pda]

MCMintAuthorityOf == [m \in Mints |-> IF m = usdc THEN admin ELSE pda]

MCWiring ==
  [p \in Pools |->
     [ manager |-> market, currency |-> usd, liquidity_mint |-> usdc,
       liquidity_supply  |-> IF p = main THEN vault1 ELSE vault2,
       collateral_mint   |-> IF p = main THEN lusdc1 ELSE lusdc2,
       collateral_supply |-> IF p = main THEN parked1 ELSE parked2 ]]

MCPoolAuthority == [m \in Managers |-> IF m = market THEN pda ELSE pda2]

MCAccountLists ==
  { l \in [ source : {wallet, claim1, claim2, vault1, vault2},
            destination : {wallet, claim1, claim2},
            mint : {lusdc1, lusdc2}, supply : {vault1, vault2},
            manager : Managers, authority : {pda, pda2}, signer : {alice} ] :
    l.source # l.destination }

MCFeeds == { [ptype |-> "Price", price |-> 2, expo |-> 0],
             [ptype |-> "Unknown", price |-> 2, expo |-> 0] }

MCInitialBalance == [a \in TokenAccounts |-> IF a = wallet THEN 2 ELSE 0]

MCInitialSupply == [m \in Mints |-> IF m = usdc THEN 2 ELSE 0]

=============================================================================
