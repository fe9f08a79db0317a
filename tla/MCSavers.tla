------------------------------ MODULE MCSavers ------------------------------
(***************************************************************************)
(* Two savers on one pool: their deposits, redemptions, transfers and      *)
(* burns interleave with refreshes, price changes and the clock.           *)
(***************************************************************************)
EXTENDS Processor

CONSTANTS
  alice, bob, admin,        \* keys
  pda,                      \* the address derived from the pool manager
  usdc, lusdc,              \* the liquidity mint and the collateral mint
  walletA, walletB, vault,  \* accounts of usdc
  claimA, claimB, parked,   \* accounts of lusdc
  market,                   \* the pool manager
  usd, eur,                 \* its currency, and another
  main                      \* the pool

MCMintOf ==
  [a \in TokenAccounts |-> IF a \in {walletA, walletB, vault} THEN usdc ELSE lusdc]

MCOwnerOf ==
  [a \in TokenAccounts |-> IF a \in {walletA, claimA} THEN alice
                           ELSE IF a \in {walletB, claimB} THEN bob
                           ELSE pda]

MCMintAuthorityOf == [m \in Mints |-> IF m = lusdc THEN pda ELSE admin]

MCWiring ==
  [p \in Pools |->
     [ manager |-> market, currency |-> usd,
       liquidity_mint |-> usdc, liquidity_supply |-> vault,
       collateral_mint |-> lusdc, collateral_supply |-> parked ]]

MCPoolAuthority == [m \in Managers |-> pda]

\* Each saver with the right accounts, and alice paying into the accounts
\* of bob, which only the owner check of the handlers can refuse.
MCAccountLists ==
  { [ source |-> s[1], destination |-> s[2], mint |-> lusdc, supply |-> vault,
      manager |-> market, authority |-> pda, signer |-> s[3] ] :
    s \in { <<walletA, claimA, alice>>, <<claimA, walletA, alice>>,
            <<walletB, claimB, bob>>,   <<claimB, walletB, bob>>,
            <<walletA, claimB, alice>>, <<claimA, walletB, alice>> } }

\* A usable price, a negative one, and one too large to be packed.
MCFeeds ==
  { [ptype |-> "Price", price |-> 2,      expo |-> -1],
    [ptype |-> "Price", price |-> -1,     expo |-> 0],
    [ptype |-> "Price", price |-> MaxU64, expo |-> 1] }

MCInitialBalance ==
  [a \in TokenAccounts |-> IF a = walletA THEN 2 ELSE IF a = walletB THEN 1 ELSE 0]

MCInitialSupply == [m \in Mints |-> IF m = usdc THEN 3 ELSE 0]

=============================================================================
