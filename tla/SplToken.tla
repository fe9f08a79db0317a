------------------------------ MODULE SplToken ------------------------------
(***************************************************************************)
(* The SPL token program, as far as src/src/processor.rs relies on it: the *)
(* three instructions it invokes (Transfer, MintTo, Burn) and what holders *)
(* may do with their tokens without going through this program.  The token *)
(* program is not part of the repository.                                  *)
(*                                                                         *)
(* Mints, owners and mint authorities do not change; delegates and frozen  *)
(* accounts are left out.                                                  *)
(***************************************************************************)
EXTENDS Integers

CONSTANTS
  TokenAccounts,    \* the token accounts
  Mints,            \* the mints
  Users,            \* the keys that sign transactions
  MintOf,           \* the mint of each token account
  OwnerOf,          \* the owner of each token account: a user or a program
  MintAuthorityOf,  \* who may mint, for each mint
  TokenLimit        \* u64::MAX

ASSUME TokenAssumption ==
  /\ MintOf \in [TokenAccounts -> Mints]
  /\ DOMAIN OwnerOf = TokenAccounts
  /\ DOMAIN MintAuthorityOf = Mints
  /\ TokenLimit \in Nat

VARIABLES
  balance,   \* balance[a]: the amount field of token account a
  minted     \* minted[m]: the supply field of mint m

tokenVars == <<balance, minted>>

TokenTypeOK ==
  /\ balance \in [TokenAccounts -> 0..TokenLimit]
  /\ minted \in [Mints -> 0..TokenLimit]

CanTransfer(source, destination, authority, amount) ==
  /\ MintOf[source] = MintOf[destination]
  /\ OwnerOf[source] = authority
  /\ amount <= balance[source]
  /\ source # destination => balance[destination] + amount <= TokenLimit

CanMintTo(mint, destination, authority, amount) ==
  /\ MintOf[destination] = mint
  /\ MintAuthorityOf[mint] = authority
  /\ minted[mint] + amount <= TokenLimit
  /\ balance[destination] + amount <= TokenLimit

CanBurn(mint, source, authority, amount) ==
  /\ MintOf[source] = mint
  /\ OwnerOf[source] = authority
  /\ amount <= balance[source]
  /\ amount <= minted[mint]

\* Balances b after each instruction, so that two can follow each other.
Credited(b, account, amount) == [b EXCEPT ![account] = @ + amount]
Debited(b, account, amount)  == [b EXCEPT ![account] = @ - amount]
Transferred(b, source, destination, amount) ==
  Credited(Debited(b, source, amount), destination, amount)

\* A holder moves tokens to any account of the same mint; when that account
\* is the supply of a pool, it is a donation the pool does not record.
UserTransfer(user, source, destination, amount) ==
  /\ CanTransfer(source, destination, user, amount)
  /\ balance' = Transferred(balance, source, destination, amount)
  /\ UNCHANGED minted

\* A holder burns tokens without redeeming them.
UserBurn(user, source, amount) ==
  /\ CanBurn(MintOf[source], source, user, amount)
  /\ balance' = Debited(balance, source, amount)
  /\ minted'  = [minted EXCEPT ![MintOf[source]] = @ - amount]

=============================================================================
