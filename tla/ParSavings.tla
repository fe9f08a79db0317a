----------------------------- MODULE ParSavings -----------------------------
(***************************************************************************)
(* What the pools promise their savers, with no clock, no oracle, no       *)
(* exchange rate and no mining: one unit saved is one claim on the vault   *)
(* of the pool, one claim is worth one unit at any time, the two always    *)
(* change hands within the accounts of one owner, and nothing else takes   *)
(* liquidity out of a vault.                                               *)
(***************************************************************************)
EXTENDS Naturals

CONSTANTS
  Accounts,   \* the token accounts of the savers
  Owner,      \* who owns each of them
  Token,      \* what each of them holds
  Pools,
  Asset,      \* the token a pool keeps in its vault
  Claim,      \* the token that stands for a claim on it
  Limit       \* the largest amount

VARIABLES
  holding,    \* holding[a]: what is in account a
  vault,      \* vault[p]: the assets in the vault of pool p
  claims      \* claims[p]: the claims on pool p that exist

vars == <<holding, vault, claims>>

Init ==
  /\ holding \in [Accounts -> 0..Limit]
  /\ vault \in [Pools -> 0..Limit]
  /\ claims = [p \in Pools |-> 0]

\* The holdings once n units have left one account and entered another,
\* which may be the same.
Moved(from, to, n) ==
  LET taken == [holding EXCEPT ![from] = @ - n]
  IN  [taken EXCEPT ![to] = @ + n]

Save(p, from, to, n) ==
  /\ Token[from] = Asset[p] /\ Token[to] = Claim[p]
  /\ Owner[from] = Owner[to]
  /\ n <= holding[from]
  /\ holding' = Moved(from, to, n)
  /\ vault'   = [vault EXCEPT ![p] = @ + n]
  /\ claims'  = [claims EXCEPT ![p] = @ + n]

Exit(p, from, to, n) ==
  /\ Token[from] = Claim[p] /\ Token[to] = Asset[p]
  /\ Owner[from] = Owner[to]
  /\ n <= holding[from] /\ n <= claims[p]
  /\ holding' = Moved(from, to, n)
  /\ vault'   = [vault EXCEPT ![p] = @ - n]
  /\ claims'  = [claims EXCEPT ![p] = @ - n]

Pay(from, to, n) ==
  /\ Token[from] = Token[to]
  /\ n <= holding[from]
  /\ holding' = Moved(from, to, n)
  /\ UNCHANGED <<vault, claims>>

\* Assets sent to a vault without saving: they give no claim.
Donate(p, from, n) ==
  /\ Token[from] = Asset[p]
  /\ n <= holding[from]
  /\ holding' = [holding EXCEPT ![from] = @ - n]
  /\ vault' = [vault EXCEPT ![p] = @ + n]
  /\ UNCHANGED claims

\* Tokens burnt by their owner; burnt claims leave their assets behind.
GiveUp(from, n) ==
  /\ n <= holding[from]
  /\ holding' = [holding EXCEPT ![from] = @ - n]
  /\ \A p \in Pools : Claim[p] = Token[from] => n <= claims[p]
  /\ claims' = [p \in Pools |->
                 IF Claim[p] = Token[from] THEN claims[p] - n ELSE claims[p]]
  /\ UNCHANGED vault

Next ==
  \E n \in 0..Limit, from \in Accounts :
    \/ \E p \in Pools, to \in Accounts : Save(p, from, to, n)
    \/ \E p \in Pools, to \in Accounts : Exit(p, from, to, n)
    \/ \E to \in Accounts : Pay(from, to, n)
    \/ \E p \in Pools : Donate(p, from, n)
    \/ GiveUp(from, n)

Spec == Init /\ [][Next]_vars

(***************************************************************************)
(* Every claim can be paid: the vault never holds less than the claims on  *)
(* it, whatever is saved, cashed in, paid, donated or burnt, and in        *)
(* whatever order.                                                         *)
(***************************************************************************)
Covered == \A p \in Pools : claims[p] <= vault[p]

=============================================================================
