--------------------------- MODULE ManagerOwnership ---------------------------
(***************************************************************************)
(* Pool managers with the memory of who was last named their owner by an   *)
(* instruction that succeeded.                                             *)
(***************************************************************************)
EXTENDS PoolManager

CONSTANT Keys   \* the keys that sign transactions

VARIABLE named   \* named[m]: the owner last asked for

ownershipVars == <<manager, named>>

OwnershipInit ==
  /\ ManagerInit
  /\ named = [m \in Managers |-> CHOOSE o \in ManagerOwners : TRUE]

Initialise(m, signer, owner, quote_currency) ==
  /\ InitPoolingManager(m, signer, owner, quote_currency)
  /\ named' = [named EXCEPT ![m] = owner]

ChangeOwner(m, new_owner) ==
  /\ SetPoolingManagerOwner(m, new_owner)
  /\ named' = [named EXCEPT ![m] = new_owner]

OwnershipNext ==
  \/ \E m \in Managers, s \in Keys, o \in ManagerOwners, c \in Currencies :
       Initialise(m, s, o, c)
  \/ \E m \in Managers, o \in ManagerOwners :
       ManagerInitialized(m) /\ ChangeOwner(m, o)

OwnershipSpec == OwnershipInit /\ [][OwnershipNext]_ownershipVars

(***************************************************************************)
(* src/src/instruction.rs:42 says of SetPoolingManagerOwner that it "Sets  *)
(* the new owner of a lending market."  So an initialised manager should   *)
(* belong to the owner last named by an instruction that returned Ok.  The *)
(* handler returns Ok and leaves the account as it is.                     *)
(***************************************************************************)
OwnerIsTheOneNamed ==
  \A m \in Managers : ManagerInitialized(m) => manager[m].owner = named[m]

=============================================================================
