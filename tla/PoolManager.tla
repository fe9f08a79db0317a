---------------------------- MODULE PoolManager -----------------------------
(***************************************************************************)
(* The pool-manager accounts (src/src/state/pool_manager.rs) and the two   *)
(* instructions on them: InitPoolingManager, and SetPoolingManagerOwner,   *)
(* whose handler is abandoned and returns Ok without doing anything.       *)
(***************************************************************************)
EXTENDS Naturals

CONSTANTS
  Managers,        \* the pool-manager accounts
  ManagerOwners,   \* the keys that may be named owner
  Currencies,      \* quote currencies
  InitAuthority    \* the one key that may initialise a manager

VARIABLES
  manager   \* manager[m]: the account's version, owner and quote currency

\* A zeroed account; its owner and currency are never read.
UninitializedManager == [version |-> 0]

ManagerTypeOK ==
  manager \in [Managers -> {UninitializedManager}
                 \cup [version : {1}, owner : ManagerOwners,
                       quote_currency : Currencies]]

ManagerInitialized(m) == manager[m].version # 0

ManagerInit == manager = [m \in Managers |-> UninitializedManager]

\* process_init_pool_manager
InitPoolingManager(m, signer, owner, quote_currency) ==
  /\ signer = InitAuthority
  /\ ~ManagerInitialized(m)
  /\ manager' = [manager EXCEPT ![m] =
                   [version |-> 1, owner |-> owner,
                    quote_currency |-> quote_currency]]

\* process_set_pool_manager_owner
SetPoolingManagerOwner(m, new_owner) == UNCHANGED manager

=============================================================================
