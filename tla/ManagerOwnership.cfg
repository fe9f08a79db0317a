CONSTANTS
  Managers = {m1}
  ManagerOwners = {alice, bob}
  Currencies = {usd}
  InitAuthority = alice
  Keys = {alice, bob}
SPECIFICATION OwnershipSpec
INVARIANT
  OwnerIsTheOneNamed
