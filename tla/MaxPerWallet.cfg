SPECIFICATION Spec
CONSTANTS
  MaxU64 = 100000
  MaxU32 = 100000
  MaxCounter = 3
  RentExemptWallet = 2
  RentExemptEscrow = 3
  u1 = u1
  u2 = u2
  adm = adm
  adm2 = adm2
  Users = {u1}
  Admins = {adm}
  Team = team
  NoAdmin = NoAdmin
  InitArgs <- StandardArgs
  BuyAmounts = {0, 1, 2}
  DepositAmounts = {9}
  NewTimes = {0, 2}
  ForceFlags = {0, 1}
  Funds <- OneBuyerFunds
  TeamFunds = 2
  TokenSupply = 9
  MaxTime = 2
INVARIANTS
  MaxPerWallet
