SPECIFICATION FairSpec
CONSTANTS
  MaxU64 = 100000
  MaxU32 = 100000
  MaxCounter = 3
  RentExemptWallet = 2
  RentExemptEscrow = 3
  u1 = u1
  u2 = u2
  adm = adm
  adm2 = adm2
  Users = {u1}
  Admins = {adm, adm2}
  Team = team
  NoAdmin = NoAdmin
  InitArgs <- CornerArgs
  BuyAmounts = {0, 1, 2, 3}
  DepositAmounts = {5, 60000}
  NewTimes = {0, 1, 2}
  ForceFlags = {0, 1}
  Funds <- OneBuyerFunds
  TeamFunds = 2
  TokenSupply = 8
  MaxTime = 2
INVARIANTS
  RaisedIsAccountedFor
  NobodyOverpays
  RoundingIsBounded
  CapsAgreeWithSales
  FirstRefundsAreAccepted
PROPERTIES
  EveryPresaleSettles
  NothingSoldWhenEmpty
