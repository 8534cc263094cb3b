SPECIFICATION CampaignSpec
CONSTANTS
  MaxU64 = 1000000
  MaxU32 = 100000
  MaxCounter = 20
  RentExemptWallet = 2
  RentExemptEscrow = 3
  b1 = b1
  b2 = b2
  b3 = b3
  o1 = o1
  o2 = o2
  o3 = o3
  o4 = o4
  o5 = o5
  adm = adm
  Users = {b1, b2, o1}
  Admins = {adm}
  Team = team
  NoAdmin = NoAdmin
  InitArgs <- SmallInitArgs
  BuyAmounts = {1, 2, 5}
  DepositAmounts = {9}
  NewTimes = {}
  ForceFlags = {0}
  Funds <- SmallFunds
  TeamFunds = 0
  TokenSupply = 12
  MaxTime = 1
  Admin = adm
  SaleArgs <- SmallArgs
  DepositAmount = 9
  Buyers <- SmallBuyers
  Others <- SmallOthers
  Removals = 1
  Purchases <- SmallPurchases
  LastPurchase <- SmallLastPurchase
  Outsiders = {o1}
  OutsideAmounts = {1}
  AtaOpeners = {b2}
  Nobody = Nobody
  MaxRuns = 2
  MaxFaults = 1
INVARIANTS
  CampaignTypeOK
  GreenMeansServed
  DeliveredAtMostBought
  TeamPaidPerRun
PROPERTIES
  NothingOwedIsWithdrawn
CHECK_DEADLOCK FALSE
