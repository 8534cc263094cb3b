SPECIFICATION FairCampaign
CONSTANTS
  MaxU64 = 1000000
  MaxU32 = 100000
  MaxCounter = 20
  RentExemptWallet = 1
  RentExemptEscrow = 1
  b1 = b1
  b2 = b2
  b3 = b3
  o1 = o1
  o2 = o2
  o3 = o3
  o4 = o4
  o5 = o5
  adm = adm
  Users = {b1, b2, b3, o1, o2, o3, o4, o5}
  Admins = {adm}
  Team = team
  NoAdmin = NoAdmin
  InitArgs <- RealInitArgs
  BuyAmounts = {10, 15, 20, 50}
  DepositAmounts = {50}
  NewTimes = {}
  ForceFlags = {0}
  Funds <- RealFunds
  TeamFunds = 1
  TokenSupply = 100
  MaxTime = 0
  Admin = adm
  SaleArgs <- RealArgs
  DepositAmount = 50
  Buyers <- RealBuyers
  Others <- RealOthers
  Removals = 3
  Purchases <- RealPurchases
  LastPurchase <- RealLastPurchase
  Outsiders = {}
  OutsideAmounts = {}
  AtaOpeners = {}
  Nobody = Nobody
  MaxRuns = 1
  MaxFaults = 1
PROPERTIES
  CampaignServes
  CampaignEnds
CHECK_DEADLOCK FALSE
