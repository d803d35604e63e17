SPECIFICATION MCSpec
CONSTANTS
  MaxCharacters = 2
  MaxRuns = 2
  MaxResumes = 1
  Slots = {0, 1}
  Floors <- MCFloors
  OriginServers = {"g1"}
  Clients = {"p1", "p2"}
  RunExp = {5}
  LevelRules <- MCLevelRules
  EnterCost = 1
  StartGold = 2
  Holders = {"c1", "c2"}
  OwnerOf <- MCOwnerOf
  Items = {1}
  Gear = {1, 2}
  Stackable = {1}
  StorageSlots = 2
  StorageLimit = 2
  StackMax = 1
  GearDurability = 1
  Wear = 1
  GearLevelMax = 1
  EnhanceStones = 1
  RecipeCost = 1
  Prices = {2}
  FeeBps = 5000
  BurnBps = 2500
  TreasuryBps = 1500
  DepositBps = 100
  RepairPerPoint = 1
  RepairMin = 1
  RepairBurnBps = 1000
  RepairRecycleBps = 8000
  MintFee = 1
  Casts <- MCCasts
  Quantities = {1, 2}
  MaxListings = 1
  Traders = {"c1", "c2"}
  Calls = {"r1", "r2", "r3"}
  Rules <- MCRules
  Scenarios <- MCScenarios
  DayBound = 4
  Shoppers = {"r1", "r2"}
  Pool <- MCPool
  Levels = {1, 2}
  MysterySlots = {1, 2}
  DailyLimit = 2
  SellPrice <- MCSellPrice
  RefreshCost <- MCRefreshCost
  ShopUses <- MCShopUses
  MaxRolls = 3
  MaxOrders = 2
  Refreshers = {"f1"}
  BountySlots = {1, 2, 3}
  Required = 2
  FinishedRuns <- MCFinishedRuns
  BountyGold = 1
  MaxBountyOrders = 1
  MaxTasks = 6
  MaxSettled = 2
  Openers = {"o1", "o2"}
  Fighters = {"p1"}
  Blows = {1, 2}
  MaxEvents = 2
  MaxContribution = 3
INVARIANT CompletedIsClaimable
CHECK_DEADLOCK FALSE
