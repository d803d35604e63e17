SPECIFICATION MCSpec
CONSTANTS
  Deliveries <- MCDeliveries
  Titles <- MCTitles
  EditedCodes = {"rare_equipment"}
  PageLimit = 2
  MaxNotices = 3
  MaxTime = 2
  Admins = {"a1"}
  LoginNonces = {"n1", "n2"}
  Browsers = {"b1", "b2"}
  Services = {"s1"}
  Messages <- MCMessages
  Workers = {"w1", "w2"}
  MaxSkew = 1
  MaxTick = 3
  Operators = {"o1", "o2"}
  Desks = {"d1", "d2"}
  LoggedOps = {"op1"}
  Menus <- MCMenus
  Previews = {"p1"}
  CommitIds = {"c1", "c2"}
  Targets = {"t1", "t2"}
  MinLevel = 2
  MaxPerformed = 2
CHECK_DEADLOCK FALSE
INVARIANT PendingPreviewCommits
