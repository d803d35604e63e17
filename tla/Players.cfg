SPECIFICATION MCSpec
CONSTANTS
  MaxNonces = 2
  MaxSessions = 2
  MaxTokens = 4
  MaxTickets = 2
  Servers = {"g1", "g2"}
  Requests = {"r1", "r2"}
  Scenarios <- MCScenarios
  Accounts = {"a1"}
  GameServers = {"g1", "g2"}
  Handlers = {"h1", "h2"}
  MaxConnections = 2
  Capacity = 1
INVARIANTS
  TokensDoNotFork
  
PROPERTIES
  RequestsEnd
  
  
CHECK_DEADLOCK FALSE
