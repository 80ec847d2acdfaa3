\* Risk, discovery, assessment, performance, agents, targets and export in turn.
CONSTANTS
  None = None
  Gone = Gone
  Rename = Rename
  \* one worker, an asset in an old snapshot and a newer one, three requests
  RiskAssets <- TwoAssets
  Older = {"old"}
  Fields = {"role", "exposure"}
  Values = {"high", "low"}
  Weights = {"even", "sharp"}
  RiskWorker = "w"
  RiskClients = {"c"}
  RiskChanges = 3
  \* one worker and two addresses
  EndpointAddresses = {"a", "b"}
  EndpointWorkers = {"w"}
  EndpointRequests = {"create", "cancel", "promote", "post", "delete"}
  EndpointBudget = 3
  EndpointKills = 1
  \* two workers on one discovery, cancelled and started again
  RivalAddresses = {"a"}
  RivalWorkers = {"v", "w"}
  RivalRequests = {"create", "cancel", "reset"}
  RivalBudget = 5
  RivalKills = 0
  \* a request, the worker and three changes
  Requests = {"r"}
  Worker = "w"
  Configs = {"disabled", "ready"}
  CacheChanges = 3
  \* a run of the worker, a client that posts and one that patches
  RunIds = {"r"}
  AutoStart = {"r"}
  Posters = {"p"}
  Patchers = {"q"}
  Measurable <- TwoMeasurable
  Snapshot = 2
  \* two agents, three registrations, two restarts, deactivations or agings
  AgentIds = {"a1", "a2"}
  MaxTokens = 3
  AgentChanges = 2
  \* two rows, two addresses, two overlapping clients
  TargetIds = {1, 2}
  Addresses = {"a", "b"}
  TargetClients = {"c1", "c2"}
  TargetRequests = 5
  \* two workers that score two assets while they are read
  ExportAssets = 2
  Scores = {20, 90}
  ExportWorkers = {"v", "w"}
  MaxWrites = 4
SPECIFICATION Spec
CHECK_DEADLOCK FALSE
INVARIANTS
  TypeOK
  ScoresFollowContext
  ReturnsNothingOlder
  RunFitsItself
  TokensAgree
  QuietExportAgrees
PROPERTIES
  FollowUpCovers
  FoundStays
  OnlyRegistrationRestores
