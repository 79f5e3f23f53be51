SPECIFICATION Spec
CONSTANTS
  Processes = {p1, p2}
  Rules = {"r1", "r2"}
  Briefs = {"b1"}
  Scopes = {"email", "calendar"}
  Categories = {"communication_style"}
  Prompts = {"i1"}
  RuleBudget = 1
  MemoryTime = 1
  MemoryErrors = 1
  ManyRules = {"r1", "r2", "r3", "r4"}
  RuleScopes = {"email"}
  RuleLimit = 1
  Enough = 1
  ExampleCap = 2
  LearningWeek = 1
  LearningDays = 2
  MaxSignals = 2
  Ids = {"i1", "i2"}
  Addresses = {"a1", "a2"}
  Providers = {"google"}
  Deletes = {"d1"}
  MaxFaults = 1
  MaxUid = 4
  NoId = {4}
  Broken = {2}
  MailWindow = 1
  MailDays = 2
  MailFaults = 2
  Mailboxes = {"a1", "a2"}
  Clients = {"c1", "c2", "c3"}
  MaxConns = 2
  MaxAttempts = 1
  SignIns = {"s1", "s2", "s3"}
  SignOuts = {"v1"}
  FailedLimit = 2
  LockTime = 2
  SessionLimit = 1
  SignInTime = 3
  MaxRaces = 1
  GateSets = {{"feature", "plan"}, {"accounts"}, {"tokens"}, {"quota"}}
  TopPlan = 2
  FeaturesOf <- MCFeaturesOf
  AccountLimit <- MCAccountLimit
  TokenLimit <- MCTokenLimit
  PremiumLimit <- MCPremiumLimit
  TokensEach = 2
  MaxUse = 8
  LimitDays = 1
  MaxChanges = 1
  Clientele = {"k1"}
  MinuteTicks = 2
  BucketRpm = 2
  BucketOld = 2
  WindowLimit = 2
  BurstMax = 1
  RateTime = 4
  Loads <- MCLoads
  CalmLoads <- MCCalmLoads
  LateWorker = FALSE
  WeekendOk = TRUE
  MailLevels = {0, 2}
  MetricWeek = 2
  AlertDays = 1
  AlertWindow = 3
  KeepDays = 2
  HasAI = TRUE
  BehaviorDays = 3
INVARIANTS AccountsKept LimitsHold
PROPERTIES MemoryKept MailSeen
SYMMETRY Symmetry
CHECK_DEADLOCK FALSE
