SPECIFICATION MCSpec
SYMMETRY MCSymmetry
CONSTRAINTS
  MCDryRunsApart
  MCPurgesMatter
  MCQueueApart
CONSTANTS
  data = data
  newcode = newcode
  Other = Other
  api1 = api1
  api2 = api2
  timer = timer
  Code = {data, newcode, Other}
  RepoRules <- MCRules
  FailClosed = FALSE
  Package = {1, 2, 3}
  FactsOf <- MCFactsOf
  RepoVersion = 1
  UnknownMinCount = 2
  OtherMinCount = 3
  MinPackages = 3
  MinFailPercent = 30
  Thread = {api1, api2, timer}
  Timer = {timer}
  PageSize = 2
  ListLimit = 1
  TrainingFile = "training_grade.json"
  Drafts = {newcode, "training_grade.json"}
  ByHand = {data}
  MaxCalls = 2
  MaxProposals = 3
  MaxMoves = 1
  MaxVersion = 3
INVARIANTS
  GatesSeeTheirRoot
  DryRunForetells
  ScansCoverTheCorpus
  TrendIsRunHistory
  OneOpenProposalPerTarget
CHECK_DEADLOCK FALSE
