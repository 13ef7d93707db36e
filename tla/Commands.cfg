SPECIFICATION CommandsSpec
CONSTANTS
  main = main
  b = b
  c = c
  c0 = c0
  f1 = f1
  m1 = m1
  m2 = m2
  x = x
  y = y
  consumer = consumer
  other = other
  r1 = r1
  r2 = r2
  Branches <- MCBranches
  Main = main
  Commits <- MCCommits
  History <- MCHistory
  Printed <- MCPrinted
  Paths <- MCPaths
  Tree <- MCTree
  FirstRefs <- MCFirstRefs
  Subjects = {"WIP on", "On"}
  Settled = {c}
  MovedTo = {f1, m1, m2, x}
  NoTip = NoTip
  NoLog = NoLog
  NoArtifact = NoArtifact
  MaxTime = 3
  MaxEvents = 2
  Recent = 1
  Approved = {c}
  MaxBranches = 1
  MaxTools = 3
  Labels = {consumer, other}
  Consumer = consumer
  RootOf <- MCRootOf
  Train = "train"
  Pids = {p1, p2}
  Releases = {"v1", "dev"}
  Reviewed = {"v1"}
  Absent = Absent
  Attempts = 2
  MaxBirths = 2
  MaxDrift = 1
  Units = {"u"}
  Bound <- MCBound
  Judgements <- MCJudgements
  Origins = {"jev", "control"}
  Standing <- MCStanding
  Dispositions = {"RETAIN", "INTEGRATE"}
  MaxAnswers = 1
  MaxBuilds = 2
  NoFile = NoFile
  Users = {u1, u2}
  NoSecret = NoSecret
  Duration = 1
  MaxClock = 2
  MaxLeases = 2
  SourceUnits = {1, 2, 3, 4}
  BranchOf <- MCBranchOf
  EligibleBranches = {"f/x/a", "f/x/b"}
  FamilyOf <- MCFamilyOf
  DestinationUnits = {8, 9}
  ListedAt <- MCListedAt
  Symbols = {"s"}
  InputEdges <- MCInputEdges
  GapUnits = {}
  UnitLimits = {1, 2, 3}
  EdgeLimits = {1, 2, 9}
  NoFamily = NoFamily
  NoGroups = NoGroups
INVARIANTS
  CommandsTypeOK
  CandidatesAreExpendable
  CandidatesLayStill
  VerdictsAgree
  SnapshotIsWhole
  NoStaleReceipt
  NoRestartUnseen
  WaitCrossesNoRestart
  DecidedIsUnanimous
  StagesAgree
  ReadyIsEarned
  KeysAgree
  OnlyLiveTokens
  CompleteIsClosed
CHECK_DEADLOCK FALSE
