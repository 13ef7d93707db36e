SPECIFICATION Spec
CONSTANTS
  s1 = s1
  s2 = s2
  b1 = b1
  b2 = b2
  Snapshots <- MCSnapshots
  Branches <- MCBranches
  BranchesOf <- MCBranchesOf
  NoFile = NoFile
  NoSnapshot = NoSnapshot
  NoBranch = NoBranch
  NoResult = NoResult
  Torn = Torn
  Bad = Bad
  Whole = Whole
  Scrap = Scrap
  p1 = p1
  p2 = p2
  Builds <- MCBuilds
  Faults = {"analysis", "save", "crash", "power"}
SYMMETRY Symmetry
INVARIANTS
  AlwaysReadable
  ProgressIsDurable
  ResultsAreOwn
PROPERTY
  KeptOrGone
