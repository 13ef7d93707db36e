SPECIFICATION FairSpec
CONSTANTS
  N = 1
  Plans = {planA}
  Procs = {p1}
  Creators = {c1}
  Caps = {k1}
  NoCap = noCap
  Nobody = nobody
  Nothing = nothing
  ContentExact = {1}
  BundleExact = {1}
  Outside = {"moved", "held"}
  Faults = {"git", "interrupt", "crash", "power", "release", "torn"}
PROPERTIES
  DeletionIsGuarded
  RestoredIsNotReported
  
