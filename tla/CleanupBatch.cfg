SPECIFICATION Spec
CONSTANTS
  N = 3
  Plans = {planA, planB}
  Procs = {p1}
  Creators = {}
  Caps = {k1, k2}
  NoCap = noCap
  Nobody = nobody
  Nothing = nothing
  ContentExact = {1, 2}
  BundleExact = {1}
  Outside = {}
  Faults = {"crash"}
SYMMETRY Symmetry
PROPERTIES
  OneUnfinishedAction
  ClosedHonestly
  RestoresOnlyInterrupted
