SPECIFICATION Spec
CONSTANTS
  N = 1
  Plans = {planA}
  Procs = {p1}
  Creators = {}
  Caps = {k1}
  NoCap = noCap
  Nobody = nobody
  Nothing = nothing
  ContentExact = {1}
  BundleExact = {1}
  Outside = {"held"}
  Faults = {}
SYMMETRY Symmetry
PROPERTY
  HeldBranchesStay
