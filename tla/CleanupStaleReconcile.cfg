SPECIFICATION Spec
CONSTANTS
  N = 1
  Plans = {planA}
  Procs = {p1, p2}
  Creators = {}
  Caps = {k1}
  NoCap = noCap
  Nobody = nobody
  Nothing = nothing
  ContentExact = {1}
  BundleExact = {1}
  Outside = {}
  Faults = {}
SYMMETRY Symmetry
PROPERTIES
  RestoresOnlyInterrupted
