SPECIFICATION Spec
CONSTANTS
  a1 = a1
  a2 = a2
  t1 = t1
  t2 = t2
  t3 = t3
  Threads <- MCThreads
  Adapters <- MCAdapters
  Of <- MCOf
  Nobody = nobody
  MaxDepth = 3
  Faults = {"os", "crash"}
PROPERTY
  LeaseKept
