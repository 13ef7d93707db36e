SPECIFICATION Spec
CONSTANTS
  d1 = d1
  d2 = d2
  v1 = v1
  v2 = v2
  v3 = v3
  r1 = r1
  r2 = r2
  r3 = r3
  p1 = p1
  p2 = p2
  p3 = p3
  Procs <- MCProcs
  Dirs <- MCDirs
  Previews <- MCPreviews
  Requests <- MCRequests
  RequestsOf <- MCRequestsOf
  Commands <- MCCommands
  MaxRequests = 2
  NoFile = nofile
  Nobody = nobody
  NoCommand = nocommand
  NoRequest = norequest
  Faults = {"save", "provider", "crash", "power"}
SYMMETRY Symm
INVARIANTS
  AtMostOnce
  SentIsDurable
  SendsOwnPreview
  WithinBudget
PROPERTIES
  AnswersKept
CHECK_DEADLOCK FALSE
