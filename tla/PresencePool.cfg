SPECIFICATION FairSpec
CONSTANTS
  v1 = v1
  v2 = v2
  r1 = r1
  r2 = r2
  r3 = r3
  r4 = r4
  Procs = {p1}
  Previews <- MCPreviews
  Requests <- MCRequests
  RequestsOf <- MCRequestsOf
  MaxWorkers = 3
  NoFile = nofile
  NoPreview = nopreview
  NoRequest = norequest
  Faults = {"save", "provider", "evidence", "interrupt", "crash", "power"}
INVARIANTS
  SentOnce
  SentIsAdmitted
  BoundedExposure
  ReportIsTrue
PROPERTIES
  UncertainBlocks
  LedgerKept
  EveryExecutionEnds
