SPECIFICATION FewSpec
CONSTANTS
  d1 = d1
  d2 = d2
  api = api
  worker = worker
  tool = tool
  o1 = o1
  o2 = o2
  o3 = o3
  Docs = {d1, d2}
  Processes = {api, worker, tool}
  Jobs <- AllJobs
  NoJob = NoJob
  Ops = {o1, o2, o3}
  NoOp = NoOp
  MaxFailures = 1
SYMMETRY OpSymmetry
INVARIANTS IInv CompletedStaysWhole DeletedStaysGone SearchFindsPublished VersionIsFresh
PROPERTIES VersionsOnlyGrow
