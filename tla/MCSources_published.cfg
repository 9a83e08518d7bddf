SPECIFICATION Spec
CONSTANTS
  d1 = d1
  d2 = d2
  api = api
  worker = worker
  tool = tool
  o1 = o1
  o2 = o2
  o3 = o3
  Docs = {d1, d2}
  Processes = {api, worker, tool}
  Jobs <- UploadAndSearch
  NoJob = NoJob
  Ops = {o1, o2}
  NoOp = NoOp
  MaxFailures = 0
PROPERTIES OnlyPublishedAreFound
