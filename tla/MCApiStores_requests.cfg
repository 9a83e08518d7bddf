SPECIFICATION AlikeSpec
CONSTANTS
  c1 = c1
  c2 = c2
  c3 = c3
  old = old
  new = new
  k1 = k1
  north = north
  south = south
  home = home
  desk = desk
  all = all
  user = user
  Calls = {c1, c2, c3}
  Jobs <- AllJobs
  NoJob = NoJob
  Scopes = {all, user}
  Limit <- OneAndTwo
  MaxWindow = 2
  ArtifactIds = {old, new}
  Legacy = {old}
  ConversationIds = {k1}
  Tenants = {north, south}
  Workspaces = {home, desk}
  Default = home
  Nobody = Nobody
  NoRow = NoRow
SYMMETRY CallSymmetry
INVARIANTS IInv GeneratingIsGenerated
PROPERTIES TenantsApart OnlyOvertakenUndo
CHECK_DEADLOCK FALSE
