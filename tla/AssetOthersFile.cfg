SPECIFICATION Spec
CONSTANTS
  Users = {u1, u2}
  Hashes = {h1}
  Areas = {a1}
  u1 = u1
  u2 = u2
  h1 = h1
  h2 = h2
  h3 = h3
  a1 = a1
  a2 = a2
  MaxGroup = 0
  GroupLimit = 2
  Size <- SizeOne
  Total <- TotalOne
  Tenants <- NoTenants
  Workers = {w1, w2}
  MaxTasks = 2
  Workloads <- Deletions
PROPERTY OnlyCopyRemoved
CHECK_DEADLOCK FALSE
