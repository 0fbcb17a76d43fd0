SPECIFICATION Spec
CONSTANTS
  Users = {u1}
  Hashes = {h1}
  Areas = {a1, a2}
  Nobody = Nobody
  Workers = {w1}
  Slots = {s1, s2}
  Bounds <- UploadsAndFailures
  Processes = {"p"}
  NoProcess = "none"
  Runs = {1, 2}
  NoRun = 0
  Counts = {1, 2}
  MaxPages = 2
  QueueSize = 1
  Assets = {"f"}
  Reports = {1, 2}
  MaxRetry = 1
  MaxNotices = 3
  MaxReports = 3
  Managers = {1, 2}
  Lifetime = 10
  Renewal = 2
  MaxRefusals = 2
INVARIANTS TypeOK FlagsAreEarned SyncNeverForgotten
PROPERTIES SyncCompletes RoundsAreSummed TenantHears TokenRecovers
CHECK_DEADLOCK FALSE
