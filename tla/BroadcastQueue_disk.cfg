SPECIFICATION FairSpec
CONSTANTS
  Jobs = {j1}
  NoJob = NoJob
  Addrs = {a, b, c}
  ChunkSize = 2
  MaxChunks = 2
  MaxRecipients = 3
  GroupSize = 1
  DailyCap = 3
  Kinds = {"marketing"}
  MaxPosts = 3
  MaxOptOuts = 0
  MaxRestarts = 1
  MayCut = TRUE
  FreeResume = TRUE
  DiskMayFail = TRUE
INVARIANTS
  OncePerJob
PROPERTIES
  StartedEnds
CHECK_DEADLOCK FALSE
