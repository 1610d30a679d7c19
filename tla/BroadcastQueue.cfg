\* A job and a resume of it, stopped or killed at any point, posts lost, an opt-out.
SPECIFICATION Spec
CONSTANTS
  Jobs = {j1, j2}
  NoJob = NoJob
  Addrs = {a, b}
  ChunkSize = 1
  MaxChunks = 2
  MaxRecipients = 3
  GroupSize = 1
  DailyCap = 3
  Kinds = {"marketing"}
  MaxPosts = 2
  MaxOptOuts = 1
  MaxRestarts = 1
  MayCut = TRUE
  FreeResume = TRUE
  DiskMayFail = FALSE
SYMMETRY Symmetry
INVARIANTS
  ResumeRepeatsAChunk
  CompletedCoversAll
  ReservationReturned
  CapHoldsButForCuts
PROPERTIES
  StaysStopped
CHECK_DEADLOCK FALSE
