\* A journal that may fail, lost answers, a key used elsewhere and a restart.
SPECIFICATION FairSpec
CONSTANTS
  Sends = {a1, a2, o1}
  Attempts = {a1, a2}
  MaxNonce = 2
  MaxLag = 0
  MaxRestarts = 1
  Outside = TRUE
  MinesBetweenReads = FALSE
  IdWriteMayFail = FALSE
  JournalMayFail = TRUE
  Free = Free
  Foreign = Foreign
  Absent = Absent
  NoTx = NoTx
  NoMarker = NoMarker
  NoId = NoId
INVARIANTS
  RegisteredOnce
  NoGap
PROPERTIES
  AttemptsEnd
CHECK_DEADLOCK FALSE
