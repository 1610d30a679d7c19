\* Two browsers, one backup, two recoveries.
SPECIFICATION RecoverySpec
CONSTANTS
  d1 = d1
  d2 = d2
  b1 = b1
  b2 = b2
  None = None
  Silence = Silence
  Browsers = {d1, d2}
  Backups = {b1}
  Portals = {d2}
  Synced <- OldAndNew
  LastCred = 2
  MaySwitch = FALSE
  Evictable = {d1, d2}
  Active = {0}
INVARIANTS
  GuardiansCanRestore
  
  NoFork
CHECK_DEADLOCK FALSE
