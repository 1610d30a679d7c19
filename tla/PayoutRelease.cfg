\* One sweep at a time, a disk that works, crashes anywhere.  Two currencies: a
\* sale regroups to the currency it settled in, another is forced out by the
\* hold ceiling.
SPECIFICATION Spec
CONSTANTS
  Sales <- ThreeSales
  Currencies = {"gbp", "eur"}
  Charged <- MixedCharged
  SettlesIn <- MixedSettled
  Net <- OldestIsDouble
  EventDue <- MixedEventDue
  CeilingDue <- MixedCeilingDue
  ReplayWindow = 2
  KeyLife = 3
  Sweeps = {w1}
  Overlap = FALSE
  DiskMayFail = FALSE
  NoIntent = NoIntent
  MaxRefunds = 1
  MaxTime = 4
INVARIANTS
  NoDoublePay
  PaidIsOnDisk
PROPERTIES
  FreshNets
  KeepsPromise
