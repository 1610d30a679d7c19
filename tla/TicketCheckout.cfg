\* A tab, a hold shared by two sessions, walk-ins, feed failures and a crash;
\* receipts that may not be heard of.
SPECIFICATION FairSpec
CONSTANTS
  t1 = t1
  t2 = t2
  alice = alice
  bob = bob
  ip1 = ip1
  ip2 = ip2
  Holds = {h1}
  Tabs <- OneTab
  Buyers = {alice, bob}
  BuyerOf <- OneOwner
  Ips = {ip1, ip2}
  IpOf <- OneIp
  Supply = 1
  Quantities = {1}
  SeatsPerIp = 2
  NoHold = NoHold
  Sessions = {s1, s2}
  WalkIns = TRUE
  Reopening = TRUE
  FeedMayFail = TRUE
  ReceiptMayFail = TRUE
  MaxCrashes = 1
INVARIANTS
  BothOnlyUnheard
  SeatsAddUp
PROPERTIES
  PaidIsSettled
  HoldOutlivesMint
  KeepsSeatSpec
CHECK_DEADLOCK FALSE
