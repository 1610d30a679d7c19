\* Two doors, one event, one pass rotation, one wipe.
SPECIFICATION DoorFairSpec
CONSTANTS
  d1 = d1
  d2 = d2
  t1 = t1
  t2 = t2
  e1 = e1
  e2 = e2
  NoPass = NoPass
  Devices = {d1, d2}
  Tickets = {t1}
  Events = {e1}
  EventOf <- OneEvent
  Times = {1, 2}
  MaxPasses = 2
  MaxResets = 1
  SwitchEvents = FALSE
INVARIANTS
  NoCheckinLost
  ShownIsVouched
PROPERTIES
  EveryDoorHears
CHECK_DEADLOCK FALSE
