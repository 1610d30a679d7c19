\* Two browsers, three tabs, three seats of which one address may hold two.
SPECIFICATION SeatSpec
CONSTANTS
  t1 = t1
  t2 = t2
  t3 = t3
  alice = alice
  bob = bob
  ip1 = ip1
  ip2 = ip2
  Holds = {h1, h2, h3}
  Tabs <- ThreeTabs
  Buyers = {alice, bob}
  BuyerOf <- Owners
  Ips = {ip1, ip2}
  IpOf <- TwoIps
  Supply = 3
  Quantities = {1, 2}
  SeatsPerIp = 2
  NoHold = NoHold
SYMMETRY HoldSymmetry
INVARIANTS
  OneHoldPerBuyer
  
