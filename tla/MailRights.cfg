\* Two buyers, two answers taken in any order, an erasure script that runs
\* while the server is down and may die half-way.
SPECIFICATION RightsSpec
CONSTANTS
  Addrs = {a, b}
  Decisions = 2
  MaxRestarts = 1
  MaxErasures = 1
  LiveScript = FALSE
  NoMark = NoMark
  NoAddr = NoAddr
SYMMETRY Symmetry
INVARIANTS
  
  LatestChoiceWins
  BarredBeforeErased
CHECK_DEADLOCK FALSE
