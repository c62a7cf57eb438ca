\* Four processes are started, look and end at any time.
SPECIFICATION PidSpec
CONSTANTS
  Daemons = {d1, d2, d3, d4}
  SelfCheck = FALSE
INVARIANTS OneInstance PidOfRunning
