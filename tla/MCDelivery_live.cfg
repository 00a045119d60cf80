\* No faults: what waits is eventually settled.
CONSTANTS
  Workers = {w1, w2}
  Deliveries = {d1, d2}
  Integrations = {i1}
  None = None
  ProcessNow = {FALSE}
  Orphans = {}
  MaxFaults = 0
SPECIFICATION FairSpec
PROPERTY WaitingTaskSettles
