\* A task enqueued before its row is committed finds nothing to claim.
CONSTANTS
  Workers = {w1}
  Deliveries = {d1}
  Integrations = {i1}
  None = None
  ProcessNow = {FALSE}
  Orphans = {}
  MaxFaults = 0
SPECIFICATION FairSpec
PROPERTY EveryDeliverySettles
