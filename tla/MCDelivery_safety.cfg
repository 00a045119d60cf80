\* Requests deliver or enqueue, two workers race, two tasks or requests fail, and
\* one delivery may lose its lead or integration.
CONSTANTS
  Workers = {w1, w2}
  Deliveries = {d1, d2}
  Integrations = {i1, i2}
  None = None
  ProcessNow = {TRUE, FALSE}
  Orphans = {d2}
  MaxFaults = 2
SPECIFICATION Spec
SYMMETRY Symmetry
INVARIANTS  AttemptLog DealsAccounted AttemptBudget RetryHasTask StuckOnlyIfOrphaned
PROPERTY ImplementsLifecycle
