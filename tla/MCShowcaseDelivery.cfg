\* Intake, retries and simulated failures of up to four calls, one of which dies.
CONSTANTS
  Calls = {c1, c2, c3, c4}
  Deliveries = {d1}
  None = None
  MaxFaults = 1
SPECIFICATION Spec
SYMMETRY Symmetry
INVARIANTS ProcessingOwned AttemptsAccounted
PROPERTY ImplementsLifecycle
