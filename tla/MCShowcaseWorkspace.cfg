CONSTANTS
  Calls = {c1, c2, c3}
  Before = Before
  None = None
  Operations = {"getDashboard", "submitIntake", "saveRule", "resetDemo"}
  Providers = 1
  SeedLeads = 2
  InitiallySeeded = {FALSE, TRUE}
  MaxFaults = 2
SPECIFICATION MCSpec
SYMMETRY Symmetry
INVARIANTS  SeedComplete
PROPERTY ResetRestoresSeed
