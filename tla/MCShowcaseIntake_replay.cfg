\* A request that dies before its idempotency record, and its repetition.
CONSTANTS
  e1 = e1
  e2 = e2
  p1 = p1
  x1 = x1
  None = None
  Clients = {c1}
  Keys = {k1}
  Payloads <- OnePayload
  MaxFaults = 1
SPECIFICATION Spec
INVARIANT ReplayReturnsOriginal
