\* Concurrent and repeated requests with three keys, two of which die.
CONSTANTS
  e1 = e1
  e2 = e2
  p1 = p1
  x1 = x1
  None = None
  Clients = {c1, c2, c3}
  Keys = {k1, k2, k3}
  Payloads <- ContactPayloads
  MaxFaults = 2
SPECIFICATION Spec
SYMMETRY Symmetry
INVARIANTS OrphansOfTheDead AnswersTruthful
