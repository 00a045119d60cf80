\* Three clients with overlapping contacts, with and without a common key; one
\* request fails or one answer is lost.
CONSTANTS
  e1 = e1
  e2 = e2
  p1 = p1
  x1 = x1
  None = None
  Clients = {c1, c2, c3}
  Keys = {k1}
  Payloads <- ContactPayloads
  MaxFaults = 1
SPECIFICATION Spec
SYMMETRY Symmetry
INVARIANTS OneLeadPerKey AnswersTruthful  ErrorsOnlyInRaces
