\* Up to three rules with few conditions.
CONSTANTS
  None = None
  Integrations = {webhook}
  Unknown = Unknown
  Fallback = webhook
  Texts <- SomeTexts
  Substrings <- SomeSubstrings
  Amounts = {0, 7}
  Conditions <- FewConditions
  MaxRules = 3
  MaxPriority = 1
SPECIFICATION Spec
INVARIANTS DecisionByPriority 
