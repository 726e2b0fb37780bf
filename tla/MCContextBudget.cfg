CONSTANTS
  MaxMessages = 4
  Sizes = {1, 3}
  Header = 2
  MaxSummary = 2
  Budgets = {6, 9, 11}
SPECIFICATION Spec
INVARIANT RefusedOnlyIfNothingFits
CHECK_DEADLOCK FALSE
