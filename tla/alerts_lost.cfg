SPECIFICATION Spec
CONSTANTS
  Rules = {r1}
  Workers = {w1}
  Debounces = {2}
  MaxStreak = 3
  NoRule = NoRule
INVARIANT FiresAfterDebounce
