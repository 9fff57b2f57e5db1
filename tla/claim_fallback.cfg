SPECIFICATION Spec
CONSTANTS
  MaxTurns = 1
INVARIANT FallbackOnlyWhenPreflightBlocked
