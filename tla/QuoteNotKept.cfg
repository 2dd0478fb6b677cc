SPECIFICATION Spec
INVARIANTS
  QuoteIsKept
CHECK_DEADLOCK FALSE
