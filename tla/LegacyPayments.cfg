SPECIFICATION Spec
CONSTANTS
  Checkouts = {c1}
  Refunders = {u1, u2}
  Reasons = {guest_cancellation}
  MaxIntents = 2
  MaxRefunds = 2
  MaxStripe = 2
  ListLimit = 1
  Total = 2
  HostPayout = 1
  Amounts = {1}
SYMMETRY Symmetry
INVARIANTS
  TypeOK
  ChargeRecordedOnce
  RefundsRecordedOnce
  ReversalMatches
  RefundMadeOnce
CHECK_DEADLOCK FALSE
