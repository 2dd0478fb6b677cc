SPECIFICATION Spec
CONSTANTS
  Checkouts = {c1}
  Refunders = {u1}
  Reasons = {guest_cancellation}
  MaxIntents = 2
  MaxRefunds = 2
  MaxStripe = 2
  ListLimit = 1
  Total = 2
  HostPayout = 1
  Amounts = {1}
INVARIANTS
  ChargedOnce
CHECK_DEADLOCK FALSE
