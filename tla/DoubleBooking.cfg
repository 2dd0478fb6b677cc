SPECIFICATION Spec
CONSTANTS
  Keys = {k1, k2}
  Feeds = {f1}
  Syncers = {s1}
  LastNight = 1
  MaxStay = 2
  MaxFeeds = 1
  Contents <- EmptyOrMiddle
INVARIANT
  NoDoubleBooking
SYMMETRY Symmetry
CHECK_DEADLOCK FALSE
