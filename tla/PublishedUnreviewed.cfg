SPECIFICATION Spec
CONSTANTS
  Texts = {t0, t1, t2}
  CompleteTexts = {t1, t2}
  Amenities = {a1}
  Categories = {c1}
  Tabs = {tab1}
  MinimumImages = 1
  MaxImages = 2
INVARIANT
  UnreviewedIsHidden
CHECK_DEADLOCK FALSE
